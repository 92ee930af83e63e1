------------------------------- MODULE Backends -------------------------------
(* What a launch does between its reservation and a running emulator, and the        *)
(* threads that clean up after it: service/backends/*.py with the launcher, the      *)
(* descriptors of service/utils/emulator_catalog.py and the route that sets the      *)
(* paths of xemu.  process_registry lets a user run an emulator once, and two users  *)
(* the same emulator, whose one configuration file each launch reads, edits and      *)
(* writes back; no lock guards it.                                                   *)
EXTENDS Naturals, Sequences

CONSTANTS
    Players,        \* users; each launches an emulator once at a time
    Discs,          \* media, each in a folder of its own
    Mountable,      \* the .iso and .cue of them
    Dirs,           \* names mkdtemp may draw
    Chosen,         \* paths an administrator may set for xemu
    Absent,         \* no media; also: no path, no setting
    Descriptor,     \* family -> what its descriptor says of the container
    Whole,          \* writes that make a package complete
    Bootable,       \* the write that brings its EBOOT.BIN
    StableChecks    \* _INSTALL_STABLE_CHECKS

\* How a backend hands over what a launch asks for: a machine's file (86box), a file
\* rewritten each time (xemu), a private file (dosbox), a file only ever restricted
\* (flycast, pcsx2); rpcs3 installs packages.
Families == {"86box", "xemu", "dosbox", "flycast", "rpcs3"}

ASSUME BackendsAssumption ==
    /\ Mountable \subseteq Discs /\ Absent \notin Discs \cup Chosen \cup Players
    /\ Descriptor \in [Families -> [on : BOOLEAN, excluded : BOOLEAN]]
    /\ Whole \in Nat /\ Bootable \in 1..Whole /\ StableChecks \in Nat \ {0}

VARIABLES
    family,         \* the emulator this behaviour is about
    setting,        \* its sandbox_<slug>_container_enabled setting
    conf,           \* its configuration file
    installed,      \* an operating system is on the machine's disk (86box)
    launched,       \* each user's launch of it
    helper,         \* the thread that waits for a user's last process to end
    request,        \* the asset-paths request being served (xemu)
    litter,         \* folders with injected DLLs, private directories
    title,          \* writes of the package on disk, and the bundle's installed flag
    (* What has happened, for the properties. *)
    path,           \* the path the administrator set last
    tangled,        \* a write of the file has undone another's
    spilled,        \* litter that no thread is left to remove
    hurried,        \* a title has been booted before it was complete
    cutShort             \* a poll has ended an installer before it was done

confVars == <<conf, request, path, tangled>>
titleVars == <<title, hurried, cutShort>>
litterVars == <<litter, spilled>>
fixedVars == <<family, setting>>
backendsVars == <<fixedVars, confVars, titleVars, litterVars, installed, launched, helper>>

NoConf == [disc |-> Absent, base |-> FALSE, net |-> TRUE, path |-> Absent]
NoLaunch_ == [at |-> "idle", disc |-> Absent, net |-> FALSE, wrap |-> FALSE,
              left |-> {}, todo |-> <<>>, draft |-> Absent, saw |-> Absent,
              alone |-> TRUE]
NoHelper == [at |-> "idle", draft |-> Absent, litter |-> {}]
NoRequest == [path |-> Absent, draft |-> Absent]
NoPoll == [last |-> 0, same |-> 0, quiet |-> 0]

BackendsInit ==
    /\ family \in Families /\ setting \in {Absent, TRUE, FALSE}
    /\ conf = NoConf /\ installed = FALSE
    /\ launched = [p \in Players |-> NoLaunch_]
    /\ helper = [p \in Players |-> NoHelper]
    /\ request = NoRequest /\ path = Absent /\ tangled = FALSE
    /\ litter = {} /\ spilled = {}
    /\ title = [parts |-> 0, flag |-> FALSE] /\ hurried = FALSE /\ cutShort = FALSE
-------------------------------------------------------------------------------
(* The container.                                                                *)

\* get_container_enabled: a setting may restrict what the descriptor allows.
ContainerEnabled == Descriptor[family].on /\ setting # FALSE

\* resolve_container_enabled: the profile's own choice wins, but for an excluded one.
Contained(override) ==
    ~Descriptor[family].excluded /\ IF override = Absent THEN ContainerEnabled ELSE override
-------------------------------------------------------------------------------
(* The edits of a configuration file, each a read and a write of all of it.      *)

EditsOf(l) ==
    CASE family = "86box" -> <<"prepare">> \o IF l.net THEN <<"slirp">> ELSE <<>>
      [] family = "xemu" -> <<"provision">>
      [] family = "flycast" -> <<"folder">> \o IF l.net THEN <<>> ELSE <<"forbid">>
      [] OTHER -> <<>>

\* Mutant of InDrive: the drive is left as it is when there is nothing to mount.
InDriveLeft(c, d) == IF d \in Mountable THEN d ELSE c.disc
InDrive(c, d) == IF d \in Mountable THEN d ELSE Absent

\* Mutant of AssetPath: the default is recomputed at every launch.
AssetPathAnew(c) == "default"
\* read_xemu_asset_paths and the default of a key that is not set
AssetPath(c) == IF c.path = Absent THEN "default" ELSE c.path

\* _prepare_config: the drives and the adapter are set anew, the installation disc (a
\* base image stands by) goes once a system is on the disk.
Prepared(l, c) == [c EXCEPT !.disc = InDrive(c, l.disc), !.base = ~installed, !.net = FALSE]

\* patch_ini, when the profile allows the network
Networked(c) == [c EXCEPT !.net = TRUE]

\* provision_xemu_defaults writes all of it, but for paths that are set.
Provisioned(l, c) == [disc |-> l.disc, base |-> FALSE, net |-> l.net, path |-> AssetPath(c)]

\* flycast and pcsx2: off when the profile says so, never on again.
Restricted(c) == [c EXCEPT !.net = FALSE]

Edited(edit, l, c) ==
    CASE edit = "prepare" -> Prepared(l, c)
      [] edit = "slirp" -> Networked(c)
      [] edit = "provision" -> Provisioned(l, c)
      [] edit = "forbid" -> Restricted(c)
      [] edit = "folder" -> c

\* Launches that have read the file and whose emulator has not: someone else's write
\* may change what they get.
Interfere(by) ==
    [q \in Players |-> IF q # by /\ launched[q].at \in {"edit", "ready", "spawned"}
                       THEN [launched[q] EXCEPT !.alone = FALSE] ELSE launched[q]]

\* The file becomes c, made from what was read as draft.
WriteConf(draft, c) ==
    /\ conf' = c
    /\ tangled' = (tangled \/ draft # conf)
-------------------------------------------------------------------------------
(* A launch.                                                                     *)

\* dispatch, under the reservation of the user and the emulator.
Begin(p, disc, net, wrap) ==
    /\ family # "rpcs3" /\ launched[p].at = "idle"
    /\ family = "flycast" => disc # Absent
    /\ wrap => family = "86box" /\ disc # Absent
    /\ launched' = [launched EXCEPT ![p] =
            [NoLaunch_ EXCEPT !.at = "edit", !.disc = disc, !.net = net, !.wrap = wrap,
                              !.todo = EditsOf([net |-> net])]]
    /\ UNCHANGED <<fixedVars, confVars, titleVars, litterVars, installed, helper>>

ReadFile(p) ==
    /\ launched[p].at = "edit" /\ launched[p].todo # <<>> /\ launched[p].draft = Absent
    /\ launched' = [launched EXCEPT ![p].draft = conf]
    /\ UNCHANGED <<fixedVars, confVars, titleVars, litterVars, installed, helper>>

WriteFile(p) ==
    /\ launched[p].at = "edit" /\ launched[p].draft # Absent
    /\ LET l == launched[p] IN
        /\ WriteConf(l.draft, Edited(Head(l.todo), l, l.draft))
        /\ launched' = [Interfere(p) EXCEPT ![p] =
                [l EXCEPT !.draft = Absent, !.todo = Tail(l.todo)]]
    /\ UNCHANGED <<fixedVars, request, path, titleVars, litterVars, installed, helper>>

\* write_launch_conf, write_environment_conf: in a directory that mkdtemp draws
PrivateDir(left) == \E d \in Dirs \ litter : left = {d}

\* The DLLs are copied beside the media, or a private file is written.
PutBeside(p, left) ==
    /\ launched[p].at = "edit" /\ launched[p].todo = <<>>
    /\ CASE launched[p].wrap -> left = {launched[p].disc}
         [] family = "dosbox" -> PrivateDir(left)
         [] OTHER -> left = {}
    /\ launched' = [launched EXCEPT ![p].at = "ready", ![p].left = left]
    /\ litter' = litter \cup left
    /\ UNCHANGED <<fixedVars, confVars, titleVars, spilled, installed, helper>>

\* Media, firmware, image or DLLs are missing, or a copy fails and is undone.
Refuse(p) ==
    /\ launched[p].at = "edit"
    /\ launched' = [launched EXCEPT ![p] = NoLaunch_]
    /\ UNCHANGED <<fixedVars, confVars, titleVars, litterVars, installed, helper>>

\* launch_under_job_object: a container needs the configuration that its descriptor
\* or setting may withhold (dosbox builds its own).
Spawn(p, override) ==
    /\ launched[p].at = "ready"
    /\ Contained(override) => ContainerEnabled \/ family = "dosbox"
    /\ launched' = [launched EXCEPT ![p].at = "spawned"]
    /\ UNCHANGED <<fixedVars, confVars, titleVars, litterVars, installed, helper>>

\* Mutant of Undone: a failed start leaves the DLLs.
UndoneNothing(l) == litter
Undone(l) == IF family = "86box" THEN litter \ l.left ELSE litter

\* The process cannot be started; dosbox has nothing to undo what it wrote.
SpawnFails(p) ==
    /\ launched[p].at = "ready"
    /\ litter' = Undone(launched[p])
    /\ spilled' = IF family = "dosbox" THEN spilled \cup (launched[p].left \cap litter)
                  ELSE spilled \ launched[p].left
    /\ launched' = [launched EXCEPT ![p] = NoLaunch_]
    /\ UNCHANGED <<fixedVars, confVars, titleVars, installed, helper>>

\* The container's configuration cannot be built, outside the try that undoes.
CageFails(p, override) ==
    /\ launched[p].at = "ready" /\ Contained(override)
    /\ spilled' = spilled \cup (launched[p].left \cap litter)
    /\ launched' = [launched EXCEPT ![p] = NoLaunch_]
    /\ UNCHANGED <<fixedVars, confVars, titleVars, litter, installed, helper>>

\* Mutant of OnCommandLine: the disc is left to the file.
OnCommandLineNot(l) == family = "dosbox"
\* The disc is an argument, whatever the file says.
OnCommandLine(l) ==
    family \in {"dosbox", "flycast"} \/ (family = "xemu" /\ l.disc # Absent)

\* The emulator reads its configuration.
Boot(p) ==
    /\ launched[p].at = "spawned"
    /\ LET l == launched[p] IN
        launched' = [launched EXCEPT ![p] =
            [l EXCEPT !.at = "running",
                      !.saw = [disc |-> IF OnCommandLine(l) THEN l.disc ELSE conf.disc,
                               net |-> IF family = "dosbox" THEN l.net ELSE conf.net,
                               base |-> conf.base, ready |-> installed]]]
    /\ UNCHANGED <<fixedVars, confVars, titleVars, litterVars, installed, helper>>

\* Its user installs the operating system from the base image.
InstallSystem(p) ==
    /\ family = "86box" /\ launched[p].at = "running" /\ launched[p].saw.base
    /\ installed' = TRUE
    /\ launched' = Interfere(p)
    /\ UNCHANGED <<fixedVars, confVars, titleVars, litterVars, helper>>
-------------------------------------------------------------------------------
(* What is left of a launch.                                                     *)

Helps(l) ==
    IF l.left # {} \/ (family = "xemu" /\ l.disc # Absent)
    THEN [at |-> "waiting", draft |-> Absent, litter |-> l.left]
    ELSE NoHelper

\* The process ends; 86Box saves its settings when its user closes it.  A helper looks
\* every half second: it is done before the next launch has started and ended.
Quit(p, saves) ==
    /\ family # "rpcs3" /\ launched[p].at \in {"spawned", "running"}
    /\ helper[p] = NoHelper
    /\ saves => family = "86box" /\ launched[p].at = "running"
    /\ LET l == launched[p] IN
        /\ helper' = [helper EXCEPT ![p] = Helps(l)]
        /\ IF saves
           THEN /\ conf' = [conf EXCEPT !.disc = l.saw.disc, !.net = l.saw.net]
                /\ launched' = [Interfere(p) EXCEPT ![p] = NoLaunch_]
           ELSE /\ UNCHANGED conf
                /\ launched' = [launched EXCEPT ![p] = NoLaunch_]
    /\ UNCHANGED <<fixedVars, request, path, tangled, titleVars, litterVars, installed>>

\* _cleanup_dgvoodoo2_dlls, _cleanup_temp_dir_on_exit
CleanUp(p) ==
    /\ helper[p].at = "waiting" /\ family # "xemu"
    /\ litter' = litter \ helper[p].litter
    /\ spilled' = spilled \ helper[p].litter
    /\ helper' = [helper EXCEPT ![p] = NoHelper]
    /\ UNCHANGED <<fixedVars, confVars, titleVars, installed, launched>>

\* _clear_dvd_path_on_exit
ClearRead(p) ==
    /\ helper[p].at = "waiting" /\ family = "xemu"
    /\ helper' = [helper EXCEPT ![p].at = "writing", ![p].draft = conf]
    /\ UNCHANGED <<fixedVars, confVars, titleVars, litterVars, installed, launched>>

ClearWrite(p) ==
    /\ helper[p].at = "writing"
    /\ WriteConf(helper[p].draft, [helper[p].draft EXCEPT !.disc = Absent])
    /\ launched' = Interfere(Absent)
    /\ helper' = [helper EXCEPT ![p] = NoHelper]
    /\ UNCHANGED <<fixedVars, request, path, titleVars, litterVars, installed>>

\* patch_xemu_asset_paths keeps every other key.
PatchRead(a) ==
    /\ family = "xemu" /\ request = NoRequest
    /\ request' = [path |-> a, draft |-> conf]
    /\ UNCHANGED <<fixedVars, conf, path, tangled, titleVars, litterVars, installed,
                   launched, helper>>

PatchWrite ==
    /\ request # NoRequest
    /\ WriteConf(request.draft, [request.draft EXCEPT !.path = request.path])
    /\ path' = request.path
    /\ request' = NoRequest
    /\ launched' = Interfere(Absent)
    /\ UNCHANGED <<fixedVars, titleVars, litterVars, installed, helper>>
-------------------------------------------------------------------------------
(* A PlayStation 3 package: the first launch installs it, a later one boots it.  *)

Installing(p) == launched[p].at = "installing"

\* _write_installed_state
Recorded(t) == [t EXCEPT !.flag = TRUE]

\* rpcs3.launch of a package
BeginPackage(p) ==
    /\ family = "rpcs3" /\ launched[p].at = "idle"
    /\ IF title.parts >= Bootable
       THEN /\ title' = Recorded(title)
            /\ hurried' = (hurried \/ title.parts < Whole)
            /\ launched' = [launched EXCEPT ![p] = [NoLaunch_ EXCEPT !.at = "playing"]]
       ELSE /\ launched' = [launched EXCEPT ![p] =
                    [NoLaunch_ EXCEPT !.at = "installing", !.draft = NoPoll]]
            /\ UNCHANGED <<title, hurried>>
    /\ UNCHANGED <<fixedVars, confVars, cutShort, litterVars, installed, helper>>

Unpack(p) ==
    /\ Installing(p) /\ title.parts < Whole
    /\ title' = [title EXCEPT !.parts = @ + 1]
    /\ launched' = [q \in Players |->
            IF Installing(q) THEN [launched[q] EXCEPT !.draft.quiet = 0] ELSE launched[q]]
    /\ UNCHANGED <<fixedVars, confVars, hurried, cutShort, litterVars, installed, helper>>

\* Mutant of Unchanged: the count goes on over a change.
UnchangedEver(w, parts) == IF w.last = parts /\ parts # 0 THEN w.same + 1 ELSE w.same
\* How many looks in a row have found the folder as it was, and not empty.
Unchanged(w, parts) == IF w.last = parts /\ parts # 0 THEN w.same + 1 ELSE 0

\* One look of _wait_for_stable_and_terminate.  An installer that has begun to write
\* and is not done writes again within StableChecks looks (six seconds).
Poll(p) ==
    /\ Installing(p)
    /\ LET w == launched[p].draft
           n == Unchanged(w, title.parts)
           busy == title.parts \in 1..(Whole - 1)
       IN  /\ busy => w.quiet < StableChecks
           /\ IF n >= StableChecks /\ title.parts >= Bootable
              THEN /\ launched' = [launched EXCEPT ![p] = NoLaunch_]
                   /\ title' = Recorded(title)
                   /\ cutShort' = (cutShort \/ title.parts < Whole)
              ELSE /\ launched' = [launched EXCEPT ![p].draft =
                            [last |-> title.parts,
                             same |-> IF n > StableChecks THEN StableChecks ELSE n,
                             quiet |-> IF busy THEN w.quiet + 1 ELSE 0]]
                   /\ UNCHANGED <<title, cutShort>>
    /\ UNCHANGED <<fixedVars, confVars, hurried, litterVars, installed, helper>>

\* The user closes the installer, or the game; the poll ends and records nothing.
ClosePackage(p) ==
    /\ launched[p].at \in {"installing", "playing"}
    /\ launched' = [launched EXCEPT ![p] = NoLaunch_]
    /\ UNCHANGED <<fixedVars, confVars, titleVars, litterVars, installed, helper>>
-------------------------------------------------------------------------------
\* The server dies: its jobs take the processes along, and no thread cleans up.
ServerDies ==
    /\ launched' = [p \in Players |-> NoLaunch_]
    /\ helper' = [p \in Players |-> NoHelper]
    /\ request' = NoRequest
    /\ spilled' = spilled \cup litter
    /\ UNCHANGED <<fixedVars, conf, path, tangled, titleVars, litter, installed>>

BackendsNext ==
    \/ \E p \in Players :
        \/ \E d \in Discs \cup {Absent}, net, wrap \in BOOLEAN : Begin(p, d, net, wrap)
        \/ ReadFile(p) \/ WriteFile(p) \/ Refuse(p)
        \/ \E left \in SUBSET (Discs \cup Dirs) : PutBeside(p, left)
        \/ \E override \in {Absent, TRUE, FALSE} : Spawn(p, override) \/ CageFails(p, override)
        \/ SpawnFails(p) \/ Boot(p) \/ InstallSystem(p)
        \/ \E saves \in BOOLEAN : Quit(p, saves)
        \/ CleanUp(p) \/ ClearRead(p) \/ ClearWrite(p)
        \/ BeginPackage(p) \/ Unpack(p) \/ Poll(p) \/ ClosePackage(p)
    \/ \E a \in Chosen : PatchRead(a)
    \/ PatchWrite
    \/ ServerDies

BackendsSpec == BackendsInit /\ [][BackendsNext]_backendsVars
-------------------------------------------------------------------------------
ConfType == [disc : Discs \cup {Absent}, base : BOOLEAN, net : BOOLEAN,
             path : Chosen \cup {Absent, "default"}]

BackendsTypeOK ==
    /\ family \in Families /\ setting \in {Absent, TRUE, FALSE}
    /\ conf \in ConfType /\ installed \in BOOLEAN
    /\ \A p \in Players :
        /\ launched[p].at \in {"idle", "edit", "ready", "spawned", "running",
                               "installing", "playing"}
        /\ helper[p].at \in {"idle", "waiting", "writing"}
    /\ request.path \in Chosen \cup {Absent} /\ path \in Chosen \cup {Absent}
    /\ litter \subseteq Discs \cup Dirs /\ spilled \subseteq litter
    /\ title \in [parts : 0..Whole, flag : BOOLEAN]
    /\ {tangled, hurried, cutShort} \subseteq BOOLEAN

\* Whatever earlier launches, their cleanup and the emulator itself left in the file:
\* a launch that nobody wrote the file under starts with the disc it asked for or with
\* none, with the network exactly as its profile says (off when it says off, for the
\* emulators that are only ever restricted), and with the system's installation disc
\* exactly as long as no system is installed.  A private file, or a disc on the command
\* line, holds against every other launch, too.
StartsAsAsked ==
    \A p \in Players :
        LET l == launched[p]
            wanted == IF family = "86box" /\ l.disc \notin Mountable THEN Absent ELSE l.disc
        IN  l.at = "running" =>
                /\ (l.alone \/ family = "dosbox") =>
                        /\ l.saw.disc = wanted
                        /\ IF family = "flycast" THEN l.saw.net => l.net ELSE l.saw.net = l.net
                /\ family \in {"xemu", "flycast"} /\ l.disc # Absent => l.saw.disc = l.disc
                /\ l.alone /\ family = "86box" => l.saw.base = ~l.saw.ready

\* An administrator's path outlives every launch and exit that undoes no other write.
ChosenPathKept == ~tangled /\ path # Absent => conf.path = path

\* What a launch put beside a game or in a directory of its own is there only while the
\* launch or its helper is, unless building the container failed, DOSBox-X did not
\* start, or the server died.
NothingLeftBehind ==
    litter \subseteq spilled
        \cup UNION {launched[p].left \cup helper[p].litter : p \in Players}

\* No installer is ended before it is done, and a package counts as installed only once
\* it is complete, unless somebody closed its installer or booted it meanwhile.
InstallersRunOut == ~cutShort /\ (title.flag /\ ~hurried => title.parts = Whole)

\* After launches, failures and exits in any order: the three together.
AftermathIsClean == ChosenPathKept /\ NothingLeftBehind /\ InstallersRunOut
===============================================================================
