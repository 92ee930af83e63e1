------------------------------- MODULE Machines -------------------------------
(* The PC environments and their disk images: service/environments/environments.py, *)
(* service/utils/vm/provisioner.py and the provisioning of a launch. A row names its *)
(* working image by path, nothing makes that path unique, and a provisioned image    *)
(* is written at a path made of the slug the row had when the request read it.       *)
EXTENDS Naturals, FiniteSets

CONSTANTS Machines,        \* ids of environment_items
          Labels,          \* slugs
          OwnImages,       \* disk images the user brought
          Workers,         \* requests in flight
          Unset            \* a NULL column

\* provision_86box_vm: emulators/86box/vms/<slug>/disk.vhd
Vm(label) == <<"vm", label>>
Paths == OwnImages \cup {Vm(l) : l \in Labels}

ASSUME MachinesAssumption ==
    /\ Unset \notin Labels \cup Paths
    /\ \A l \in Labels : Vm(l) \notin OwnImages

VARIABLES machine,         \* environment_items: era, slug, working and base image
          disk,            \* what is at each path: nothing, an empty disk, an installed system
          worker,          \* the requests between their read and their commit
          (* What has happened, for the properties. *)
          handed,          \* paths a user set as a working image
          renamed,         \* slugs that an environment with an image gave up
          rushed,          \* paths two requests were at work on at once
          cleared          \* environments whose image a user took away, or whose
                           \* creation died with the server

machinesVars == <<machine, disk, worker, handed, renamed, rushed, cleared>>

Bare == [era |-> "box", label |-> Unset, work |-> Unset, base |-> Unset]
Waiting == [kind |-> "none", on |-> Unset, row |-> Bare, path |-> Unset, wrote |-> FALSE]

Standing == {e \in Machines : machine[e] # Bare}
Contents == {"none", "blank", "os"}

Busy(p) == {w \in Workers : worker[w].path = p}
Rushed(p) == IF p # Unset /\ Busy(p) # {} THEN {p} ELSE {}

MachinesInit ==
    /\ machine = [e \in Machines |-> Bare]
    /\ disk = [p \in Paths |-> IF p \in OwnImages THEN "os" ELSE "none"]
    /\ worker = [w \in Workers |-> Waiting]
    /\ handed = {} /\ renamed = {} /\ rushed = {} /\ cleared = {}
-------------------------------------------------------------------------------
(* An environment is created.                                                    *)

\* unique_slug, over the rows there are
FreeLabel(l) == \A e \in Machines : machine[e].label # l

\* create_environment_item with an image of the user's, as it is.
CreateWith(e, era, l, p) ==
    /\ e \notin Standing /\ FreeLabel(l)
    /\ disk[p] # "none"
    /\ machine' = [machine EXCEPT ![e] =
            [era |-> era, label |-> l, work |-> p, base |-> Unset]]
    /\ handed' = handed \cup {p}
    /\ rushed' = rushed \cup Rushed(p)
    /\ cleared' = cleared \ {e}
    /\ UNCHANGED <<disk, worker, renamed>>

\* create_environment_item without one: the row is committed, and then provisioned.
CreateBare(w, e, era, l, base) ==
    LET row == [era |-> era, label |-> l, work |-> Unset, base |-> base] IN
    /\ worker[w] = Waiting
    /\ e \notin Standing /\ FreeLabel(l)
    /\ base # Unset => disk[base] # "none"
    /\ machine' = [machine EXCEPT ![e] = row]
    /\ worker' = [worker EXCEPT ![w] = [Waiting EXCEPT !.kind = "create", !.on = e, !.row = row, !.path = Vm(l)]]
    /\ cleared' = cleared \ {e}
    /\ UNCHANGED <<disk, handed, renamed, rushed>>

\* launch_environment, _ensure_environment_provisioned: a row without a working image,
\* as far as the await of the provisioning.
Launch(w, e) ==
    /\ worker[w] = Waiting
    /\ e \in Standing /\ machine[e].work = Unset
    /\ worker' = [worker EXCEPT ![w] = [Waiting EXCEPT !.kind = "launch", !.on = e,
                        !.row = machine[e], !.path = Vm(machine[e].label)]]
    /\ UNCHANGED <<machine, disk, handed, renamed, rushed, cleared>>
-------------------------------------------------------------------------------
(* Provisioning, on a thread of its own, by the row as it was read.              *)

\* provision_86box_vm: a new disk, or a copy of a base that has a system on it.
WriteDisk(w) ==
    LET p == worker[w].path
        base == worker[w].row.base
    IN  /\ worker[w].kind \in {"create", "launch"} /\ ~worker[w].wrote
        /\ worker[w].row.era = "box"
        /\ base # Unset => disk[base] # "none"
        /\ disk' = [disk EXCEPT ![p] = IF base # Unset /\ disk[base] = "os" THEN "os" ELSE "blank"]
        /\ worker' = [worker EXCEPT ![w].wrote = TRUE]
        /\ rushed' = IF Busy(p) # {w} THEN rushed \cup {p} ELSE rushed
        /\ UNCHANGED <<machine, handed, renamed, cleared>>

\* The path is committed, to whichever row has the id by now.
CommitDisk(w) ==
    LET e == worker[w].on IN
    /\ worker[w].wrote
    /\ worker' = [worker EXCEPT ![w] = Waiting]
    /\ machine' = IF e \in Standing THEN [machine EXCEPT ![e].work = worker[w].path] ELSE machine
    /\ rushed' = IF Busy(worker[w].path) # {w} \/ machine[e].label # worker[w].row.label
                 THEN rushed \cup {worker[w].path} ELSE rushed
    /\ UNCHANGED <<disk, handed, renamed, cleared>>

\* Mutant of AfterFailure: the row stays.
RowKept(w) == machine
\* A create takes its row back, a launch only says that it failed.
AfterFailure(w) == IF worker[w].kind = "create" THEN [machine EXCEPT ![worker[w].on] = Bare] ELSE machine

\* The binary is missing, the disk is full, the base is gone; and a DOS row without an
\* image always ends here, since provision_dosbox_drive wants the path it lacks.
FailDisk(w) ==
    /\ worker[w].kind \in {"create", "launch"}
    /\ worker' = [worker EXCEPT ![w] = Waiting]
    /\ machine' = AfterFailure(w)
    /\ UNCHANGED <<disk, handed, renamed, rushed, cleared>>
-------------------------------------------------------------------------------
(* Use and edits.                                                                *)

\* The user installs a system in the booted emulator.
Install(e) ==
    /\ e \in Standing /\ machine[e].work # Unset
    /\ disk[machine[e].work] = "blank"
    /\ disk' = [disk EXCEPT ![machine[e].work] = "os"]
    /\ UNCHANGED <<machine, worker, handed, renamed, rushed, cleared>>

\* update_environment_item: a path that is sent has to be a file, NULL clears.
PatchWork(e, p) ==
    /\ e \in Standing /\ p # machine[e].work
    /\ p # Unset => disk[p] # "none"
    /\ machine' = [machine EXCEPT ![e].work = p]
    /\ handed' = handed \cup ({p} \ {Unset})
    /\ rushed' = rushed \cup Rushed(p)
    /\ cleared' = IF p = Unset THEN cleared \cup {e} ELSE cleared
    /\ UNCHANGED <<disk, worker, renamed>>

PatchBase(e, p) ==
    /\ e \in Standing /\ p # machine[e].base
    /\ p # Unset => disk[p] # "none"
    /\ machine' = [machine EXCEPT ![e].base = p]
    /\ UNCHANGED <<disk, worker, handed, renamed, rushed, cleared>>

PatchLabel(e, l) ==
    /\ e \in Standing /\ FreeLabel(l)
    /\ machine' = [machine EXCEPT ![e].label = l]
    /\ renamed' = renamed \cup {machine[e].label}
    /\ UNCHANGED <<disk, worker, handed, rushed, cleared>>
-------------------------------------------------------------------------------
(* delete_environment_item: the other rows are asked, the file goes, then the row. *)

\* Mutant of StillReferenced: the others are not asked.
NotReferenced(e) == FALSE
StillReferenced(e) == \E d \in Machines \ {e} : machine[d].work = machine[e].work

BeginDelete(w, e) ==
    /\ worker[w] = Waiting
    /\ e \in Standing
    /\ worker' = [worker EXCEPT ![w] = [Waiting EXCEPT !.kind = "delete", !.on = e, !.row.label = machine[e].label,
                        !.path = IF machine[e].work = Unset \/ StillReferenced(e) THEN Unset ELSE machine[e].work]]
    /\ UNCHANGED <<machine, disk, handed, renamed, rushed, cleared>>

\* A file that another row took since the others were asked goes too. An unlink that
\* fails is logged and no more.
Unlink_(w) ==
    LET p == worker[w].path IN
    /\ worker[w].kind = "delete" /\ p # Unset
    /\ disk' \in {disk, [disk EXCEPT ![p] = "none"]}
    /\ worker' = [worker EXCEPT ![w].path = Unset]
    /\ UNCHANGED <<machine, handed, renamed, rushed, cleared>>

DeleteRow(w) ==
    LET e == worker[w].on IN
    /\ worker[w].kind = "delete" /\ worker[w].path = Unset
    /\ worker' = [worker EXCEPT ![w] = Waiting]
    /\ machine' = [machine EXCEPT ![e] = Bare]
    /\ UNCHANGED <<disk, handed, renamed, rushed, cleared>>

\* The server dies; what was committed and written stays.
Crash ==
    /\ \E w \in Workers : worker[w] # Waiting
    /\ worker' = [w \in Workers |-> Waiting]
    /\ cleared' = cleared \cup {e \in Standing : machine[e].work = Unset}
    /\ UNCHANGED <<machine, disk, handed, renamed, rushed>>
-------------------------------------------------------------------------------
Eras_ == {"box", "dos"}

MachinesNext ==
    \/ \E e \in Machines :
        \/ \E era \in Eras_, l \in Labels, p \in Paths : CreateWith(e, era, l, p)
        \/ \E p \in Paths \cup {Unset} : PatchWork(e, p) \/ PatchBase(e, p)
        \/ \E l \in Labels : PatchLabel(e, l)
        \/ Install(e)
    \/ \E w \in Workers :
        \/ \E e \in Machines : \/ \E era \in Eras_, l \in Labels, p \in Paths \cup {Unset} : CreateBare(w, e, era, l, p)
                              \/ Launch(w, e) \/ BeginDelete(w, e)
        \/ WriteDisk(w) \/ CommitDisk(w) \/ FailDisk(w) \/ Unlink_(w) \/ DeleteRow(w)
    \/ Crash

MachinesSpec == MachinesInit /\ [][MachinesNext]_machinesVars
-------------------------------------------------------------------------------
MachinesTypeOK ==
    /\ machine \in [Machines -> [era : Eras_, label : Labels \cup {Unset}, work : Paths \cup {Unset},
                                 base : Paths \cup {Unset}]]
    /\ disk \in [Paths -> Contents]
    /\ \A w \in Workers : /\ worker[w].kind \in {"none", "create", "launch", "delete"}
                          /\ worker[w].on \in Machines \cup {Unset}
                          /\ worker[w].path \in Paths \cup {Unset}
    /\ handed \subseteq Paths /\ rushed \subseteq Paths
    /\ renamed \subseteq Labels /\ cleared \subseteq Machines

Deleting(e) == \E w \in Workers : worker[w].kind = "delete" /\ worker[w].on = e
Dedicated(p) == p \notin handed /\ \A l \in renamed : p # Vm(l)

\* The disk an environment works on is not deleted with another environment, not even
\* one that names the same file, and a system installed on a disk that was provisioned
\* for it is not written over, by a retried create, a second launch or an environment
\* that gets the same id or slug later; unless two requests were at work on the file at
\* once, or, for the second, a user gave the file or its slug to another environment.
LiveImagesSurvive ==
    [][\A e \in Standing :
        LET p == machine[e].work IN
        machine'[e].work = p /\ p # Unset /\ ~Deleting(e) /\ p \notin rushed' =>
            /\ disk[p] # "none" => disk'[p] # "none"
            /\ disk[p] = "os" /\ Dedicated(p) => disk'[p] = "os"]_machinesVars

\* An environment has a working image, or is about to get one from the request that
\* creates it: a provisioning that fails leaves no row behind, however the ids are used
\* again. One without is one whose image a user took away, or that a crash cut short.
\* And an image of the user's that no environment works on is as the user left it.
NoHalfMadeMachines ==
    /\ \A e \in Standing \ cleared :
        machine[e].work # Unset \/ \E w \in Workers : worker[w].kind = "create" /\ worker[w].on = e
    /\ \A p \in OwnImages \ handed : disk[p] = "os"
===============================================================================
