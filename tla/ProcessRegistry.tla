--------------------------- MODULE ProcessRegistry ---------------------------
(***************************************************************************)
(* The in-memory registry of running emulators, core/process_registry.py.  *)
(*                                                                         *)
(* Every method of the registry takes one lock, so each operator below is  *)
(* one atomic change of the variables it names; the coordinator, the       *)
(* monitor loop, the stop route and the shutdown code compose them into    *)
(* steps (module Launch).  A launch attempt stands for its own process: at *)
(* most one process is ever created for it, and Windows does not reuse the *)
(* pid while the registry keeps a handle open.                             *)
(***************************************************************************)
EXTENDS Naturals, FiniteSets

CONSTANTS
    Launches,     \* launch attempts; also the ids of their history rows
    Profiles,     \* rows of profile_item
    ProfileSlug,  \* profile -> emulator slug, or NoSlug
    ProfileUser,  \* profile -> owning user, or NoUser for a shared profile
    Users, NoUser,
    Slugs, NoSlug

ASSUME ConstantsAssumption ==
    /\ IsFiniteSet(Launches)
    /\ NoSlug \notin Slugs
    /\ NoUser \notin Users
    /\ ProfileSlug \in [Profiles -> Slugs \cup {NoSlug}]
    /\ ProfileUser \in [Profiles -> Users \cup {NoUser}]

VARIABLES
    profile,         \* the profile each launch attempt resolved to
    proc,            \* what the OS says of the launch's process
    registry,        \* launches whose process is in _registry
    order,           \* dict insertion order of _registry, 0 when never inserted
    pendingProfiles, \* _pending_profiles
    pendingScopes    \* _pending_emulator_scopes

registryVars == <<registry, order, pendingProfiles, pendingScopes>>

\* "clean" and "crashed" are exits of the emulator itself with code 0 and with
\* another code; "killed" is an exit the backend or its Job Object caused.
ProcStates == {"none", "running", "clean", "crashed", "killed"}
ExitedStates == {"clean", "crashed", "killed"}

HasScope(p) == ProfileSlug[p] # NoSlug
Scope(p) == <<ProfileSlug[p], ProfileUser[p]>>
Scopes == (Slugs \cup {NoSlug}) \X (Users \cup {NoUser})

\* Two launches that may not both be active: same profile, or same emulator
\* for the same user.
Conflict(l, k) ==
    \/ profile[l] = profile[k]
    \/ /\ HasScope(profile[l])
       /\ HasScope(profile[k])
       /\ Scope(profile[l]) = Scope(profile[k])

ActiveProfiles == {profile[k] : k \in registry}
ActiveScopes == {Scope(profile[k]) : k \in {r \in registry : HasScope(profile[r])}}

\* Mutants of Available: the test overlooks launches that are only pending, or
\* compares profiles alone.
AvailableUnregistered(l) ==
    /\ profile[l] \notin ActiveProfiles
    /\ HasScope(profile[l]) => Scope(profile[l]) \notin ActiveScopes
AvailableByProfile(l) == profile[l] \notin ActiveProfiles \cup pendingProfiles

\* The test of try_reserve.
Available(l) ==
    /\ profile[l] \notin ActiveProfiles \cup pendingProfiles
    /\ HasScope(profile[l]) =>
         Scope(profile[l]) \notin ActiveScopes \cup pendingScopes

ScopeKeys(l) == IF HasScope(profile[l]) THEN {Scope(profile[l])} ELSE {}

MarkPending(l) ==
    /\ pendingProfiles' = pendingProfiles \cup {profile[l]}
    /\ pendingScopes' = pendingScopes \cup ScopeKeys(l)

\* Mutant of Release: the emulator scope stays pending.
ReleaseProfile(l) ==
    /\ pendingProfiles' = pendingProfiles \ {profile[l]}
    /\ UNCHANGED pendingScopes

Release(l) ==
    /\ pendingProfiles' = pendingProfiles \ {profile[l]}
    /\ pendingScopes' = pendingScopes \ ScopeKeys(l)

Register(l) ==
    /\ registry' = registry \cup {l}
    /\ order' = [order EXCEPT ![l] = 1 + Cardinality({k \in Launches : order[k] > 0})]

\* Mutant of Terminate: the entry is popped and the process left alone.
PopOnly(S) ==
    /\ registry' = registry \ S
    /\ UNCHANGED proc

\* terminate(pid): a no-op on an entry that is gone; otherwise the process is
\* killed if it still runs (its Job Object is torn down with it) and the entry
\* is popped.
Terminate(S) ==
    /\ registry' = registry \ S
    /\ proc' = [l \in Launches |->
                  IF l \in S \cap registry /\ proc[l] = "running" THEN "killed" ELSE proc[l]]

\* Mutant of Exited: entries are reaped without polling their process.
ExitedUnpolled == registry

Exited == {l \in registry : proc[l] \in ExitedStates}

\* cleanup_exited(): pops every entry whose process has exited; the caller
\* gets the popped entries, here Exited before the step.
CleanupExited == registry' = registry \ Exited

RegistryTypeOK ==
    /\ profile \in [Launches -> Profiles]
    /\ proc \in [Launches -> ProcStates]
    /\ registry \in SUBSET Launches
    /\ order \in [Launches -> Nat]
    /\ pendingProfiles \in SUBSET Profiles
    /\ pendingScopes \in SUBSET Scopes

RegistryInit ==
    /\ profile \in [Launches -> Profiles]
    /\ proc = [l \in Launches |-> "none"]
    /\ registry = {}
    /\ order = [l \in Launches |-> 0]
    /\ pendingProfiles = {}
    /\ pendingScopes = {}
==============================================================================
