------------------------------- MODULE MCAccess -------------------------------
(* Who may do what, the accounts, the guards of the routes and the filters; what  *)
(* is installed; and what a launch edits: each on an instance of its own. They    *)
(* share no state, so a behaviour is one of any of them.                          *)
EXTENDS Accounts, Guards, Visibility, Installs, Backends, TLC

CONSTANTS r1, r2, ip, E, M, P, id1, id2, d1, d2

VARIABLE turn     \* the component that moves

MCTurns == {"accounts", "guards", "visibility", "installs", "backends"}

MCVars == <<accountVars, guardVars, visibilityVars, installsVars, backendsVars>>

MCInit ==
    /\ turn \in MCTurns
    /\ AccountsInit /\ GuardsInit /\ VisibilityInit /\ InstallsInit /\ BackendsInit
    /\ turn # "visibility" => custom = NoMap

\* All but the variables of one component stay.
Others(p) ==
    /\ UNCHANGED turn
    /\ IF p = "accounts" THEN TRUE ELSE UNCHANGED accountVars
    /\ IF p = "guards" THEN TRUE ELSE UNCHANGED guardVars
    /\ IF p = "visibility" THEN TRUE ELSE UNCHANGED visibilityVars
    /\ IF p = "installs" THEN TRUE ELSE UNCHANGED installsVars
    /\ IF p = "backends" THEN TRUE ELSE UNCHANGED backendsVars

MCNext ==
    \/ turn = "accounts" /\ AccountsNext /\ Others("accounts")
    \/ turn = "guards" /\ GuardsNext /\ Others("guards")
    \/ turn = "visibility" /\ VisibilityNext /\ Others("visibility")
    \/ turn = "installs" /\ InstallsNext /\ Others("installs")
    \/ turn = "backends" /\ BackendsNext /\ Others("backends")

MCSpec == MCInit /\ [][MCNext]_<<MCVars, turn>>
-------------------------------------------------------------------------------
(* The instances.                                                                *)

MCLimit == (ip :> 2)
MCWindow == (ip :> 4)

MCScheme == (E :> "ESRB") @@ (M :> "ESRB") @@ (P :> "PEGI")
MCSeverity == (E :> 0) @@ (M :> 1) @@ (P :> 0)
MCMaps == {(E :> 1) @@ (M :> 0) @@ (P :> 0), (M :> 0)}

\* container_enabled and container_permanently_excluded of config/emulators/*.toml
MCDescriptor ==
    [f \in Families |->
        [on |-> f \notin {"86box", "xemu"}, excluded |-> f = "xemu"]]

MCSymmetry == Permutations({r1, r2}) \cup Permutations(Pins)
-------------------------------------------------------------------------------
(* The bounds of each.                                                           *)

\* One request at a time for another account, beside a rotation, after one, and when
\* a session has expired or a PIN is not required; none after a torn rotation.
AccountsBound ==
    LET Busy == {r \in Requests : req[r].kind \notin {"none", "rotate"}}
        Odd(u) == account[u].expired \/ (account[u].hash # NoHash /\ ~account[u].required)
    IN  /\ ~torn /\ account[Owner].failed = 0 /\ ~account[Owner].expired
        /\ \A r \in Requests : req[r].kind \in {"logout", "refresh"} => req[r].user # Owner
        /\ \A r, o \in Busy : req[r].user = req[o].user
        /\ env # NoPepper \/ (\E u \in Users : Odd(u)) => Cardinality(Busy) <= 1

\* The limiter or the tokens.
GuardsBound == (\A j \in Keys : allowed[j] = {}) \/ \A t \in Slips : issued[t] = Nobody

\* Ratings, or restrictions.
VisibilityBound ==
    \/ rows = {} /\ items = {} /\ \A d \in Domains \ {"game"} : there[d] = {}
    \/ /\ last = Nothing /\ custom = NoMap
       /\ \A r \in Editors : edit[r] = Calm
       /\ \A u \in Viewers : ceiling[u] = NoCeiling

\* Two launches, cleanups or requests at once and one request; the setting where it
\* may matter; a wrapper for what is not mounted.
BackendsBound ==
    /\ turn # "backends" => family = "rpcs3"
    /\ setting = Absent \/ (setting = FALSE /\ family \in {"dosbox", "flycast"})
    /\ (litter # {} /\ family = "86box") \/ (\E p \in Players : launched[p].wrap) =>
            /\ ~installed /\ conf.disc = Absent
            /\ \A p \in Players : ~launched[p].net /\ launched[p].disc \in {Absent, d2}
    /\ Cardinality({p \in Players : launched[p].at # "idle"})
        + Cardinality({p \in Players : helper[p].at # "idle"})
        + (IF request = NoRequest THEN 0 ELSE 1) <= 2
    /\ path # Absent => request = NoRequest

MCBound == AccountsBound /\ GuardsBound /\ VisibilityBound /\ BackendsBound
-------------------------------------------------------------------------------
(* The types of all of them.                                                     *)
TypeOK ==
    /\ turn \in MCTurns
    /\ AccountsTypeOK /\ GuardsTypeOK /\ VisibilityTypeOK /\ InstallsTypeOK /\ BackendsTypeOK
===============================================================================
