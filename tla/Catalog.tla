------------------------------- MODULE Catalog -------------------------------
(* The library after it was filled: bundles of games and apps, the leaves under   *)
(* them, the environments PC titles run in, and the edits of all three, each of   *)
(* which reads the row it changes and commits only the columns that differ.       *)
(* service/games/items.py, service/apps/items.py, service/utils/era_defaults.py.  *)
EXTENDS Integers, FiniteSets, FiniteSetsExt

CONSTANTS Games, Apps,            \* ids of bundles
          Leaves,                 \* ids of leaves, the same in the two tables
          Eras, PcEras,           \* EraValue, and PC_ERAS
          DosEras, Provisionable, \* DOS_WIN_ERAS, PROVISIONABLE_ERAS
          Emulator,               \* ERA_BACKENDS
          Environments,           \* ids of environments, in their order
          Keep, Nil,              \* a field a PATCH leaves out; a column that is NULL
          Patchers,               \* requests that change a bundle at once
          MaxFields               \* how many fields one PATCH may name

Bundles == Games \cup Apps
Kinds == {"game", "app"}
Statuses == {"verified", "not_in_index", "unchecked", "mismatch", "caution"}

ASSUME CatalogAssumption ==
    /\ Games \cap Apps = {}
    /\ DosEras \subseteq Provisionable /\ Provisionable \subseteq PcEras /\ PcEras \subseteq Eras
    /\ DOMAIN Emulator = Eras
    /\ Environments \subseteq Nat /\ MaxFields \in Nat
    /\ Nil \notin Leaves /\ Nil \notin Environments /\ Nil \notin Bundles /\ Nil \notin Eras
    /\ Keep \notin Leaves /\ Keep \notin Environments /\ Keep \notin Eras /\ Keep # Nil

VARIABLES bundle,       \* game_item_bundles and app_item_bundles
          leaf,         \* game_items and app_items
          media,        \* the file behind each leaf
          environment,  \* environment_items
          patch,        \* the edits between their read and their commit
          (* What has happened, for the properties. *)
          mixed,        \* bundles with a commit between the read and the commit of an edit
          cut           \* <<bundle, leaf>>: the leaf was deleted under the bundle

catalogVars == <<bundle, leaf, media, environment, patch, mixed, cut>>

KindOf(b) == IF b \in Games THEN "game" ELSE "app"
NoBundle == [era |-> Nil, pc |-> FALSE, env |-> Nil, profile |-> FALSE, launch |-> Nil, display |-> Nil]
NoLeaf == [of |-> Nil, disc |-> 0, hashed |-> FALSE, status |-> "unchecked"]
NoEnvironment == [era |-> Nil, system |-> FALSE, image |-> FALSE, installed |-> FALSE]
NoPatch == [bundle |-> Nil, row |-> <<>>, discs |-> <<>>]

Listed == {b \in Bundles : bundle[b] # NoBundle}
LeavesOf(b) == {l \in Leaves : leaf[KindOf(b)][l].of = b}
There == {e \in Environments : environment[e] # NoEnvironment}

CatalogInit ==
    /\ bundle = [b \in Bundles |-> NoBundle]
    /\ leaf = [k \in Kinds |-> [l \in Leaves |-> NoLeaf]]
    /\ media = [k \in Kinds |-> [l \in Leaves |-> "good"]]
    /\ environment = [e \in Environments |-> NoEnvironment]
    /\ patch = [r \in Patchers |-> NoPatch]
    /\ mixed = {}
    /\ cut = {}
-------------------------------------------------------------------------------
(* A bundle is created and deleted.                                              *)

\* derive_item_type, derive_is_pc
IsPc(era) == era \in PcEras

\* _enforce_environment_binding
MayBind(row) == row.pc \/ row.env = Nil

\* formatscout.classify: what it makes of a file, and whether it could hash it.
Classify(file) ==
    CASE file = "good" -> {[hashed |-> TRUE, status |-> "verified"]}
      [] file = "changed" -> [hashed : {TRUE}, status : {"not_in_index", "mismatch", "caution"}]
      [] OTHER -> {[hashed |-> FALSE, status |-> "unchecked"]}

\* lookup_environment_and_profile: some system row of the emulator, whatever its era.
DefaultsFor(era) ==
    LET rows == {e \in There : environment[e].system /\ Emulator[environment[e].era] = Emulator[era]}
    IN  IF rows = {} \/ ~IsPc(era) THEN {Nil} ELSE rows

\* The rows of a bundle and its n leaves, in one transaction; disc 1 is launched and
\* shown. An edit in flight may have read rows that had these ids before.
Insert_(b, era, env, profile, order, verdict) ==
    LET row == [era |-> era, pc |-> IsPc(era), env |-> env, profile |-> profile,
                launch |-> order[1], display |-> order[1]]
        n == Cardinality(DOMAIN order)
    IN  /\ bundle[b] = NoBundle
        /\ \A i \in 1..n : leaf[KindOf(b)][order[i]] = NoLeaf
        /\ MayBind(row)
        /\ bundle' = [bundle EXCEPT ![b] = row]
        /\ leaf' = [leaf EXCEPT ![KindOf(b)] = [l \in Leaves |->
                IF \E i \in 1..n : order[i] = l
                THEN [of |-> b, disc |-> CHOOSE i \in 1..n : order[i] = l,
                      hashed |-> verdict.hashed, status |-> verdict.status]
                ELSE leaf[KindOf(b)][l]]]
        /\ mixed' = IF \E r \in Patchers : \/ patch[r].bundle = b
                                          \/ DOMAIN patch[r].discs \cap {order[i] : i \in 1..n} # {}
                    THEN mixed \cup {b} ELSE mixed
        /\ UNCHANGED <<media, environment, patch, cut>>

\* _persist_multi_disc_collection, with the row of _finalize_row_fields
CreateGame(b, era, profile, order) ==
    /\ b \in Games
    /\ \E env \in DefaultsFor(era), verdict \in Classify("good") \cup Classify("changed") :
            Insert_(b, era, env, profile, order, verdict)

\* create_app_item_bundle
CreateApp(b, era, env, l) ==
    /\ b \in Apps
    /\ env \in There \cup {Nil}
    /\ Insert_(b, era, env, FALSE, <<l>>, [hashed |-> FALSE, status |-> "unchecked"])

\* delete_library_collection, delete_app_item_bundle: the leaves go with the row.
DeleteBundle(b) ==
    /\ b \in Listed
    /\ bundle' = [bundle EXCEPT ![b] = NoBundle]
    /\ leaf' = [leaf EXCEPT ![KindOf(b)] = [l \in Leaves |->
            IF leaf[KindOf(b)][l].of = b THEN NoLeaf ELSE leaf[KindOf(b)][l]]]
    /\ mixed' = mixed \ {b}
    /\ cut' = {c \in cut : c[1] # b}
    /\ UNCHANGED <<media, environment, patch>>

\* delete_app_item looks at no bundle.
DeleteAppLeaf(l) ==
    /\ leaf["app"][l] # NoLeaf
    /\ leaf' = [leaf EXCEPT !["app"][l] = NoLeaf]
    /\ cut' = cut \cup {<<leaf["app"][l].of, l>>}
    /\ UNCHANGED <<bundle, media, environment, patch, mixed>>
-------------------------------------------------------------------------------
(* An edit reads, checks, sets, and later commits what differs from what it read. *)

Dirty(new, old) == [c \in {x \in DOMAIN old : new[x] # old[x]} |-> new[c]]

\* Mutant of Patched: the type is left as it was when the era changes.
PatchedNotDerived(old, f) ==
    [c \in DOMAIN old |-> IF c = "pc" \/ f[c] = Keep THEN old[c] ELSE f[c]]
\* setattr of every field that was sent, and the type again if the era was.
Patched(old, f) ==
    [c \in DOMAIN old |-> IF c = "pc" THEN IF f.era = Keep THEN old.pc ELSE IsPc(f.era)
                          ELSE IF f[c] = Keep THEN old[c] ELSE f[c]]

\* update_library_collection, update_app_item_bundle, as far as the commit; only the
\* second looks for the environment, the other leaves it to the foreign key.
BeginPatch(r, b, f) ==
    LET new == Patched(bundle[b], f) IN
    /\ patch[r] = NoPatch
    /\ b \in Listed
    /\ b \in Apps /\ f.env \notin {Keep, Nil} => f.env \in There
    /\ {f.launch, f.display} \subseteq LeavesOf(b) \cup {Keep, Nil}
    /\ MayBind(new)
    /\ patch' = [patch EXCEPT ![r] = [bundle |-> b, row |-> Dirty(new, bundle[b]), discs |-> <<>>]]
    /\ UNCHANGED <<bundle, leaf, media, environment, mixed, cut>>

\* reorder_library_items, as far as the commit: the order names every disc once.
BeginReorder(r, b, order) ==
    LET discs == [l \in LeavesOf(b) |-> CHOOSE i \in DOMAIN order : order[i] = l] IN
    /\ patch[r] = NoPatch
    /\ b \in Listed \cap Games
    /\ {order[i] : i \in DOMAIN order} = LeavesOf(b)
    /\ Cardinality(DOMAIN order) = Cardinality(LeavesOf(b))
    /\ patch' = [patch EXCEPT ![r] =
            [bundle |-> b,
             row |-> Dirty([bundle[b] EXCEPT !.launch = order[1]], bundle[b]),
             discs |-> Dirty(discs, [l \in LeavesOf(b) |-> leaf["game"][l].disc])]]
    /\ UNCHANGED <<bundle, leaf, media, environment, mixed, cut>>

\* The UPDATEs match by id; a row that is gone, or an environment that is, fails them.
Applies(p) ==
    /\ DOMAIN p.row # {} => bundle[p.bundle] # NoBundle
    /\ \A l \in DOMAIN p.discs : leaf["game"][l] # NoLeaf
    /\ "env" \in DOMAIN p.row => p.row.env \in There \cup {Nil}

CommitPatch(r) ==
    LET p == patch[r] IN
    /\ p # NoPatch
    /\ patch' = [patch EXCEPT ![r] = NoPatch]
    /\ IF Applies(p)
       THEN /\ bundle' = [bundle EXCEPT ![p.bundle] =
                    [c \in DOMAIN NoBundle |-> IF c \in DOMAIN p.row THEN p.row[c] ELSE @[c]]]
            /\ leaf' = [leaf EXCEPT !["game"] = [l \in Leaves |->
                    IF l \in DOMAIN p.discs THEN [leaf["game"][l] EXCEPT !.disc = p.discs[l]]
                                            ELSE leaf["game"][l]]]
            /\ mixed' = IF \E o \in Patchers \ {r} : patch[o].bundle = p.bundle
                        THEN mixed \cup {p.bundle} ELSE mixed
       ELSE UNCHANGED <<bundle, leaf, mixed>>
    /\ UNCHANGED <<media, environment, cut>>
-------------------------------------------------------------------------------
(* Files drift, and leaves are checked again.                                    *)

Drift(k, l, file) ==
    /\ leaf[k][l] # NoLeaf /\ media[k][l] # file
    /\ media' = [media EXCEPT ![k][l] = file]
    /\ UNCHANGED <<bundle, leaf, environment, patch, mixed, cut>>

\* Mutant of Verdicts: a file without a hash to compare with is compared with itself.
VerdictsBySelf(l) == Classify(media["game"][l])
\* _reverify_leaf_in_session: classified again if it ever was hashed, else only hashed.
Verdicts(l) ==
    IF leaf["game"][l].hashed THEN Classify(media["game"][l])
    ELSE IF media["game"][l] = "unreadable" THEN {[hashed |-> FALSE, status |-> "unchecked"]}
    ELSE {[hashed |-> TRUE, status |-> "not_in_index"]}

\* reverify_library_leaf, reverify_library_collection: all of them, or none when the
\* file of one is missing.
Reverify(b, which) ==
    /\ b \in Listed \cap Games
    /\ which \subseteq LeavesOf(b)
    /\ which = LeavesOf(b) \/ Cardinality(which) = 1
    /\ \A l \in which : media["game"][l] # "missing"
    /\ \E verdict \in [which -> [hashed : BOOLEAN, status : Statuses]] :
        /\ \A l \in which : verdict[l] \in Verdicts(l)
        /\ leaf' = [leaf EXCEPT !["game"] = [l \in Leaves |->
                IF l \in which THEN [leaf["game"][l] EXCEPT !.hashed = verdict[l].hashed,
                                                            !.status = verdict[l].status]
                ELSE leaf["game"][l]]]
    /\ UNCHANGED <<bundle, media, environment, patch, mixed, cut>>

\* _rollup_verification_item: the worst status of its leaves.
Worst(b) ==
    LET severity == [s \in Statuses |-> CASE s = "verified" -> 0 [] s = "not_in_index" -> 1
                         [] s = "unchecked" -> 2 [] s = "mismatch" -> 3 [] OTHER -> 4]
        found == {leaf["game"][l].status : l \in LeavesOf(b)}
    IN  CHOOSE s \in found : \A t \in found : severity[t] <= severity[s]
-------------------------------------------------------------------------------
(* Environments, as far as a bundle and its readiness see them.                  *)

\* A row of the seed, or of create_environment_item with an image or without.
NewEnvironment(e, era, system, image) ==
    /\ environment[e] = NoEnvironment
    /\ era \in PcEras \/ system
    /\ environment' = [environment EXCEPT ![e] =
            [era |-> era, system |-> system, image |-> image, installed |-> image /\ ~system]]
    /\ UNCHANGED <<bundle, leaf, media, patch, mixed, cut>>

\* update_environment_item, and the provisioning of a launch, which gives it an image
EditEnvironment(e, row) ==
    /\ e \in There
    /\ row.era # environment[e].era => row.era \in PcEras
    /\ environment' = [environment EXCEPT ![e] = row]
    /\ UNCHANGED <<bundle, leaf, media, patch, mixed, cut>>

\* The foreign key of the bundles is ON DELETE SET NULL.
DropEnvironment(e) ==
    /\ e \in There
    /\ environment' = [environment EXCEPT ![e] = NoEnvironment]
    /\ bundle' = [b \in Bundles |-> IF bundle[b].env = e THEN [bundle[b] EXCEPT !.env = Nil] ELSE bundle[b]]
    /\ UNCHANGED <<leaf, media, patch, mixed, cut>>

\* The order of lookup_system_environment_by_era and of the bulk query: the rows with
\* an image first, then by id.
Before(d, e) == \/ environment[d].image /\ ~environment[e].image
                \/ environment[d].image = environment[e].image /\ d <= e
SystemRows(era) == {e \in There : environment[e].system /\ environment[e].era = era}

\* lookup_system_environment_by_era
Lookup(era) ==
    IF SystemRows(era) = {} THEN Nil
    ELSE CHOOSE e \in SystemRows(era) : \A d \in SystemRows(era) : Before(e, d)

\* resolve_environment_for_launch_gate, _resolve_environment_for_pc_entity
Resolve(b) == IF bundle[b].env = Nil THEN Lookup(bundle[b].era)
              ELSE IF bundle[b].env \in There THEN bundle[b].env ELSE Nil

\* resolve_environments_for_launch_gate_bulk, one row: a fold over the sorted rows.
\* Mutant of ByEra: the last row of an era is kept, not the first.
ByEraLast(era) ==
    IF SystemRows(era) = {} THEN Nil
    ELSE CHOOSE e \in SystemRows(era) : \A d \in SystemRows(era) : Before(d, e)
ByEra(era) ==
    FoldSet(LAMBDA e, best : IF best = Nil \/ Before(e, best) THEN e ELSE best, Nil, SystemRows(era))
ResolveBulk(b) == IF bundle[b].env = Nil THEN ByEra(bundle[b].era)
                  ELSE IF bundle[b].env \in There THEN bundle[b].env ELSE Nil

\* environment_is_installed
IsInstalled(e) == environment[e].era \in DosEras \/ environment[e].installed
NotProvisioned(e) == ~environment[e].image /\ environment[e].era \notin Provisionable

\* evaluate_launch_readiness, call_site "item" and call_site "environment"
Readiness(b, e) ==
    IF ~bundle[b].profile THEN "no_profile"
    ELSE IF ~bundle[b].pc THEN "ready"
    ELSE IF e = Nil THEN "no_environment"
    ELSE IF environment[e].era # bundle[b].era THEN "environment_era_mismatch"
    ELSE IF NotProvisioned(e) THEN "environment_not_provisioned"
    ELSE IF ~IsInstalled(e) THEN "environment_not_installed"
    ELSE "ready"
BootReadiness(e) == IF NotProvisioned(e) THEN "environment_not_provisioned" ELSE "ready"

\* game_item_bundle_to_read, app_item_bundle_to_read, and the lists of them
DetailReason(b) == Readiness(b, IF bundle[b].pc THEN Resolve(b) ELSE Nil)
ListReason(b) == Readiness(b, IF bundle[b].pc THEN ResolveBulk(b) ELSE Nil)

\* resolve_launchable, resolve_launchable_app, _launch_entity: the gates in the order
\* a launch meets them; the leaf is looked up by its id alone.
LaunchReason(b) ==
    IF bundle[b].launch = Nil \/ leaf[KindOf(b)][bundle[b].launch] = NoLeaf THEN "no_launch_disc"
    ELSE IF ~bundle[b].profile THEN "no_profile"
    ELSE IF ~bundle[b].pc THEN "ready"
    ELSE IF Resolve(b) # Nil /\ environment[Resolve(b)].era # bundle[b].era
         THEN "environment_era_mismatch"
    ELSE Readiness(b, Resolve(b))
-------------------------------------------------------------------------------
Orders == UNION {{f \in [1..n -> Leaves] : \A i, j \in 1..n : f[i] = f[j] => i = j} : n \in 1..2}

Fields == {f \in [era : Eras \cup {Keep}, env : Environments \cup {Keep, Nil}, profile : BOOLEAN \cup {Keep},
                  launch : Leaves \cup {Keep, Nil}, display : Leaves \cup {Keep, Nil}] :
            Cardinality({c \in DOMAIN f : f[c] # Keep}) \in 1..MaxFields}

CatalogNext ==
    \/ \E b \in Bundles, era \in Eras :
        \/ \E profile \in BOOLEAN, order \in Orders : CreateGame(b, era, profile, order)
        \/ \E env \in Environments \cup {Nil}, l \in Leaves : CreateApp(b, era, env, l)
    \/ \E b \in Bundles : DeleteBundle(b)
    \/ \E l \in Leaves : DeleteAppLeaf(l)
    \/ \E r \in Patchers :
        \/ CommitPatch(r)
        \/ \E b \in Bundles : \/ \E f \in Fields : BeginPatch(r, b, f)
                              \/ \E order \in Orders : BeginReorder(r, b, order)
    \/ \E k \in Kinds, l \in Leaves, file \in {"good", "changed", "unreadable", "missing"} : Drift(k, l, file)
    \/ \E b \in Bundles, which \in SUBSET Leaves : Reverify(b, which)
    \/ \E e \in Environments :
        \/ DropEnvironment(e)
        \/ \E era \in Eras, system, image \in BOOLEAN : NewEnvironment(e, era, system, image)
        \/ \E era \in PcEras : EditEnvironment(e, [environment[e] EXCEPT !.era = era])
        \/ \E image \in BOOLEAN : EditEnvironment(e, [environment[e] EXCEPT !.image = image])
        \/ \E done \in BOOLEAN : EditEnvironment(e, [environment[e] EXCEPT !.installed = done])

CatalogSpec == CatalogInit /\ [][CatalogNext]_catalogVars
-------------------------------------------------------------------------------
Rows == [era : Eras \cup {Nil}, pc : BOOLEAN, env : Environments \cup {Nil}, profile : BOOLEAN,
         launch : Leaves \cup {Nil}, display : Leaves \cup {Nil}]

CatalogTypeOK ==
    /\ bundle \in [Bundles -> Rows]
    /\ leaf \in [Kinds -> [Leaves -> [of : Bundles \cup {Nil}, disc : Nat,
                                      hashed : BOOLEAN, status : Statuses]]]
    /\ media \in [Kinds -> [Leaves -> {"good", "changed", "unreadable", "missing"}]]
    /\ environment \in [Environments -> [era : Eras \cup {Nil}, system : BOOLEAN,
                                         image : BOOLEAN, installed : BOOLEAN]]
    /\ \A r \in Patchers : patch[r].bundle \in Bundles \cup {Nil}
    /\ mixed \subseteq Bundles
    /\ cut \subseteq Bundles \X Leaves

\* However a bundle was created and edited, unless two edits of it overlapped: its
\* type is the one its era implies, a console title has no environment, the disc it
\* launches and the one it shows are its own (an app's may have been deleted under
\* it), and the numbers of a game's discs run from 1 without a gap. And always, an
\* environment it names exists.
BundlesAgree ==
    \A b \in Listed :
        /\ bundle[b].env \in There \cup {Nil}
        /\ b \notin mixed =>
            /\ bundle[b].pc = IsPc(bundle[b].era)
            /\ MayBind(bundle[b])
            /\ \A l \in {bundle[b].launch, bundle[b].display} \ {Nil} :
                    l \in LeavesOf(b) \/ <<b, l>> \in cut
            /\ b \in Games =>
                {leaf["game"][l].disc : l \in LeavesOf(b)} = 1..Cardinality(LeavesOf(b))

\* The page of a title, the library list and the launch itself name the same reason
\* for which it cannot be launched, or none of them does, even with several system
\* environments of its era; a launch may also miss its disc.
ReasonsAgree ==
    \A b \in Listed :
        /\ DetailReason(b) = ListReason(b)
        /\ LaunchReason(b) \in {DetailReason(b), "no_launch_disc"}

\* A leaf is called verified, caution or mismatch only if its file could be hashed when
\* it was classified, and a game is called verified only if each of its discs is.
VerdictsAreEarned ==
    [][/\ \A l \in Leaves :
            LET was == leaf["game"][l]
                is == leaf'["game"][l]
            IN  is.status \in {"verified", "caution", "mismatch"} =>
                    is.hashed /\ (was.of = is.of /\ was.status # is.status => was.hashed)
       /\ \A b \in Games : bundle'[b] # NoBundle /\ Worst(b)' = "verified" =>
            \A l \in Leaves : leaf'["game"][l].of = b => leaf'["game"][l].status = "verified"]_catalogVars
===============================================================================
