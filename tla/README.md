# Peach 1UP: specification of the backend

Peach 1UP is a Windows front end for retro emulation. A FastAPI backend
(`src/backend`) keeps a library of games in SQLite and on disk, prepares media,
drives and environments, and starts emulators in sandboxed processes; a React
front end (`src/frontend`) calls it. This directory holds TLA+ models of the
parts of the backend whose correctness depends on the order in which things
happen, the TLC configurations that check them on small instances, and proofs
checked by TLAPS.

Paths below are relative to `src/backend` unless they start with `src/`.

## 1. The system

One process, one event loop. Routes declared `async` and the monitor loop are
coroutines: they run from one `await` to the next. Routes declared `def`, the
background tasks they schedule and everything given to `asyncio.to_thread` run in
the thread pool, at any time relative to the loop and to each other. Several
small in-memory tables (running processes, upload sessions, jobs, crash reviews,
confirmation tokens, rate limits, install status) are guarded by one lock each
and die with the process. The database, the library, the staging directories,
disk images and emulator installations survive it.

| Component | State | Operations | Hard behaviour | Module |
|---|---|---|---|---|
| Process registry `core/process_registry.py` | running entries, pending profiles, pending emulator scopes | `try_reserve`, `release`, `register`, `terminate`, `cleanup_exited` | reservation handed over to the entry; release on every path | `ProcessRegistry` |
| Launch coordinator `service/launch/coordinator.py` | the running request | launch of a game, an app, an environment; `_finalize_launch`; inline crash check; `stop_launch` | 30 s timeout that cannot cancel its thread; row deleted in flight; stop by collection | `Launch` |
| Launch history `service/launch/history.py` | rows: open, ended, deleted | insert, `write_session_ends`, retention, bulk delete, start-up clean-up | two reapers, failed writes, crash | `Launch` |
| Monitor `core/process_monitor.py`, `service/launch/monitor.py` | loop position, reviews | reap, write, poll reviews, prune | slow poll of a short window; newer launch of the same game | `Launch` |
| Jobs `core/jobs.py` | status, last update, cancel events | create, cancel, update, finish, sweep | finish after finish, sweep of jobs that are still stopping | `Jobs` |
| Chunked uploads `service/uploads/`, `api/routes/uploads.py` | sessions, staging directories, parts, destinations | init, chunk PUT, complete, abort, reassemble, report, sweep of orphans | removal against writing and reading; complete called twice; crash | `Uploads` |
| Library scan `api/routes/game_item_bundles.py` | scan job and its thread | trigger, cancel, progress, end, import | second scan while a cancelled one still walks | `Uploads` |
| Games ingest `service/games/items.py`, `folder_ingest.py`, `path_import.py`, `service/uploads/software_games.py` | folders, files, item rows, undo stack | stage, dedup, admit, place, reconcile slug, persist, undo, clean up, delete | undo after any failure; names chosen on disk and in the database; overlapping ingests | `MediaLibrary`, `Ingest` |
| Drives `service/launch/drive_hydration.py`, `service/utils/drive_utils.py`, `api/routes/drives.py` | drive row, image, `installed` | create, hydrate, mount, delete, toggle | flags read once and used later; copy cut off or failed; deletes in threads | `Drives` |
| FAT16 volumes `service/utils/fat/` | clusters, table, directories | format, write, read | full volume or directory in the middle of a write; 8.3 names that collide; layout at boundary sizes | `Fat16`, `Geometry` |
| Environments `service/environments/`, `service/utils/vm/` | environment rows, disk images | create, provision, launch, edit, install a system, delete | commit before provisioning; ids, slugs and paths used again; crash | `Machines` |
| Titles `service/games/items.py`, `service/apps/items.py`, `service/utils/era_defaults.py` | bundles, discs, verdicts, environments | create, edit, reorder, re-verify, delete; readiness in three places | edits that overlap; rows that were read before; files that drift | `Catalog` |
| Media archive `api/routes/media.py`, `entity_links.py`, `service/games/media_link.py` | albums, shots, links, slugs | create, move, link, unlink, delete, accept artwork | links without foreign keys; two albums for one title | `Links` |
| Accounts `core/identity.py`, `api/routes/auth.py`, `users.py`, `settings.py` | account rows, sessions, `.env` | set-up, login, refresh, logout, PIN reset, unlock, deletion, rotation of the pepper | checks and writes apart; crash between `.env` and the database | `Accounts` |
| Guards `core/rate_limit.py`, `service/utils/confirmation_tokens.py` | windows, tokens | check and record, sweep; issue, consume | clock read before the lock; sweep against use; replay | `Guards` |
| Content filters `core/dependencies.py`, `api/routes/restrictions.py`, `service/games/enrich.py` | restrictions, ratings, ceilings | restrict, filter, rate, confirm | one table for three domains; NULLs; ratings that change in between | `Visibility` |
| Installs `core/install_registry.py`, `api/routes/emulators.py`, `service/utils/emulator_installer.py` | status, directories | install, clone, verify, delete, heal at start-up | crash in a clone; delete during extraction | `Installs` |
| Emulator backends `service/backends/` | configuration files, private directories, DLLs, packages | prepare, spawn, clean up, install a package | files kept between launches; helpers that write late; failed starts | `Backends` |

`PROJECT.json` lists every component, also those without a model: detection (pure
functions), remote metadata (external services), rendering, logging, scripts.

How they interact. The coordinator reserves in the registry, writes history, calls
a backend in a thread and registers its process; the monitor and every new launch
reap the registry and end the rows; the stop route and the shutdown terminate
through the registry. An upload's routes create a job, fill its staging directory
and schedule a task that reassembles it into the library root and hands it to the
ingest of its domain; the ingest writes rows; scans and manual imports hand files
that are already there to the same ingest. A launch reads the rows the ingest
wrote, once, at its beginning; an environment without a disk is provisioned on the
way; the backend edits its emulator's configuration and leaves a thread behind that
undoes part of it. Every route asks the accounts for a session, the lists ask the
filters, and logins and dangerous edits ask the limiter and the tokens. Emulators are
installed by background tasks into directories that launches and deletions use too.

What makes each part correct:

* registry and coordinator: no two launches for one profile, or for one emulator
  and user; no reservation leaks; no emulator runs untracked;
* history and monitor: each row is ended, by somebody, when its process has
  ended and not before; early crashes are flagged;
* uploads: sessions keep their files, only complete uploads are ingested, nothing
  is left behind, each accepted upload is resolved, and "done" is true;
* ingest: each row finds its file, no file has two rows, folder and slug agree,
  and a failed ingest leaves the library as it was;
* drives and volumes: files on an image never share clusters and read back as
  themselves, a game runs from a complete image, and what it saved there is lost
  only when somebody asked for it;
* accounts: no more guesses than the lock allows, no session for a PIN that has been
  replaced, no hash the current pepper cannot verify;
* guards and filters: neither too much nor too little passes, whatever the order of
  threads, edits and sweeps;
* titles and archive: derived columns follow what they are derived from, every answer
  about a title is the same answer, links join what exists;
* environments: a disk somebody works on is neither overwritten nor deleted for
  somebody else, and no row is left without one;
* installs and backends: "complete" and "installed" are true, a launch starts with what
  it asked for, and what it put down is removed.

## 2. The modules

```
ExclusiveSlots   <- refined by -  Launch  - extends ->  ProcessRegistry
LaunchProofs     -- extends -->   Launch
Uploads          -- extends -->   Jobs
UploadsProofs    -- extends -->   Uploads
Ingest           -- extends -->   MediaLibrary
IngestProofs     -- extends -->   MCIngest (Ingest)
FileTree         <- refined by -  Fat16  <- extends --  Drives
DrivesProofs     -- extends -->   Drives, Geometry
AccountsProofs   -- extends -->   Accounts
BackendsProofs   -- extends -->   Backends
ShelfProofs      -- extends -->   MCShelf (Catalog, Links, Machines)
AccessProofs     -- extends -->   MCAccess, AccountsProofs, BackendsProofs
Geometry         the layout of an image
Accounts  Guards  Visibility  Installs  Backends     no shared state: MCAccess runs them
Catalog  Links  Machines                             no shared state: MCShelf runs them
MCLaunch, MCUploads, MCIngest, MCDrives, MCAccess, MCShelf     instances for TLC
```

### ProcessRegistry and Launch

`ProcessRegistry` has one operator per method of the registry; each method holds
the registry's lock, so each operator is an atomic change of the variables it
names. `Launch` composes them into steps. A launch attempt is a row of
`launch_history`, a coroutine (`pc`), a dispatch thread (`worker`) and, once it
exists, an operating-system process (`proc`). A coroutine is cut at its awaits, and
further where a thread can see the state between two writes: registration and
commit of the flags are two steps, `terminate` and commit of a stop call are two.
The monitor loop is four steps (reap, write, poll, prune). Shutdown is three
(reap what has exited, mark what is registered, terminate), after the server has
drained its requests. A failed write of session ends loses its batch for good
(`LoseBatch`): which rows were in it is kept under `NoLaunch`, for the properties.
`Crash` and shutdown lose everything in memory, and the Job
Object's kill-on-close ends the emulators.

Resolution of profile, drive, environment and media is one step that succeeds or
refuses. A dispatch thread returns a process, a process without a Job Object, no
process, or an exception; after a timeout it may still start a process, whose fate
is left open (`LateReturn`). `fresh` says that a process has not outlived the
three-second review window; there is no other clock.

`ExclusiveSlots` is what the guard promises, with neither registry nor markers: a
launch takes all of its keys at once, at most once, while nobody holds one of
them, and keeps them until it gives them up. `Launch` implements it with
`holders` mapped to the launches that are registered or reserved.

### Jobs and Uploads

`Jobs` has one operator per function of `core/jobs.py`. `Uploads` models the
session table, the staging directories and their parts (absent, torn, whole), the
chunk PUTs (`checked`, `writing`, `written`: one step per look at the table and
one per change of the disk), the complete route and its background task from
`scheduled` to `kept`, `reused` or `rejected`, abort in its two steps (session
first, directory after it), the scan with its job, and a restart that loses
tables and tasks but not the disk. Windows does not delete an open file, which is
what `RmStaging` does about a chunk that is being written.

The three upload domains differ only in their ingest, which is one step here with
three outcomes; the games domain's own is the module `Ingest`. Destination names
are numbers, in the order in which `unique_slug` tries them.

### MediaLibrary and Ingest

`MediaLibrary` holds the folders, files and rows with the queries and file system
calls of `items.py`. A name is a base and a number (`doom`, `doom-2`), as made by
`slugify` and `unique_slug`. `Ingest` follows one ingest through staging, the
lookup of duplicates, admission, placing, slug reconciliation and persistence; a
`Raise` replays its undo stack, newest entry first, and cleans up. Files, folders
and disc sets take the paths they take in the code. Several ingests and deletions
may overlap: no lock orders them. `overlapped` is history, kept by `Watch`: the ingests
beside which another or a deletion was at work; `FailureRestoresLibrary` speaks of the
rest. `HasFree` and `NamesLeft` are bounds: a name is only looked for while there are
free ones.

Abstractions: suffixing a suffixed name takes the next number; folders are flat;
an extension never distinguishes two files; `SOFTWARE_PATH` is set; an undo fails
only when its target is occupied or its source gone; the duplicate index may miss
a match and never invents one; a folder adopted in place holds exactly the files
of the request; what reassembly does on its own failures is in `Uploads`.

### Fat16, FileTree and Geometry

`Fat16` is a volume as the code sees it: the table as a function from clusters to
the next one, to an end or to free; the directories with their entries in the order
of their slots; what lies in each cluster. `write_file_to_image` is a walk that
makes missing directories, a check of the name, the allocation, the data and, last,
the entry, with an exception wherever clusters or slots run out and with a cut
between any two of these steps. A cut inside the allocation leaves new chains without
an entry too, only shorter ones. Nothing is ever freed: the code
cannot delete or replace a file on an image. A long name has an 8.3 form that it
may share; sizes are counted in clusters, and a subdirectory has one cluster, as
the code never extends it. The two copies of the table are written together and
only the first is read.

`FileTree` is what a user of the volume sees: a file appears at once and whole
under a name that was free, and stays until the image goes. `Fat16` implements it
with `tree` mapped to what `read_file_from_image` returns for every path.

`Geometry` has the arithmetic of `geometry.py` and `boot_sector.py` with the widths
of the boot sector's fields, the loop of `_calc_geometry` pass by pass, the rounding of the file to whole cylinders, and the
cylinders that `dosbox.py` tells DOSBox-X.

### Drives

`Drives` is the C: drive of one DOS game kept as loose files. The coroutine of a
launch reads the row's flags and the drive when it resolves the game and does not
give up the event loop before it dispatches (the awaits in between are for other
eras), so one launch at a time is in between; `busy` is that launch. The routes
that delete the drive or the game are threads: they read, unlink and change the
rows in steps of their own, and so does the toggle of the game's page. The copy is
the volume of `Fat16`, file after file, each one read back and compared. The
dispatch thread decides whether the image is to be made (IMGMAKE) or mounted;
DOSBox-X does so later. Windows does not delete an open image.

Abstractions: the size of a drive changes or not; what the game writes is one flag,
`saved`; `patched` and `again` are history, for the properties. The flags and eras
that decide whether a game has a drive at all do not change, the media stays where
it is, and names are ASCII.

### Accounts

A request is a record in `req` that goes through the points where its route reads,
checks and commits: the login reads the row, verifies outside any transaction,
records a failure with one UPDATE or forgets the failures and issues a session in a
second commit; `_validate_session` and its extension are two steps; the rotation of
the pepper writes `.env` before the database. The routes that set columns of a row
they have read (`reset_pin`, `unlock`, `force-logout`) write only the columns that
differ from what was read, as SQLAlchemy does (`Changed`, `Cleared`). Ids are used
again after a deletion, as SQLite does. A hash names the PIN and the pepper it was
made with. A crash ends the requests and keeps rows and `.env`.

`guesses`, `opened`, `minted` and `torn` are history: wrong PINs since the count
began, the PIN a session was opened with, tokens given out, and whether a rotation
was cut short. So is `overtaken`, of a login: the hash it has read has been replaced
(`Overtake`). A session that such a login issues, or that is issued while a reset is in
flight that has read a row without one (`BlindReset`), is opened with no known PIN.

### Guards

The sliding window of `rate_limit.py` and the token store of
`confirmation_tokens.py`. A call reads the clock before it gets the lock, so calls
may be served out of the order of their stamps (by `MaxWait` at most); `Tick` moves
the clock. The list of a key is the set of its entries with their numbers: the code
filters it and reads its last entry and its length. Every call sweeps first, once per `SweepInterval`. A token is presented
any number of times, for any target.

### Visibility

The restrictions table with its three nullable columns and the filters of the three
domains over it, with SQL's `NOT IN` (`NotIn`: never true when a NULL is among the
values); the rating ceiling under the map of the settings; a metadata answer that
reads the rating, asks for confirmation when it would show a game to somebody new,
and commits later, against edits of ratings, ceilings and the map in between.

### Catalog

Titles, their discs, environments and verdicts. A PATCH or a reorder is cut between
reading the row and committing the columns that differ (`Dirty`); what derives from
the era is set again by the PATCH, not by the database. Readiness is written three
times, as in the code: for the page (`DetailReason`), for the list with its bulk query
(`ListReason`) and for the launch (`LaunchReason`). `Reverify` classifies discs
whose files drift (`Drift`); `classify` itself is external and nondeterministic only
through the state of the file.

### Links

What the archive keeps: `links` in the order of their ids, as the album of a title is
the one with the earliest link; slugs over albums and shots together; artwork
accepted from metadata (`BeginArt`, `NameArt`, `CommitArt`), whose lost race for a slug
makes it look again. Deleting a title, a shot or an album removes the links of the
thing itself; the links of the shots that go with an album stay, as in the code.

### Machines

Environment rows and the disk images they name. A disk has no content, is blank or has
a system. Creation commits the row, provisions in steps of its own (`WriteDisk`,
`CommitDisk`) and takes the row back when that fails (`AfterFailure`); a launch
provisions what has no working image; a deletion asks whether another row works on the
file, unlinks it and deletes the row in three steps. Slugs and ids are used again.

### Installs

The status registry, in memory, against the files: an emulator's binary and the rest
of it, each absent, torn or whole, and the ROM pack's clone (`git` directory, lock,
checkout). Downloads have a digest that may differ. `Restart` forgets the registry,
heals interrupted clones and calls complete what has its binary. The child process of
a clone is taken to end with the server, and the removal of what an interrupted clone
left to succeed.

### Backends

How a launch hands over what it asks for. `family` picks the way: 86Box keeps a
configuration per machine and edits it section by section; xemu rewrites one file per
installation; DOSBox-X gets a private file in a directory of its own; Flycast (and
PCSX2 likewise) is only ever restricted; RPCS3 installs packages in a first launch and
boots them in the next. A launch goes through `Begin`, a `ReadFile` and a `WriteFile`
for each edit, `PutBeside`, `Spawn` or one of its failures, `Boot` and `Quit`;
helpers clean up afterwards in steps of their own; the administrator's PATCH of asset
paths reads and writes the same file. `conf` is one file with the keys the properties
tell apart: the disc, the installation disc, the network, a chosen path. `litter` is
what lies beside a game or in a private directory.

`alone`, `tangled`, `spilled`, `hurried` and `cutShort` are history; they name exactly
the interferences the properties exempt.

## 3. What TLC checks

| Run | Instance | Shows |
|---|---|---|
| `launch` | 2 launches in 4 scenes (an app twice, or an app and an environment, by profiles that do not collide; those two by profiles of one emulator and user; an environment twice by one profile), 1 stop call, timeouts, deletions, database failures, crashes | The guard never admits two launches for one slot, pending markers are exact, running emulators are tracked, and the machine implements `ExclusiveSlots`; open rows have somebody to end them, ended rows belong to ended processes, shutdown closes every row |
| `launch_live` | 2 launches of a game, timeouts | Reservations end, exits are recorded, early crashes are flagged |
| `launch_timeout` | 2 launches of an environment | Violated: a timed-out dispatch and a retry run two emulators |
| `launch_stop` | 2 launches of a game by two users | Violated: a stop hits the other user's launch |
| `uploads` | 1 upload of 2 chunks, 1 PUT in flight, 2 complete calls, restarts; or 2 scans | Staging, destinations and jobs stay consistent; accepted uploads are resolved |
| `ingest` | 3 ingests of 8 kinds in a row (the third an upload), deletions, a fault at any step; or 2 ingests and deletions overlapping | Rows, folders and slugs agree, one row per file (`LibraryIsSound`); an ingest that fails with nothing beside it leaves no trace; every ingest ends |
| `ingest_companion` | 2 ingests in a row | Violated: an upload takes another game's folder away |
| `drives` | All 1015 image sizes; or 4 clusters, 2 root slots, 1 slot per subdirectory, 5 files; or 2 launches on that volume, 4 folders, deletes, toggle, crashes | The layout fits and survives the boot sector; chains stay apart and files read back (the volume implements `FileTree`); a game runs from a complete drive and no launch formats a drive in use |
| `drives_saves` | 2 launches, the toggle | Violated: the toggle loses what the game saved |
| `access` | One of: 2 requests over the owner and a sub-account, 2 PINs, 1 rotation, crashes; 2 threads at one key (2 attempts in 4 ticks) or 2 tokens, 7 ticks; 3 ratings of 2 schemes, 3 maps and 1 editor, or restrictions in 3 domains; an emulator, the ROM pack and 2 tasks with restarts; 2 players of each of 5 backends, 2 discs, an administrator | Locks, sessions and hashes hold; the guards and the filters are exact; a status is true and a clone can be retried; a launch starts as asked and leaves nothing |
| `access_reset` | The instance of `access` | Violated: a reset of a PIN takes the session of the account away |
| `shelf` | One of: 2 edits of a game or an app with 2 discs; its readiness under 2 environments of 3 eras; its verdicts; 2 titles, 2 albums, a shot and 2 requests; 2 environments, 2 slugs, an own image and 2 tasks with crashes | Derived columns agree, the three readiness answers agree, verdicts are earned, links and albums are sound, disks survive and no half-made row stays |

`access` and `shelf` put components side by side that share no state. `turn` picks, once
and at the start, the one that moves, so the state space is the sum of theirs and not
the product, and every behaviour of each is checked as if it ran alone. `drives` does the
same with the sizes, the volume and the drives.

Several properties are conjunctions of named parts, each with its comment where it is
defined: `LibraryIsSound`, `HydrationIsFaithful`, `HistoryIsTrue`, `OwnsItsFiles`,
`GuardsAreExact`, `FiltersAreExact`, `InstallsAreTrue`, `ArchiveIsSound`,
`AftermathIsClean`, `LayoutIsSound`. Where a property exempts an interference that the
code really permits, history variables name it exactly, and section 5 lists it.

Each property of a passing run has a mutant in `PROJECT.json`: a plausible bug in
one operator (defined just before the operator it would replace) that makes TLC
report the property.

### Bounds

Two launches are enough for every conflict, as all guards and invariants compare
two; the profiles collide by id, by emulator and user, or not at all. One stop
call is enough for a stop to meet a launch, a reaper or another launch of its
collection. `MCSpec` of `MCLaunch` starts in one of four `Scenes`, each way in which two
launches meet (in the review of one collection, in nothing, in one key, in both keys),
under all four faults; every pair of targets and profiles together would not finish in
time. `launch_live` and the two violated runs have the targets and faults their question
needs. Two chunks are
the fewest that are copied one after the other, two complete calls the fewest
that compete for a name and for a session. `OneSubsystem` lets a behaviour of
`uploads` have uploads or scans but not both: they share nothing but the sweep,
so nothing is lost but the product of their states. With one PUT in flight a part
is never shared by two writers; that case rests on the proofs, which hold for any
number. Three ingests in a row are the fewest in which what a deletion leaves
behind meets a tracked folder and a newcomer; `MaxActive` bounds how many overlap
and `MaxSuffix` is never reached. The requests of `MCIngest` pair equal titles
with different contents, equal contents with different titles, and files with
folders and discs; sizes are distinct.

The volume of four clusters is the smallest on which a directory, a file of two
clusters and another file fit exactly, so that each further file runs out of
clusters, of root slots or of slots in the subdirectory; two of the names are one
in 8.3, and a file and a directory share a name. Of the folders in `drives` one
fits, one has too much data, one too many entries and one colliding names. Two
launches are enough for one to have read what the other changes.

In `access` and `shelf` the bounds are operators of the MC module, one per component.
`AccountsBound`: two requests of one account at once, which is what all their checks
and writes are about, or one beside a rotation. `GuardsBound`: the limiter or the
tokens, which share only the clock; seven ticks see a window open, slide, close and be
swept. `VisibilityBound`: ratings or restrictions, which no filter combines but by
conjunction. `BackendsBound`: at most two launches, helpers and PATCHes at once, one
PATCH in a behaviour, wrapper DLLs only with a disc that is not mounted, the setting
for containers only where the descriptor has them on. `CatalogBound`: edits, readiness or verdicts of one title; environments only
where they matter. `LinksBound`: links by hand or artwork. `MachinesBound`: one slug or
path given away by hand; one environment when it has a base image. The families, eras
and domains are those of the code; all the actors are two, as every race in these parts
is one of two.

Timing that the models take from the code's constants: a helper of xemu, which looks
every half second, is done before the next launch of its user has started and ended; an
installer that has begun to write is never quiet for `StableChecks` looks (six seconds)
before it is done. `PrivateDir` draws a name nobody has, like `mkdtemp`.

`CHECK_DEADLOCK FALSE` in the runs of uploads, access, shelf and ingest, where nothing needs to
happen once every call has been made, of drives, where the game may be gone and
where sizes are only laid out.

### Fairness

The event loop runs every ready coroutine and its timers, so the segments of a
request are weakly fair together with its timeout; dispatch itself is not fair, it
may hang. The monitor loop and a shutdown that has begun are fair. The thread pool
runs what was scheduled to its end: the steps of finalize tasks, of removals, of
chunk PUTs that have started, of ingests, and the end of a scan. Clients owe
nothing: launches, stops, aborts, completes, cancellations, restarts and faults
are never fair. `AcceptedUploadResolved` asks that the job leaves "processing",
in a crash by being lost. `access` and `shelf` state no fairness: what is asked of these
parts is safety, as every request of theirs ends with its route.

## 4. What is proved

For every number of launches, profiles, targets, stop calls, chunks, PUTs,
complete calls, scans, accounts, titles, environments, requests and every set of faults. The
assumptions are those of the modules: `ConstantsAssumption`, `LaunchAssumption`,
`UploadsAssumption`, `Fat16Assumption`, `DrivesAssumption`, `InstallsAssumption`, `AccountsAssumption`,
`CatalogAssumption`, `MachinesAssumption`, `BackendsAssumption`, `VisibilityAssumption`,
`LibraryAssumption`, `IngestAssumption` and `GuardsAssumption`, which TLC evaluates in the runs. Besides ranges of numbers and values
that stand for "none", they say of the code that there are finitely many requests at
once, that no slug names a path where a user keeps an image of his own (`Vm`, the
directory of the provisioner), and that a map of severities maps ratings to integers
(`_load_rating_ordinals` takes `int(v)`). `IngestAssumption` says that a request has a
file, that disc sets are staged into a folder of their own (`finalize_reassembled`), and
that a set whose first disc is looked up has another disc, without which
`detect_disc_files` would not have called it a set.

`LaunchProofs`:

* `TypeCorrect`. The invariant adds to `TypeOK` that there is no thread before the
  reservation and no process before the thread returns, and that reaped entries
  have exited: history codes are only read from exited processes.
* `SlotsAreExclusive`, `PendingIsExact`. Neither is inductive alone: the test of
  `try_reserve` sees the markers, so exclusiveness needs them to be exact, and a
  release keeps them exact only because no other request can have one of its keys.
  Their conjunction is inductive over `TypeOK`.
* `RunningIsTracked`, and from it with exclusiveness `OneEmulatorRuns`. `SlotsTakenOnce`
  and `SlotsKnown` put these together as the properties of the run `launch`.
* `LaunchImplementsSlots`: `TryReserve` is `Acquire`; every other step keeps the
  holders or lets some go, in particular registration hands a slot over without
  a gap.
* `HistoryStaysTrue` and `ShutdownLeavesNoRowOpen`, from `HistoryInv` over the types and
  `RunningTracked`. That an open row has a closer is not inductive alone, as who closes
  changes hands: from the dispatch to the registry, from there to the batch of a reaper
  or to a stop call. So a batch belongs to a reaper that is about to write
  (`BatchesHeld`), a stop call has a row and a victim of one launch or one collection and
  no longer a running one once it has terminated it (`StopsHeld`), rows that a failed write
  has lost stay excepted (`LostLasts`), and a shutdown starts
  when no request is left (`ServerHeld`). `HistoryLasts` says what a step may do to a row.

`UploadsProofs`:

* `TypeCorrect`. The invariant adds what a task's record says at each stage: its
  upload, from `named` on its name, and an outcome that only `Ingest` grants.
  `TaskEffects` states once what each step does to the record; the other proofs
  use it instead of the actions.
* `WholeUploads`: `Assembled` (a task past the size check has read every chunk
  whole) and `NotRejected` (the outcome is "rejected" only after the destination
  was let go) make it inductive.
* `DestinationsOwned`, `NoOrphans`: inductive together. The owner named by a
  destination is the task that holds it; `OneDestination` is the step for the one
  task that takes hold or lets go.
* `StagingSurvives`: sessions, aborts and tasks belong to uploads whose job exists
  (`JobsStay`), so an id is never given out again, and a directory is removed only
  after its session.
* `FilesAreOwned` joins the three above as the property of the run `uploads`.
* `DoneIsTrue`: only `Report` makes a job "done", and what was added stays.
* `ScansDoNotOverlap`: `ScanInv` says that a walking scan has its job in flight or
  swept and that none is started behind one that still has its job; hence the last
  job on the list is the one that matters.

`IngestProofs`, for any requests, names and number of ingests, from `IngestInv` with a
lemma per action:

* `IngestTypeCorrect`, with undo stacks of at most two entries. `Knows` says what an ingest
  has done at each stage, in particular that from naming on its files lie in the folder
  it takes for its own, but for a first disc that was found elsewhere (`AtHome`).
* `FailuresRestore`, an action property. That the disk is as before is true only when
  all is undone; before that the undo stack says what is still to be taken back. `Leads`
  reads it as a function on folders and files and says that each entry can be undone
  when its turn comes and that the files at the end, but those of the folder that was
  staged, are those of before. A step keeps this because it pushes the inverse of what
  it does (`PushRename`, `PushMove`, from `RenameBack` and `MoveBack`), and an undo takes
  the newest away (`PopLeads`). A rename has an inverse only if no file was in the new
  folder, and staging leaves the rest alone only if the new folder was empty: `Housed`,
  every file is in a folder that is there. Beside an ingest that is not `overlapped`
  nothing is at work (`OverlapKnown`), so no other step moves what it has to move back.
* `SlugsNameFolders` and `FilesTrackedOnce`, whatever overlaps and fails: the rows of a
  bundle stay those of its ingest (`RowsAre`), whose slug is taken back from its folder,
  and bundles have slugs of their own (`SlugsDiffer`). So two rows with one path have one
  folder, one slug and one bundle. First discs that were found elsewhere are exempt, as two
  sets can be led to one orphan.
* `RowsStayFindable` and `LibraryStaysSound`: rows find their files, and the content that
  was ingested for them. Not every set of requests keeps them: section 5 has two ways in
  which a game loses the folder of another. So there are hypotheses. `Apart` says that no
  lookup can find a file beside the tracked one of a game, two discs of one set, or a first
  disc lying loose; `RequestsAssumption` lets TLC evaluate that the requests of the run
  `ingest` are apart and those of `ingest_companion`, where the property is violated, are
  not. `SizesTell` is needed for the content alone, as reuse goes by size. And one ingest or
  deletion is at work at a time, as `OneAtWork` puts it: by `MaxActive = 1` in the first
  theorem, in the second by the bound of `MCSpec`, whose other half, two at once, keeps
  `OneRowPerFile` only. The invariant, `LibraryInv`, goes with `IngestInv`. `Finds` is not
  inductive alone: a row keeps its file only if nothing else in its folder is ever looked
  up, which is why files that are looked up are alone in a folder (`Tidy`), bundles have
  folders of their own (`Parted`), and a file an ingest was led to is tracked already or in
  a folder no row tracks (`Led`), as are the files it is about to track (`Settled`). And a
  failing ingest goes back through states of the disk in between, so these have to be good
  as well (`Through`): the journal of `FailuresRestore` says where it ends, here the way
  counts.

`DrivesProofs`, for volumes, directories, files, names, folders and launches of any
number and size. The volume on its own:

* `VolumeTypeCorrect` and `LinksNeverCross` from one inductive invariant, `Inv`. What
  makes it inductive is `Segment`: as clusters are taken lowest first and never given
  back, the free ones are all those from some cluster on. `LowestIs` and `LinkedIs`
  compute from it what an allocation does, `Allocates` that the new chain meets no
  old one, and `Enters` that an entry for the head of a chain that has none
  (`ChainHead`) crosses nothing. `OpInv` says that a write holds such a head
  between its allocation and its entry.
* `WritesReadBack`. Paths and chains are of any length, and the functions that follow them
  are recursive. `DescentIs` and `ChainsAre` show that these functions satisfy their
  equations (a set of places with a least one that fails would have one before it,
  `LeastNat`, `Upwards`, `Iterates`), `LeadsTo` and `Run` say without recursion
  where a path leads and what a chain is, and `ReadIs` what is then read. `VolumeInv` adds
  to `Inv` that no two entries of a directory share a name (`NamesDiffer`), that the chain
  of a file is a run of the length its entry gives (`FilesWhole`), and that a write is in
  the directory its path leads to, with the name still free there and its data where its
  entry will point (`WriteInv`). `Keeps` says that a step takes nothing away that can be
  reached: then what is `Stored` stays so (`StoredStays`), and what is stored reads back.
* `VolumeImplementsTree`: `PutEntry` is `Add`, `Renew` is `Clear`, and every other step
  leaves the tree alone. The tree is what reading shows, so this needs the converse too:
  what reads as a file is a file (`ReadsTell`), paths that lead to one directory are the
  same (`OneWay`), and a new entry, or an emptied cluster that becomes a directory, shows
  no file but its own (`NoNewFile`).

The drive, from `DriveInv`, which is `VolumeInv` with:

* `LoopInv`: one launch at a time has the event loop, a copy is that launch's, and a file
  open for writing is on an image that is there. `DrivesTypeCorrect` and
  `DriveLinksNeverCross` need no more.
* `FlagsInv` and `StoredInv`, for `CopiesAreFaithful`: what was copied is stored, and so is
  the whole folder once `installed` is set, but by hand. The flag a launch has read at its
  resolution is the flag there is as long as it has the event loop, so it never formats
  behind the back of one that has set it, and one that is past the copy found or made it
  set.
* `SavesInv`, for `ChangesSurvive`: where changes are, or a launch is past its copy, the
  files were copied, or there are none to copy, or the user has asked for them again. So a
  launch that is about to unlink changes has been asked to.

And the layout of an image, for each of its sizes:

* `LayoutsAreSound`: the first pass of the loop finds the table that all later passes
  compute again (`Starts`, `TableIsReached`), so the second one ends it, where the comment
  allows for three. `TableFits` is the arithmetic: the cluster size goes up with the size of
  the image early enough for the number of clusters to be one of FAT16, and the table has an
  entry for each. `ReadsBack` is the way through the boot sector's fields and back.

`AccountsProofs`, from one inductive invariant, `AccountsInv`, with a lemma per action. Its
base is what a request knows at each stage (`Sound`), and that an account which is gone
leaves nothing behind; on it stand:

* `GuessesStayBounded`: the count of guesses says nothing of requests that have found the
  account unlocked and not failed yet. `GuessesCounted` adds them: guesses made and still
  to be made stay below the threshold and the number of requests, no guess is missing
  from the failures of the row, and at the threshold the row is locked, so that no
  further request joins. `NoMoreGuesses` is the counting.
* `SessionsFollowPins`: a login that is not `overtaken` has read the hash that is there
  (`LoginsKnowPins`), a reset on its way has read whatever session of a known PIN there is
  and will end it (`ResetsEndSessions`), as beside one that has read none (`BlindReset`)
  only sessions of no known PIN are opened, and the owner's PIN stays what a rotation
  verified.
* `PeppersFollowHashes`: unless torn, a rotation is the only request that changes a hash
  (`RotationsAlone`), knows each account with a hash (`RotationsKnowPeppers`), and hashes
  made but not yet written are of the current pepper (`HashesFresh`).

`ShelfProofs`, of the catalog from `CatalogInv`, with a lemma per action; the ids of
environments may be any numbers, of which finitely many exist at a time:

* `BundlesStayWhole`: a row is read in one step and its dirty columns are written in a later
  one, so what the row says is kept only if every edit in flight is known to leave it
  right (`PatchesAgree`: the row with the edit's columns laid over it, `Over`, agrees, and
  the disc numbers with the edit's laid over them have no gap). An edit that another has
  overtaken puts its bundle into `mixed`, where nothing is said of it. An edit of a
  reorder also names leaves, and must not write to those of another bundle
  (`PatchesKeepOff`). `InsertKeeps` is the longest lemma: numbers dealt out in order are
  1 to n.
* `ReasonsStayAgreed`: page and list differ in the query for a system environment, a
  CHOOSE of the first row in one and a fold over all rows in the other. `FoldExists` says
  that a fold over a finite set is what folding one element at a time gives, `BeforeIs` that
  the order of the query is total, `ByEraIs` that the fold ends at the first row, and
  `LookupIsByEra` that the two are the same environment.
* `VerdictsStayEarned`, an action property: what is verified, doubtful or wrong was hashed
  before (`HashedFirst`); `StatusSteps` says which steps change a verdict, `WorstIs` when
  the one of the game is "verified".

and of the environments' disks from `MachinesInv`:

* `MachinesAreWhole`: a row without an image still has the request that creates it
  (`MadeOrMaking`), and an image of the user's that was handed to nobody is in no row and
  in no request (`OwnImagesKept`), so nothing that provisions or deletes can reach it.
* `ImagesSurvive`, an action property: a file about to be unlinked is nobody else's
  (`DeletesAlone`), and nobody works on a disk still to be written (`WritesAlone`), for
  paths that are not `rushed`. The second stands on slugs that differ and on disks that
  are their slug's until one of the two is given away (`DisksNamed`). `DisksTouched`
  leaves two actions to look at.

and of the archive from `ArchiveInv`, with a lemma per action:

* `LinksTypeCorrect` and `ArchiveStaysSound`. Links are taken out of the middle of their
  list by a recursive function, so `RemainingIs` comes first: what is left are the links
  that are not gone, each once. `Sheds` and `Gains` say so of a step. That links are
  sorted, single and between things that are there is inductive by itself, beside `stray`.
  That artwork has one album needs the requests in flight: one that found no album and did
  not race has the slug of the album that came in between (`SlugsCollide`), so it collides
  and joins instead of making another. `EarliestIs` says that a request finds an album when
  there is one, and `AlbumsLinked` that an album made for a title stays linked to it until
  one of them goes or the link does. `QuietStep` and `RemovalStep` are the shape of all
  steps but the three that add a link or an album.

`BackendsProofs`, from `BackendsInv`:

* `StartsHold`: while a launch is `alone` with the configuration file, the file is as its
  edits so far make it (`OnItsWay`), with one clause per plan still to run (`Underway`)
  and the asked-for state at its end (`Arranged`); `PlansRun` says that the plans of each
  family shrink to none. What the emulator saw is compared as it boots.
* `AftermathHolds`: a chosen path and the litter are inductive over the types. That no
  installer is ended early needs `Watched`: a poll has seen no more of the package than
  there is, and has looked in vain no oftener than the installer stays quiet.

`AccessProofs`:

* `FiltersHold`: that restrictions are exact follows from the types (`FiltersHide`). That
  a provider's rating opens nothing needs `EditsKnow`, that an edit nobody overtook has
  read the rating the game has and was confirmed if it had to be, and `LastKnown`, the
  same for the last one written. `NothingOpens` is the arithmetic: under any map of
  severities, what needs no confirmation passes nobody the old rating did not.
* `GuardsHold`, with `GuardsTypeCorrect`. For the tokens, `TokensInv` says that a token
  that can be consumed was never presented and has the target it was issued for. For the
  limiter, `LimitInv` says that calls have waited no longer than `MaxWait`
  (`CallsAreRecent`), and of each key (`KeyIsTrue`) that its counted attempts are out of
  order by a wait at most and that one which is no longer counted has left the window, or
  will within a wait. It follows that all attempts in a window which a new one falls in are
  still counted (`WindowHolds`): they are fewer than the limit, so one more is not too
  many. The bound on a window is less twice the wait because both happen: a late call is
  stamped before the sweep that made room for it, and the sweep looks only at the last
  entry of a key, which may be older than those before it.
* `InstallsTypeCorrect` and `StatusHolds`, for any releases, tasks and restarts, from
  `InstallsInv`. That a complete
  emulator is whole is not inductive alone: what makes it true is that an install that
  shared its directory with nobody (`alone`) wrote each part itself, from an archive with
  the right digest. `AloneIsAlone` says that such a task shares its directory with no
  other, `WrittenIsWhole` that what it has written is whole, `CompleteIsQuiet` that nobody
  writes to a complete emulator outside the doubts. `HalfDoneIsOwned` says whose a half
  done clone is, so that a clone can be retried once it and the restart are over. There
  is one lemma per action, and `DisturbedIs` for the two that take `alone` from others.

`ShelfTypeCorrect` and `AccessTypeCorrect` put the parts together: each step of `MCShelf` or
`MCAccess` is a step of one part and leaves the others alone (`OneOfEach`), so the type
invariants, and in the same way everything proved of one part, hold of the composition.

Only model-checked:

* liveness, under fairness: out of the prover's reach;
* in the run `ingest_companion`, that requests which are not apart lose a file: a violated
  run refutes the property for its instance, and no theorem says more.

## 5. Findings

Violated runs, each with the quoted claim in `PROJECT.json`:

1. `launch_timeout` (`service/launch/coordinator.py:416`): the guard is released
   while the abandoned thread still creates its process.
2. `launch_stop` (`coordinator.py:819`): the victim is the first registered process
   of the collection, whoever owns it, and the row that ends is the requested one.
3. `ingest_companion` (`service/games/items.py:636`): the parent of a reused
   untracked file is renamed although another game's row lives in it.
4. `drives_saves` (`service/launch/drive_hydration.py:96`): the image is removed before
   the files are copied again, with what the game saved in it.
5. `access_reset` (`api/routes/users.py:241`): `reset_pin` clears the session, where
   `src/dev_docs/AUTH.md:296` says that a reset "does not clear `session_token_hash`, so
   an already-issued session survives it", and `src/docs/docs/user-guide/accounts.mdx:73`,
   `src/dev_docs/SECURITY.md:69` and `src/docs/docs/contributor-guide/security.mdx:73` say
   the same. The run refutes them; `SessionPinIsCurrent` states what the code does.

Seen while modelling, without a run of their own:

* `service/launch/monitor.py:47` flags an exit with code 0 as well, where
  `src/dev_docs/BACKEND_FLOW.md:378` speaks of crashes; a review replaced by a newer
  launch of the game is lost.
* `core/process_monitor.py` says a failed iteration will be retried, but the entries
  were popped: the rows of that batch stay open until a restart. `OpenRowHasCloser` and
  `ShutdownFinalizes` therefore exempt exactly the rows of such a batch.
* `complete_upload` (`api/routes/uploads.py:142`) accepts a second call for one
  upload, whose task may turn a job from "done" into "error"; `core/jobs.py:82` calls
  these states terminal.
* An import that moves its original has moved it into the staging folder when a
  refusal removes that (`service/uploads/software_games.py:119`);
  `service/games/path_import.py:20` calls the import atomic for its caller.
* The second removal of a staging folder (`software_games.py:119`) goes by name, and
  with two uploads at once the name may be the other one's by then; the comment at
  `software_games.py:117` calls it safe.
* `DELETE /drives` leaves `installed` set, so the next launch skips the copy and has
  DOSBox-X make a blank disk, and runs the game from it all the same
  (`coordinator.py:233` says that "the files live on C: on every launch").
  `MountedIsComplete` speaks of the images the backend made.
* Deleting a game while it runs cannot unlink its image and drops the row
  (`drive_utils.py:153`): the image stays, though `items.py:1373` says that it "is
  never orphaned".
* Two files that are one in 8.3 make every launch of their game fail, and so does a
  subdirectory with more entries than one cluster holds (62 with clusters of 2 KB).
* `compute_drive_size_mb` stops at 100 MB (`drive_utils.py:49`): the copy of a larger
  folder always ends with a full volume.
* An aborted upload leaves its job in "processing" (`api/routes/uploads.py:165`).
* `_sweep_locked` (`core/jobs.py:143`) also drops jobs that are still "cancelling",
  after which a second scan can start; `OneScanAtATime` exempts exactly that.
* Two complete calls of one upload can both ingest it.
* `service/games/items.py:660` takes a file for the incoming one if the sizes agree:
  `RowHasItsContent` holds in `ingest` because sizes there are distinct.
* A disc set whose first disc was led to a file found elsewhere owns that file's folder
  (`items.py:1205`, under a comment that calls it safe to remove), so deleting the set with
  its media removes that folder and the other games' files in it. A loose file has the
  library root for a folder, and `_under_root` (`items.py:1309`) lets the root pass: then
  the whole library goes. With a loose file and such a disc set among the requests TLC
  finds a row without its file.
* Overlapping ingests rename each other's folders (`RowsFindable` is part of
  `LibraryIsSound` for ingests in a row only), two concurrent uploads of one file can
  each drop their copy for the other's, and an anchor can be repointed at discs still
  being staged.

In the parts that `access` and `shelf` check; the properties name each as an exemption:

* A login can outrun the reset of a PIN in two orders, and its session then lives on with
  the old PIN. `switch_user` reads the hash (`api/routes/auth.py:227`), the reset commits a
  new one and clears the session, and only then does the login, satisfied with the old
  hash, issue its own. Or the reset reads the row while it has no session and hashes the
  new PIN, a login opens a session in the meantime, and the commit of the reset, to which
  the column has not changed, leaves it there (`api/routes/users.py:237`).
  `SessionPinIsCurrent` exempts these two, through `overtaken` and `BlindReset`, and no
  other: a login that begins after the reset, and any session the reset has read, are
  bound.
* A PATCH of a bundle writes `content_rating` as it comes (`service/games/items.py:1420`),
  while `core/dependencies.py:84` wants a lowered rating confirmed; `CeilingHolds` speaks
  of ratings from metadata.
* Deleting an album (`api/routes/media.py:262`) leaves the links of its shots; a link made
  while one of its ends is deleted stays as well, and unlinking one with a dead end
  answers 404.
* Two overlapping acceptances of artwork make two albums when the later one has chosen its
  slug after the first committed, which the docstring of `service/games/media_link.py:37`
  rules out.
* Deleting a disc of an app leaves the bundle pointing at it (`api/routes/apps.py:158`).
  Overlapping edits write the columns they changed, so the era of one meets the
  environment of the other.
* `lookup_environment_and_profile` (`service/utils/era_defaults.py:26`) takes a system
  environment by its emulator, whatever its era.
* A DOS environment without an image cannot be created: `provision_dosbox_drive` wants the
  path preset (`service/utils/vm/provisioner.py:211`) and is called only without one, while
  `service/environments/environments.py:17` promises its C: drive.
* An image of the user's, registered as working image, is unlinked with its environment,
  and a base is not looked for among the other rows; the comment at
  `environments.py:162` calls working images the app's own copies.
* A slug given away by a rename lets the next environment of that name write over the
  disk; so do two launches of one environment and a working path that was cleared.
* Deleting 86Box removes the machines' disks and the ROM pack with it
  (`service/utils/emulator_installer.py:143`); deleting the pack itself removes nothing.
* The start-up scan calls an emulator complete when its binary is there
  (`core/startup_tasks.py:177`), also after a torn extraction; a failed removal leaves
  "complete" standing.
* Configuration files are read and written without a lock. The exit helper of xemu, the
  PATCH of asset paths and another user's launch each write back what they had read: a
  network that the profile forbids may be on again, or a chosen path lost
  (`service/backends/xemu.py:75`; line 185 says the profile governs the network). The
  network of Flycast and PCSX2, once forced off, is never on again.
* A profile that asks for a container where descriptor or setting has none makes the
  launch fail (`service/utils/emulator_catalog.py:371` says that the override wins), and
  wrapper DLLs stay. Private directories of DOSBox-X stay when it does not start. Of two
  launches that share a folder the first to end takes the wrapper away from the other.
* An installer of RPCS3 that is closed after its executable has landed leaves a title that
  the next launch boots and records as installed (`service/backends/rpcs3.py:20` relies on
  the guard for it).

## 6. Not modelled

Not modelled:

* Formatting: command lines, configuration keys no property tells apart, Xenia and PCSX2
  beyond what they share with Flycast, progress numbers, logging, rendering.
* Pure functions of large data: detection, file types, release assets, VHD geometry,
  rating detection. Unit tests reach them as well as a model would.
* External services: metadata providers, GitHub. Their answers are choices.
* Row keeping without derived state: profiles, controllers, tags, free text, settings
  other than the pepper, the container switch and the rating map; seeding and migrations.
* BIOS placement. A copy that fails half way leaves a file that later checks call present;
  nothing else reads or repairs it, so there is no interleaving to check.
* A crash between the removal of media and of rows (`service/games/items.py:1379`), which
  the model shows as a window, `deleting`, without ending in it: the scan reports such
  rows and nothing repairs them. Two PUTs of one chunk: by proof only.
* Windows sandboxing, the tray, the front end and scripts, but for what the models take
  from them as choices of the environment.
