------------------------------- MODULE Uploads --------------------------------
(***************************************************************************)
(* Chunked uploads and library scans: service/uploads/core.py, the routes   *)
(* api/routes/uploads.py, the finalize_background tasks of the three upload *)
(* domains, and the scan of api/routes/game_item_bundles.py.                *)
(*                                                                          *)
(* Concurrency.  A chunk PUT is a coroutine that awaits while it streams;   *)
(* init, complete and abort run in the thread pool, and so do the           *)
(* background tasks they schedule.  They share the session table, whose     *)
(* every access is under a lock, and the staging directories on disk, which *)
(* nothing protects.                                                        *)
(***************************************************************************)
EXTENDS Jobs

CONSTANTS
    UploadIds,   \* upload sessions; also the ids of their jobs
    NumChunks,   \* chunks of an upload
    Puts,        \* chunk PUTs in flight at a time
    Completes,   \* calls of the complete route
    NumScans,    \* scans, numbered in the order they are started
    NoUpload, NoComplete,
    Crashes      \* whether the backend may crash

Scans == 1..NumScans
Chunks == 1..NumChunks
\* Destination names, in the order unique_slug tries them: every upload has the
\* same title here, which is when names can clash.
Names == 1..Cardinality(Completes)

ASSUME UploadsAssumption ==
    /\ NumChunks \in Nat \ {0}
    /\ NumScans \in Nat
    /\ IsFiniteSet(Completes)
    /\ JobIds = UploadIds \cup Scans
    /\ UploadIds \cap Scans = {}
    /\ NoUpload \notin UploadIds
    /\ NoComplete \notin Completes
    /\ Crashes \in BOOLEAN

VARIABLES
    sessions,  \* uploads in _sessions
    received,  \* chunks a session has recorded
    dirs,      \* uploads whose staging directory is on disk
    parts,     \* the .part files: absent, torn (being written) or whole
    doomed,    \* uploads whose session abort() popped, before its rmtree
    put,       \* each PUT: its stage, upload and chunk
    fin,       \* each complete call and its background task
    dest,      \* destination name -> the task that made the directory
    scan       \* where each scan's background task is

stagingVars == <<sessions, received, dirs, parts, doomed>>
vars == <<jobVars, stagingVars, put, fin, dest, scan>>

PutStages == {"idle", "checked", "writing", "written"}
FinStages == {"idle", "scheduled", "named", "copying", "undoing", "discarding",
              "clearing", "ingesting", "reporting", "failing", "aborting",
              "failed", "kept", "reused", "rejected", "lost"}
NoPut == [stage |-> "idle", upload |-> NoUpload, chunk |-> 1]
NoFin == [stage |-> "idle", upload |-> NoUpload, name |-> 0, copied |-> 0,
          short |-> FALSE, outcome |-> "none"]

PutType == [stage : PutStages, upload : UploadIds \cup {NoUpload}, chunk : Chunks]
FinType == [stage : FinStages, upload : UploadIds \cup {NoUpload},
            name : Names \cup {0}, copied : 0..NumChunks,
            short : BOOLEAN, outcome : {"none", "kept", "reused", "rejected"}]

TypeOK ==
    /\ JobsTypeOK
    /\ sessions \in SUBSET UploadIds
    /\ received \in [UploadIds -> SUBSET Chunks]
    /\ dirs \in SUBSET UploadIds
    /\ parts \in [UploadIds -> [Chunks -> {"absent", "torn", "whole"}]]
    /\ doomed \in SUBSET UploadIds
    /\ put \in [Puts -> PutType]
    /\ fin \in [Completes -> FinType]
    /\ dest \in [Names -> Completes \cup {NoComplete}]
    /\ scan \in [Scans -> {"idle", "walking", "done"}]

Init ==
    /\ JobsInit
    /\ sessions = {}
    /\ received = [u \in UploadIds |-> {}]
    /\ dirs = {}
    /\ parts = [u \in UploadIds |-> [c \in Chunks |-> "absent"]]
    /\ doomed = {}
    /\ put = [p \in Puts |-> NoPut]
    /\ fin = [f \in Completes |-> NoFin]
    /\ dest = [n \in Names |-> NoComplete]
    /\ scan = [s \in Scans |-> "idle"]

------------------------------------------------------------------------------
(* Sessions and staging directories *)

\* init_session, then the job, attached to the session before the client learns
\* the upload id.
InitUpload(u) ==
    /\ Create(u)
    /\ sessions' = sessions \cup {u}
    /\ dirs' = dirs \cup {u}
    /\ UNCHANGED <<received, parts, doomed, put, fin, dest, scan>>

OpenChunks(u) == {put[p].chunk : p \in {q \in Puts : put[q].stage = "writing" /\ put[q].upload = u}}

\* shutil.rmtree(..., ignore_errors=True): Windows refuses to delete a file
\* that is open, and then its directory stays as well.
RmStaging(u) ==
    /\ parts' = [parts EXCEPT ![u] = [c \in Chunks |-> IF c \in OpenChunks(u) THEN @[c] ELSE "absent"]]
    /\ dirs' = IF OpenChunks(u) = {} THEN dirs \ {u} ELSE dirs

\* Mutant of AbortPop: the directory goes first and the session after it.
AbortRemoveFirst(u) ==
    /\ u \in sessions
    /\ RmStaging(u)
    /\ doomed' = doomed \cup {u}
    /\ UNCHANGED <<jobVars, sessions, received, put, fin, dest, scan>>

\* abort(): the session is popped under the lock and its directory removed
\* after it.  The job of the upload is left as it is.
AbortPop(u) ==
    /\ u \in sessions
    /\ sessions' = sessions \ {u}
    /\ doomed' = doomed \cup {u}
    /\ UNCHANGED <<jobVars, received, dirs, parts, put, fin, dest, scan>>

AbortRemove(u) ==
    /\ u \in doomed
    /\ RmStaging(u)
    /\ doomed' = doomed \ {u}
    /\ UNCHANGED <<jobVars, sessions, received, put, fin, dest, scan>>

------------------------------------------------------------------------------
(* PUT of a chunk: store_chunk and stream_upload_to_disk *)

PutCheck(p, u, c) ==
    /\ put[p].stage = "idle"
    /\ u \in sessions
    /\ put' = [put EXCEPT ![p] = [stage |-> "checked", upload |-> u, chunk |-> c]]
    /\ UNCHANGED <<jobVars, stagingVars, fin, dest, scan>>

\* mkdir(parents=True) also restores a directory that was removed meanwhile, and
\* opening the part truncates an earlier copy of the chunk.
PutOpen(p) ==
    LET u == put[p].upload  c == put[p].chunk IN
    /\ put[p].stage = "checked"
    /\ dirs' = dirs \cup {u}
    /\ parts' = [parts EXCEPT ![u][c] = "torn"]
    /\ put' = [put EXCEPT ![p].stage = "writing"]
    /\ UNCHANGED <<jobVars, sessions, received, doomed, fin, dest, scan>>

StillWriting(p) ==
    \E q \in Puts \ {p} : put[q].stage = "writing" /\ put[q].upload = put[p].upload
                          /\ put[q].chunk = put[p].chunk

\* The chunk is streamed; two PUTs of one chunk share the file until both end.
PutStream(p) ==
    LET u == put[p].upload  c == put[p].chunk IN
    /\ put[p].stage = "writing"
    /\ parts' = [parts EXCEPT ![u][c] = IF StillWriting(p) THEN @ ELSE "whole"]
    /\ put' = [put EXCEPT ![p].stage = "written"]
    /\ UNCHANGED <<jobVars, sessions, received, dirs, doomed, fin, dest, scan>>

\* The chunk exceeds the cap: the part is unlinked and the PUT refused.
PutTooLarge(p) ==
    LET u == put[p].upload  c == put[p].chunk IN
    /\ put[p].stage = "writing"
    /\ parts' = [parts EXCEPT ![u][c] = IF StillWriting(p) THEN @ ELSE "absent"]
    /\ put' = [put EXCEPT ![p] = NoPut]
    /\ UNCHANGED <<jobVars, sessions, received, dirs, doomed, fin, dest, scan>>

\* The session is looked up again: it is gone (the part stays behind), or the
\* chunk is recorded, or a new chunk exceeds the declared size.
PutRecord(p) ==
    LET u == put[p].upload  c == put[p].chunk IN
    /\ put[p].stage = "written"
    /\ \/ /\ u \notin sessions
          /\ UNCHANGED <<received, parts>>
       \/ /\ u \in sessions
          /\ received' = [received EXCEPT ![u] = @ \cup {c}]
          /\ UNCHANGED parts
       \/ /\ u \in sessions /\ c \notin received[u]
          /\ parts' = [parts EXCEPT ![u][c] = IF StillWriting(p) THEN @ ELSE "absent"]
          /\ UNCHANGED received
    /\ put' = [put EXCEPT ![p] = NoPut]
    /\ UNCHANGED <<jobVars, sessions, dirs, doomed, fin, dest, scan>>

------------------------------------------------------------------------------
(* complete and its background task: reassemble, ingest, report *)

At(f, stage) == fin[f].stage = stage
Move(f, stage) == fin' = [fin EXCEPT ![f].stage = stage]

\* The route checks session and chunks, and schedules the task; nothing stops a
\* second call while the first task runs.
Complete(f, u) ==
    /\ At(f, "idle")
    /\ u \in sessions
    /\ received[u] = Chunks
    /\ fin' = [fin EXCEPT ![f] = [NoFin EXCEPT !.stage = "scheduled", !.upload = u]]
    /\ UNCHANGED <<jobVars, stagingVars, put, dest, scan>>

FirstFree(n) ==
    /\ dest[n] = NoComplete
    /\ \A m \in Names : m < n => dest[m] # NoComplete

\* reassemble reads the session and picks a name that is free right now.
PickName(f) ==
    /\ At(f, "scheduled")
    /\ Update(fin[f].upload)
    /\ \/ /\ fin[f].upload \notin sessions
          /\ Move(f, "failing")
       \/ /\ fin[f].upload \in sessions
          /\ \E n \in Names : /\ FirstFree(n)
                              /\ fin' = [fin EXCEPT ![f].stage = "named", ![f].name = n]
    /\ UNCHANGED <<stagingVars, put, dest, scan>>

\* Mutant of MakeDest: an existing directory is taken over.
MakeDestExisting(f) ==
    /\ At(f, "named")
    /\ Move(f, "copying")
    /\ dest' = [dest EXCEPT ![fin[f].name] = f]
    /\ UNCHANGED <<jobVars, stagingVars, put, scan>>

\* mkdir(exist_ok=False), outside the try block: if another task was faster the
\* error reaches finalize_background with nothing to undo.
MakeDest(f) ==
    /\ At(f, "named")
    /\ \/ /\ dest[fin[f].name] # NoComplete
          /\ Move(f, "failing")
          /\ UNCHANGED dest
       \/ /\ dest[fin[f].name] = NoComplete
          /\ Move(f, "copying")
          /\ dest' = [dest EXCEPT ![fin[f].name] = f]
    /\ UNCHANGED <<jobVars, stagingVars, put, scan>>

\* The next part, read while a PUT may be rewriting it, or while an abort is
\* removing it.
CopyChunk(f) ==
    LET next == fin[f].copied + 1  part == parts[fin[f].upload][next] IN
    /\ At(f, "copying")
    /\ next \in Chunks
    /\ Update(fin[f].upload)
    /\ \/ part = "absent" /\ Move(f, "undoing")
       \/ /\ part # "absent"
          /\ \E short \in BOOLEAN :
               /\ short => part = "torn"
               /\ fin' = [fin EXCEPT ![f].copied = next, ![f].short = @ \/ short]
    /\ UNCHANGED <<stagingVars, put, dest, scan>>

\* Mutant of CheckSize: the size is not compared with the declared one.
SkipCheckSize(f) ==
    /\ At(f, "copying")
    /\ fin[f].copied = NumChunks
    /\ Move(f, "discarding")
    /\ UNCHANGED <<jobVars, stagingVars, put, dest, scan>>

CheckSize(f) ==
    /\ At(f, "copying")
    /\ fin[f].copied = NumChunks
    /\ Move(f, IF fin[f].short THEN "undoing" ELSE "discarding")
    /\ UNCHANGED <<jobVars, stagingVars, put, dest, scan>>

\* Mutant of RemoveDest: the partial destination is left in the library.
KeepDest(f) ==
    /\ At(f, "undoing")
    /\ fin' = [fin EXCEPT ![f].stage = "discarding", ![f].outcome = "rejected"]
    /\ UNCHANGED <<jobVars, stagingVars, put, dest, scan>>

\* A failed reassembly removes its destination before it discards the staging.
RemoveDest(f) ==
    /\ At(f, "undoing")
    /\ dest' = [dest EXCEPT ![fin[f].name] = NoComplete]
    /\ fin' = [fin EXCEPT ![f].stage = "discarding", ![f].outcome = "rejected"]
    /\ UNCHANGED <<jobVars, stagingVars, put, scan>>

\* _discard: the session goes first and its directory after it.
DiscardPop(f) ==
    /\ At(f, "discarding")
    /\ sessions' = sessions \ {fin[f].upload}
    /\ Move(f, "clearing")
    /\ UNCHANGED <<jobVars, received, dirs, parts, doomed, put, dest, scan>>

DiscardRemove(f) ==
    /\ At(f, "clearing")
    /\ RmStaging(fin[f].upload)
    /\ Move(f, IF fin[f].outcome = "rejected" THEN "failing" ELSE "ingesting")
    /\ UNCHANGED <<jobVars, sessions, received, doomed, put, dest, scan>>

\* The domain adds the files to the library, or reuses an identical file it
\* already has, or fails; in both latter cases the destination is removed.
Ingest(f) ==
    /\ At(f, "ingesting")
    /\ \E outcome \in {"kept", "reused", "rejected"} :
         /\ fin' = [fin EXCEPT ![f].outcome = outcome,
                               ![f].stage = IF outcome = "rejected" THEN "failing" ELSE "reporting"]
         /\ dest' = [dest EXCEPT ![fin[f].name] = IF outcome = "kept" THEN @ ELSE NoComplete]
    /\ UNCHANGED <<jobVars, stagingVars, put, scan>>

Report(f) ==
    /\ At(f, "reporting")
    /\ Finish(fin[f].upload, "done")
    /\ Move(f, fin[f].outcome)
    /\ UNCHANGED <<stagingVars, put, dest, scan>>

\* The exception handler aborts the upload, which pops the session if it is
\* still there, and then fails the job.
FailPop(f) ==
    /\ At(f, "failing")
    /\ sessions' = sessions \ {fin[f].upload}
    /\ fin' = [fin EXCEPT ![f].stage = IF fin[f].upload \in sessions THEN "aborting" ELSE "failed",
                          ![f].outcome = "rejected"]
    /\ UNCHANGED <<jobVars, received, dirs, parts, doomed, put, dest, scan>>

FailRemove(f) ==
    /\ At(f, "aborting")
    /\ RmStaging(fin[f].upload)
    /\ Move(f, "failed")
    /\ UNCHANGED <<jobVars, sessions, received, doomed, put, dest, scan>>

\* Mutant of FailReport: the exception is logged and the job forgotten.
FailSilently(f) ==
    /\ At(f, "failed")
    /\ Move(f, "rejected")
    /\ UNCHANGED <<jobVars, stagingVars, put, dest, scan>>

FailReport(f) ==
    /\ At(f, "failed")
    /\ Finish(fin[f].upload, "error")
    /\ Move(f, "rejected")
    /\ UNCHANGED <<stagingVars, put, dest, scan>>

------------------------------------------------------------------------------
(* Scans *)

\* What list_recent() leaves of the scan jobs.
ScanJobs == {s \in Scans \ Sweepable : Exists(s)}
LatestScan(s) == s \in ScanJobs /\ \A t \in ScanJobs : t <= s

\* Mutant of NoActiveScan: only "processing" counts as running.
NoProcessingScan == \A s \in Scans : LatestScan(s) => job[s] # "processing"

\* The last scan job, if there is one, is not in flight.
NoActiveScan == \A s \in Scans : LatestScan(s) => job[s] \notin InFlight

\* trigger_scan, under _scan_lock.  Its list_recent() and its create() sweep at
\* the same instant.
TriggerScan(s) ==
    /\ scan[s] = "idle"
    /\ \A t \in Scans : t < s => scan[t] # "idle"
    /\ NoActiveScan
    /\ Create(s)
    /\ scan' = [scan EXCEPT ![s] = "walking"]
    /\ UNCHANGED <<stagingVars, put, fin, dest>>

CancelScan(s) ==
    /\ RequestCancel(s)
    /\ UNCHANGED <<stagingVars, put, fin, dest, scan>>

\* Ten more folders have been walked.
ScanProgress(s) ==
    /\ scan[s] = "walking"
    /\ s \notin canceled
    /\ Update(s)
    /\ UNCHANGED <<stagingVars, put, fin, dest, scan>>

\* The walk sees the cancel event, or reaches its end, or raises.
ScanEnds(s) ==
    /\ scan[s] = "walking"
    /\ \/ s \in canceled /\ Finish(s, "cancelled")
       \/ Finish(s, "done")
       \/ Finish(s, "error")
    /\ scan' = [scan EXCEPT ![s] = "done"]
    /\ UNCHANGED <<stagingVars, put, fin, dest>>

------------------------------------------------------------------------------
(* The nav bell's poll, time, crash and restart *)

Poll ==
    /\ Sweepable # {}
    /\ ListRecent
    /\ UNCHANGED <<stagingVars, put, fin, dest, scan>>

JobGoesStale(j) ==
    /\ GoStale(j)
    /\ UNCHANGED <<stagingVars, put, fin, dest, scan>>

\* Sessions, jobs and tasks are lost and the disk is not.  The restart removes
\* staging directories older than the TTL, before it serves anything.
Restart ==
    /\ Crashes
    /\ ForgetJobs
    /\ sessions' = {}
    /\ doomed' = {}
    /\ put' = [p \in Puts |-> NoPut]
    /\ fin' = [f \in Completes |->
                 IF fin[f].stage \in {"idle", "kept", "reused", "rejected"} THEN fin[f]
                 ELSE [fin[f] EXCEPT !.stage = "lost"]]
    /\ scan' = [s \in Scans |-> IF scan[s] = "walking" THEN "done" ELSE scan[s]]
    /\ \E old \in SUBSET dirs :
         /\ dirs' = dirs \ old
         /\ parts' = [u \in UploadIds |-> IF u \in old THEN [c \in Chunks |-> "absent"] ELSE parts[u]]
    /\ UNCHANGED <<received, dest>>

------------------------------------------------------------------------------
FinStep(f) ==
    \/ PickName(f) \/ MakeDest(f) \/ CopyChunk(f) \/ CheckSize(f) \/ RemoveDest(f)
    \/ DiscardPop(f) \/ DiscardRemove(f) \/ Ingest(f) \/ Report(f)
    \/ FailPop(f) \/ FailRemove(f) \/ FailReport(f)

PutStep(p) == PutOpen(p) \/ PutStream(p) \/ PutTooLarge(p) \/ PutRecord(p)

Next ==
    \/ \E u \in UploadIds : InitUpload(u) \/ AbortPop(u) \/ AbortRemove(u)
    \/ \E p \in Puts, u \in UploadIds, c \in Chunks : PutCheck(p, u, c)
    \/ \E p \in Puts : PutStep(p)
    \/ \E f \in Completes, u \in UploadIds : Complete(f, u)
    \/ \E f \in Completes : FinStep(f)
    \/ \E s \in Scans : TriggerScan(s) \/ CancelScan(s) \/ ScanProgress(s) \/ ScanEnds(s)
    \/ \E j \in JobIds : JobGoesStale(j)
    \/ Poll
    \/ Restart

Spec == Init /\ [][Next]_vars

\* Started tasks, removals and scans run to their end; clients owe nothing.
Fairness ==
    /\ \A f \in Completes : WF_vars(FinStep(f))
    /\ \A u \in UploadIds : WF_vars(AbortRemove(u))
    /\ \A p \in Puts : WF_vars(PutStep(p))
    /\ \A s \in Scans : WF_vars(ScanEnds(s))

FairSpec == Spec /\ Fairness

------------------------------------------------------------------------------
(* Safety *)

Rewriting(u, c) == \E p \in Puts : put[p].stage \in {"writing", "written"} /\ put[p].upload = u
                                   /\ put[p].chunk = c

\* From mkdir to the removal of the directory, or for good once it is kept.
HoldsDest(f) ==
    \/ fin[f].stage \in {"copying", "undoing", "ingesting"}
    \/ fin[f].stage \in {"discarding", "clearing"} /\ fin[f].outcome # "rejected"
    \/ fin[f].outcome = "kept"

\* A live session finds its staging directory where it left it, whatever aborts,
\* failed tasks and late PUTs of other calls do: the session is always dropped
\* before its directory.
LiveSessionHasStaging == sessions \subseteq dirs

\* A task that has made its destination is the only owner of it until it lets go,
\* although names are picked before the directory is made and a second complete
\* of the same upload may run at the same time.
OwnsItsDestination == \A f \in Completes : HoldsDest(f) => dest[fin[f].name] = f

\* A failed task leaves nothing under the library root: every destination on
\* disk belongs to a running task, to a result that was kept, or to a crash.
NoOrphanDestination ==
    \A n \in Names : dest[n] # NoComplete =>
        LET f == dest[n] IN fin[f].name = n /\ (HoldsDest(f) \/ fin[f].stage = "lost")

\* What an upload keeps on disk is looked after at every moment: its staging as long
\* as its session lives, its destination by one task, and nothing by nobody.
OwnsItsFiles == LiveSessionHasStaging /\ OwnsItsDestination /\ NoOrphanDestination

\* What reaches the library was assembled from whole chunks, also when a chunk
\* is sent again, or the upload aborted, while it is read.
OnlyWholeUploadsIngested ==
    \A f \in Completes :
        fin[f].stage \in {"ingesting", "reporting", "kept", "reused"}
            => fin[f].copied = NumChunks /\ ~fin[f].short

\* A job says "done" only if some task of its upload put the content in the
\* library or found it there.
DoneMeansAdded ==
    \A u \in UploadIds : job[u] = "done" =>
        \E f \in Completes : fin[f].upload = u /\ fin[f].outcome \in {"kept", "reused"}

\* At most one scan walks the library, unless the job of an earlier one, stuck
\* in "cancelling", was swept.
OneScanAtATime ==
    \A s, t \in Scans :
        s # t /\ scan[s] = "walking" /\ scan[t] = "walking" => "swept" \in {job[s], job[t]}

------------------------------------------------------------------------------
(* Liveness, under FairSpec *)

\* Once complete has answered 202 the upload's job leaves "processing", whichever
\* way reassembly and ingest end.
AcceptedUploadResolved ==
    \A u \in UploadIds :
        (\E f \in Completes : At(f, "scheduled") /\ fin[f].upload = u) ~> job[u] # "processing"

==============================================================================
