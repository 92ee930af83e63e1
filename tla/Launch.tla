-------------------------------- MODULE Launch --------------------------------
(***************************************************************************)
(* One backend process launching, watching and stopping emulators:         *)
(* service/launch/coordinator.py, history.py and monitor.py, the monitor   *)
(* loop core/process_monitor.py, and the startup and shutdown code of      *)
(* core/lifespan.py that touches the same state.                           *)
(*                                                                         *)
(* Concurrency.  Launch requests and the monitor are coroutines of one     *)
(* event loop, so a step runs from one await to the next; dispatch(spec),  *)
(* write_session_ends and poll_short_lived run in worker threads, and the  *)
(* stop and delete routes run in the thread pool.  A coroutine's segment   *)
(* is cut where one of those threads can see the state between two writes. *)
(***************************************************************************)
EXTENDS ProcessRegistry

CONSTANTS
    Targets,    \* library collections and environments that can be launched
    Kind,       \* target -> "game", "app" or "environment"
    Stoppers,   \* concurrent calls of the stop route
    Admin,      \* a caller that may stop any launch
    Monitor,    \* the monitor loop, as the owner of a batch of reaped entries
    NoLaunch,   \* no launch; also the owner of what a failed write has lost
    Faults      \* what the environment may do: subset of FaultKinds

FaultKinds == {"timeout", "delete", "db", "crash"}

ASSUME LaunchAssumption ==
    /\ Kind \in [Targets -> {"game", "app", "environment"}]
    /\ Monitor \notin Launches
    /\ NoLaunch \notin Launches \cup {Monitor}
    /\ Admin \notin Users \cup {NoUser}
    /\ Faults \in SUBSET FaultKinds

VARIABLES
    server,   \* the backend: "up", the two shutdown stages, "down"
    target,   \* what each launch attempt launches
    pc,       \* where the coroutine of each launch attempt is
    worker,   \* the dispatch thread of each attempt, or what it returned
    history,  \* launch_history rows: absent, open, or ended with a code
    batch,    \* reaped entries whose history is still to be written; NoLaunch's never will
    monitor,  \* where the monitor loop is
    checks,   \* monitor._pending: collection -> launch under crash review
    fresh,    \* the process has not outlived the crash-review window
    flagged,  \* collections with launch_review_flagged set
    stop      \* each stop call: its stage, the row it ends, its victim

requestVars == <<target, pc, worker>>
reviewVars == <<checks, fresh, flagged>>
vars == <<profile, proc, registryVars, server, requestVars, history, batch,
          monitor, reviewVars, stop>>

EndCodes == {"clean", "crashed", "killed", "aborted", "stopped"}
RowStates == {"open"} \cup EndCodes
PCs == {"idle", "writing", "resolving", "reserving", "reserved", "dispatching",
        "registered", "watching", "done"}
\* Between try_reserve and the finally that releases.
Reserving == {"reserved", "dispatching", "registered", "watching"}
NoStop == [stage |-> "idle", caller |-> Admin, row |-> NoLaunch, victim |-> NoLaunch]

TypeOK ==
    /\ RegistryTypeOK
    /\ server \in {"up", "stopping", "marked", "down"}
    /\ target \in [Launches -> Targets]
    /\ pc \in [Launches -> PCs]
    /\ worker \in [Launches -> {"none", "busy", "process", "nojob", "noprocess", "raised", "late"}]
    /\ history \in [Launches -> {"none", "deleted"} \cup RowStates]
    /\ batch \in [Launches \cup {Monitor, NoLaunch} -> SUBSET Launches]
    /\ monitor \in {"asleep", "writing", "polling", "pruning"}
    /\ checks \in [Targets -> Launches \cup {NoLaunch}]
    /\ fresh \in [Launches -> BOOLEAN]
    /\ flagged \in SUBSET Targets
    /\ stop \in [Stoppers -> [stage : {"idle", "matched", "terminated"},
                              caller : Users \cup {Admin},
                              row : Launches \cup {NoLaunch},
                              victim : Launches \cup {NoLaunch}]]

Init ==
    /\ RegistryInit
    /\ server = "up"
    /\ target \in [Launches -> Targets]
    /\ pc = [l \in Launches |-> "idle"]
    /\ worker = [l \in Launches |-> "none"]
    /\ history = [l \in Launches |-> "none"]
    /\ batch = [a \in Launches \cup {Monitor, NoLaunch} |-> {}]
    /\ monitor = "asleep"
    /\ checks = [t \in Targets |-> NoLaunch]
    /\ fresh = [l \in Launches |-> TRUE]
    /\ flagged = {}
    /\ stop = [s \in Stoppers |-> NoStop]

------------------------------------------------------------------------------
(* History rows *)

HasRow(l) == history[l] \in RowStates

\* An update of a row that was deleted meanwhile changes nothing.
SetRow(l, code) == history' = [history EXCEPT ![l] = IF HasRow(l) THEN code ELSE @]

\* write_session_ends: only rows that are still open get an end.
EndOpenRows(S, code) ==
    history' = [l \in Launches |->
                  IF l \in S /\ history[l] = "open" THEN code[l] ELSE history[l]]

ExitCode == proc

\* Mutant of Reap: the list that cleanup_exited returns is ignored.
ReapUnseen(actor) ==
    /\ CleanupExited
    /\ UNCHANGED <<batch, profile, proc, order, pendingProfiles, pendingScopes>>

\* The caller of cleanup_exited keeps the popped entries until they are written.
Reap(actor) ==
    /\ CleanupExited
    /\ batch' = [batch EXCEPT ![actor] = Exited]
    /\ UNCHANGED <<profile, proc, order, pendingProfiles, pendingScopes>>

WriteSessionEnds(actor) ==
    /\ EndOpenRows(batch[actor], ExitCode)
    /\ batch' = [batch EXCEPT ![actor] = {}]

\* The write has raised: nobody keeps the popped entries any more.
LoseBatch(actor) == batch' = [batch EXCEPT ![actor] = {}, ![NoLaunch] = @ \cup batch[actor]]

Goto(l, from, to) ==
    /\ pc[l] = from
    /\ pc' = [pc EXCEPT ![l] = to]
    /\ UNCHANGED target

------------------------------------------------------------------------------
(* A launch request: launch_collection, launch_app_collection or           *)
(* launch_environment, then launch                                         *)

\* The entry points first reap whatever has exited.
Request(l) ==
    /\ server = "up"
    /\ Goto(l, "idle", IF Exited = {} THEN "resolving" ELSE "writing")
    /\ Reap(l)
    /\ UNCHANGED <<server, worker, history, monitor, reviewVars, stop>>

RequestWrite(l) ==
    /\ server = "up"
    /\ Goto(l, "writing", "resolving")
    /\ WriteSessionEnds(l)
    /\ UNCHANGED <<profile, proc, registryVars, server, worker, monitor, reviewVars, stop>>

\* The write raises: the request fails and its batch is lost.
RequestWriteFails(l) ==
    /\ server = "up" /\ "db" \in Faults
    /\ Goto(l, "writing", "done")
    /\ LoseBatch(l)
    /\ UNCHANGED <<profile, proc, registryVars, server, worker, history, monitor, reviewVars, stop>>

\* Profile, environment, drive and media are resolved, or the request is refused.
Resolve(l) ==
    /\ server = "up"
    /\ \E next \in {"reserving", "done"} : Goto(l, "resolving", next)
    /\ UNCHANGED <<profile, proc, registryVars, server, worker, history, batch, monitor, reviewVars, stop>>

TryReserve(l) ==
    /\ server = "up"
    /\ Available(l)
    /\ Goto(l, "reserving", "reserved")
    /\ MarkPending(l)
    /\ UNCHANGED <<profile, proc, registry, order, server, worker, history, batch, monitor, reviewVars, stop>>

\* 409: an active or pending launch holds one of the two guard keys.
Refuse(l) ==
    /\ server = "up"
    /\ ~Available(l)
    /\ Goto(l, "reserving", "done")
    /\ UNCHANGED <<profile, proc, registryVars, server, worker, history, batch, monitor, reviewVars, stop>>

\* The row is committed and dispatch(spec) is handed to a thread.
InsertRow(l) ==
    /\ server = "up"
    /\ Goto(l, "reserved", "dispatching")
    /\ history' = [history EXCEPT ![l] = "open"]
    /\ worker' = [worker EXCEPT ![l] = "busy"]
    /\ UNCHANGED <<profile, proc, registryVars, server, batch, monitor, reviewVars, stop>>

InsertRowFails(l) ==
    /\ server = "up" /\ "db" \in Faults
    /\ Goto(l, "reserved", "done")
    /\ Release(l)
    /\ UNCHANGED <<profile, proc, registry, order, server, worker, history, batch, monitor, reviewVars, stop>>

\* dispatch ends in its thread: a process under a Job Object, a process without
\* one, no process, or an exception.
WorkerReturns(l) ==
    /\ server = "up"
    /\ pc[l] = "dispatching" /\ worker[l] = "busy"
    /\ \E result \in {"process", "nojob", "noprocess", "raised"} :
         /\ worker' = [worker EXCEPT ![l] = result]
         /\ proc' = [proc EXCEPT ![l] = IF result \in {"process", "nojob"} THEN "running" ELSE @]
    /\ UNCHANGED <<profile, registryVars, server, target, pc, history, batch, monitor, reviewVars, stop>>

\* Mutant of WaitTimeout: dispatch is awaited without a limit.
WaitForever(l) == FALSE

\* wait_for gives up after 30 s; the thread cannot be cancelled and goes on.
WaitTimeout(l) ==
    /\ server = "up" /\ "timeout" \in Faults
    /\ worker[l] = "busy"
    /\ Goto(l, "dispatching", "done")
    /\ SetRow(l, "aborted")
    /\ Release(l)
    /\ UNCHANGED <<profile, proc, registry, order, server, worker, batch, monitor, reviewVars, stop>>

\* The abandoned thread ends after all; whether the process it may have started
\* survives the loss of the returned handles is up to the sandbox library.
LateReturn(l) ==
    /\ server # "down"
    /\ pc[l] = "done" /\ worker[l] = "busy"
    /\ worker' = [worker EXCEPT ![l] = "late"]
    /\ \E state \in {"none", "running", "killed"} : proc' = [proc EXCEPT ![l] = state]
    /\ UNCHANGED <<profile, registryVars, server, target, pc, history, batch, monitor, reviewVars, stop>>

\* dispatch raised, or _finalize_launch refuses a missing process or a missing
\* Job Object (the process is killed first).
LaunchAborted(l) ==
    /\ server = "up"
    /\ worker[l] \in {"nojob", "noprocess", "raised"}
    /\ Goto(l, "dispatching", "done")
    /\ proc' = [proc EXCEPT ![l] = IF @ = "running" THEN "killed" ELSE @]
    /\ SetRow(l, "aborted")
    /\ Release(l)
    /\ UNCHANGED <<profile, registry, order, server, worker, batch, monitor, reviewVars, stop>>

\* _finalize_launch registers the process before it commits the row.
RegisterProcess(l) ==
    /\ server = "up"
    /\ worker[l] = "process"
    /\ Goto(l, "dispatching", "registered")
    /\ Register(l)
    /\ UNCHANGED <<profile, proc, pendingProfiles, pendingScopes, server, worker, history, batch, monitor, reviewVars, stop>>

\* The commit of the isolation flags: an environment launch is finished, a
\* collection launch is watched for an immediate exit.
CommitFlags(l) ==
    /\ server = "up"
    /\ HasRow(l)
    /\ IF Kind[target[l]] = "environment"
         THEN Goto(l, "registered", "done") /\ Release(l)
         ELSE Goto(l, "registered", "watching") /\ UNCHANGED <<pendingProfiles, pendingScopes>>
    /\ UNCHANGED <<profile, proc, registry, order, server, worker, history, batch, monitor, reviewVars, stop>>

\* The row is gone, so the commit raises; the process stays registered.
CommitFlagsFails(l) ==
    /\ server = "up"
    /\ ~HasRow(l)
    /\ Goto(l, "registered", "done")
    /\ Release(l)
    /\ UNCHANGED <<profile, proc, registry, order, server, worker, history, batch, monitor, reviewVars, stop>>

\* The process exited with a nonzero code inside the 0.75 s window.
InlineCrash(l) ==
    /\ server = "up"
    /\ proc[l] \in {"crashed", "killed"}
    /\ Goto(l, "watching", "done")
    /\ Terminate({l})
    /\ SetRow(l, ExitCode[l])
    /\ Release(l)
    /\ UNCHANGED <<profile, order, server, worker, batch, monitor, reviewVars, stop>>

\* The window passed, or the process exited with code 0; a game is put under
\* crash review, replacing an earlier launch of the same collection.
InlineOk(l) ==
    /\ server = "up"
    /\ proc[l] \in {"running", "clean"}
    /\ Goto(l, "watching", "done")
    /\ checks' = IF Kind[target[l]] = "game" THEN [checks EXCEPT ![target[l]] = l] ELSE checks
    /\ Release(l)
    /\ UNCHANGED <<profile, proc, registry, order, server, worker, history, batch, monitor, fresh, flagged, stop>>

------------------------------------------------------------------------------
(* The emulator processes *)

ProcessExits(l) ==
    /\ proc[l] = "running"
    /\ \E code \in {"clean", "crashed"} : proc' = [proc EXCEPT ![l] = code]
    /\ UNCHANGED <<profile, registryVars, server, requestVars, history, batch, monitor, reviewVars, stop>>

\* A running process outlives the 3 s window; the inline check takes under 1 s.
OutlivesWindow(l) ==
    /\ proc[l] = "running" /\ pc[l] = "done" /\ fresh[l]
    /\ fresh' = [fresh EXCEPT ![l] = FALSE]
    /\ UNCHANGED <<profile, proc, registryVars, server, requestVars, history, batch, monitor, checks, flagged, stop>>

------------------------------------------------------------------------------
(* The monitor loop: reap, write, poll, prune *)

MonitorReap ==
    /\ server = "up" /\ monitor = "asleep"
    /\ Reap(Monitor)
    /\ monitor' = IF Exited = {} THEN "polling" ELSE "writing"
    /\ UNCHANGED <<server, requestVars, history, reviewVars, stop>>

\* The thread finishes its write even when shutdown has cancelled the loop.
MonitorWrite ==
    /\ server # "down" /\ monitor = "writing"
    /\ WriteSessionEnds(Monitor)
    /\ monitor' = "polling"
    /\ UNCHANGED <<profile, proc, registryVars, server, requestVars, reviewVars, stop>>

\* The write raises: the iteration is abandoned and its batch is lost.
MonitorWriteFails ==
    /\ server # "down" /\ monitor = "writing" /\ "db" \in Faults
    /\ LoseBatch(Monitor)
    /\ monitor' = "asleep"
    /\ UNCHANGED <<profile, proc, registryVars, server, requestVars, history, reviewVars, stop>>

\* poll_short_lived: an exited process flags its collection, one that outlived
\* the window leaves the review, any other stays.
UnderReview == {t \in Targets : checks[t] # NoLaunch}
\* Mutant of ToFlag: the exit code test is the wrong way round.
ToFlagClean == {t \in UnderReview : proc[checks[t]] = "clean"}
ToFlag == {t \in UnderReview : proc[checks[t]] \in ExitedStates}
ToRemove == ToFlag \cup {t \in UnderReview : ~fresh[checks[t]]}

MonitorPoll ==
    /\ server = "up" /\ monitor = "polling"
    /\ checks' = [t \in Targets |-> IF t \in ToRemove THEN NoLaunch ELSE checks[t]]
    /\ flagged' = flagged \cup ToFlag
    /\ monitor' = "pruning"
    /\ UNCHANGED <<profile, proc, registryVars, server, requestVars, history, batch, fresh, stop>>

\* The retention sweep deletes old rows whether or not they have ended.
MonitorPrune ==
    /\ server = "up" /\ monitor = "pruning"
    /\ \E old \in SUBSET {l \in Launches : HasRow(l) /\ pc[l] = "done"} :
         /\ old # {} => "delete" \in Faults
         /\ history' = [l \in Launches |-> IF l \in old THEN "deleted" ELSE history[l]]
    /\ monitor' = "asleep"
    /\ UNCHANGED <<profile, proc, registryVars, server, requestVars, batch, reviewVars, stop>>

\* DELETE /launches by an owner or an admin.
DeleteRow(l) ==
    /\ server = "up" /\ "delete" \in Faults
    /\ HasRow(l)
    /\ history' = [history EXCEPT ![l] = "deleted"]
    /\ UNCHANGED <<profile, proc, registryVars, server, requestVars, batch, monitor, reviewVars, stop>>

------------------------------------------------------------------------------
(* The stop route *)

SameCollection(l, k) == Kind[target[l]] # "environment" /\ target[l] = target[k]

MayStop(caller, l) == caller = Admin \/ ProfileUser[profile[l]] \in {caller, NoUser}

Matches(l) == {k \in registry : k = l \/ SameCollection(l, k)}

\* get_all() is a snapshot; the first match in insertion order is the victim.
StopMatch(s, l, caller) ==
    /\ server = "up" /\ stop[s].stage = "idle"
    /\ HasRow(l)
    /\ MayStop(caller, l)
    /\ \E victim \in Matches(l) :
         /\ \A k \in Matches(l) : order[victim] <= order[k]
         /\ stop' = [stop EXCEPT ![s] = [stage |-> "matched", caller |-> caller,
                                         row |-> l, victim |-> victim]]
    /\ UNCHANGED <<profile, proc, registryVars, server, requestVars, history, batch, monitor, reviewVars>>

StopTerminate(s) ==
    /\ server = "up" /\ stop[s].stage = "matched"
    /\ Terminate({stop[s].victim})
    /\ stop' = [stop EXCEPT ![s].stage = "terminated"]
    /\ UNCHANGED <<profile, order, pendingProfiles, pendingScopes, server, requestVars, history, batch, monitor, reviewVars>>

\* The requested row is ended, whichever process was terminated.
StopCommit(s) ==
    /\ server = "up" /\ stop[s].stage = "terminated"
    /\ SetRow(stop[s].row, "stopped")
    /\ stop' = [stop EXCEPT ![s] = NoStop]
    /\ UNCHANGED <<profile, proc, registryVars, server, requestVars, batch, monitor, reviewVars>>

------------------------------------------------------------------------------
(* Shutdown, crash and restart of the backend *)

NoRequestInFlight ==
    /\ \A l \in Launches : pc[l] \in {"idle", "done"}
    /\ \A s \in Stoppers : stop[s].stage = "idle"

\* The server drains its requests, cancels the monitor and finalizes what has
\* already exited.
ShutdownReap ==
    /\ server = "up" /\ NoRequestInFlight
    /\ server' = "stopping"
    /\ CleanupExited
    /\ EndOpenRows(Exited, ExitCode)
    /\ UNCHANGED <<profile, proc, order, pendingProfiles, pendingScopes, requestVars, batch, monitor, reviewVars, stop>>

\* Mutant of ShutdownMark: sessions are terminated without ending their rows.
ShutdownUnmarked ==
    /\ server = "stopping"
    /\ server' = "marked"
    /\ UNCHANGED <<profile, proc, registryVars, requestVars, history, batch, monitor, reviewVars, stop>>

\* Sessions still registered are marked as ended by the shutdown.
ShutdownMark ==
    /\ server = "stopping"
    /\ server' = "marked"
    /\ EndOpenRows(registry, [l \in Launches |-> "stopped"])
    /\ UNCHANGED <<profile, proc, registryVars, requestVars, batch, monitor, reviewVars, stop>>

\* Whatever the process held in memory is gone, and kill-on-close ends every
\* emulator it started.
Forget ==
    /\ registry' = {}
    /\ pendingProfiles' = {}
    /\ pendingScopes' = {}
    /\ proc' = [l \in Launches |-> IF proc[l] = "running" THEN "killed" ELSE proc[l]]
    /\ pc' = [l \in Launches |-> IF pc[l] = "idle" THEN "idle" ELSE "done"]
    /\ worker' = [l \in Launches |-> IF worker[l] = "busy" THEN "none" ELSE worker[l]]
    /\ batch' = [a \in Launches \cup {Monitor, NoLaunch} |-> {}]
    /\ monitor' = "asleep"
    /\ checks' = [t \in Targets |-> NoLaunch]
    /\ stop' = [s \in Stoppers |-> NoStop]
    /\ UNCHANGED <<profile, order, target, history, fresh, flagged>>

\* Every registered process is terminated, the worker threads are joined and
\* the process ends.
ShutdownTerminate ==
    /\ server = "marked" /\ monitor # "writing"
    /\ server' = "down"
    /\ Forget

Crash ==
    /\ server # "down" /\ "crash" \in Faults
    /\ server' = "down"
    /\ Forget

\* _cleanup_stale_sessions closes every row a former process left open.
Startup ==
    /\ server = "down"
    /\ server' = "up"
    /\ EndOpenRows(Launches, [l \in Launches |-> "aborted"])
    /\ UNCHANGED <<profile, proc, registryVars, requestVars, batch, monitor, reviewVars, stop>>

------------------------------------------------------------------------------
LaunchStep(l) ==
    \/ Request(l) \/ RequestWrite(l) \/ RequestWriteFails(l) \/ Resolve(l)
    \/ TryReserve(l) \/ Refuse(l) \/ InsertRow(l) \/ InsertRowFails(l)
    \/ WorkerReturns(l) \/ WaitTimeout(l) \/ LateReturn(l)
    \/ LaunchAborted(l) \/ RegisterProcess(l) \/ CommitFlags(l) \/ CommitFlagsFails(l)
    \/ InlineCrash(l) \/ InlineOk(l)
    \/ ProcessExits(l) \/ OutlivesWindow(l) \/ DeleteRow(l)

MonitorStep == MonitorReap \/ MonitorWrite \/ MonitorWriteFails \/ MonitorPoll \/ MonitorPrune

StopStep(s) ==
    \/ \E l \in Launches, caller \in Users \cup {Admin} : StopMatch(s, l, caller)
    \/ StopTerminate(s)
    \/ StopCommit(s)

ServerStep == ShutdownReap \/ ShutdownMark \/ ShutdownTerminate \/ Crash \/ Startup

Next ==
    \/ \E l \in Launches : LaunchStep(l)
    \/ MonitorStep
    \/ \E s \in Stoppers : StopStep(s)
    \/ ServerStep

Spec == Init /\ [][Next]_vars

\* The event loop runs every ready coroutine, timers fire, and started threads
\* finish their database writes; dispatch itself may hang for good, and nobody
\* is obliged to launch, stop, delete or shut down anything.
RequestProgress(l) ==
    \/ RequestWrite(l) \/ Resolve(l) \/ TryReserve(l) \/ Refuse(l) \/ InsertRow(l)
    \/ WaitTimeout(l) \/ LaunchAborted(l) \/ RegisterProcess(l)
    \/ CommitFlags(l) \/ CommitFlagsFails(l) \/ InlineCrash(l) \/ InlineOk(l)

Fairness ==
    /\ \A l \in Launches : WF_vars(RequestProgress(l))
    /\ WF_vars(MonitorReap) /\ WF_vars(MonitorWrite)
    /\ WF_vars(MonitorPoll) /\ WF_vars(MonitorPrune)
    /\ WF_vars(ShutdownMark) /\ WF_vars(ShutdownTerminate) /\ WF_vars(Startup)

FairSpec == Spec /\ Fairness

------------------------------------------------------------------------------
(* Safety *)

Reserved == {l \in Launches : pc[l] \in Reserving}
Holders == registry \cup Reserved

\* Two launches of one profile, or of one emulator for one user, are never both
\* reserved or registered: the promise of try_reserve, kept across the handover
\* from the pending markers to the registry and across every release.
SlotExclusive == \A l, k \in Holders : l # k => ~Conflict(l, k)

\* The pending markers are exactly the keys of the requests between try_reserve
\* and their finally: none leaks, and no release drops another request's key.
PendingExact ==
    /\ pendingProfiles = {profile[l] : l \in Reserved}
    /\ pendingScopes = {Scope(profile[l]) : l \in {k \in Reserved : HasScope(profile[k])}}

\* A running emulator is registered, or about to be judged by its request, or
\* was started by a dispatch thread its request had given up on.
RunningTracked ==
    \A l \in Launches : proc[l] = "running" =>
        l \in registry \/ pc[l] = "dispatching" \/ worker[l] = "late"

\* No two emulators run for one slot, leaving aside abandoned dispatch threads.
OneEmulatorPerSlot ==
    \A l, k \in Launches :
        (l # k /\ proc[l] = "running" /\ proc[k] = "running" /\ Conflict(l, k))
            => "late" \in {worker[l], worker[k]}

\* A profile, and an emulator for one user, is taken once: by one request or process,
\* and, abandoned dispatch threads apart, by one emulator that runs.
OneLaunchPerSlot == SlotExclusive /\ OneEmulatorPerSlot

\* What the registry and its markers say is what there is: no marker without its
\* request, no running emulator that nobody knows of.
SlotsAreTracked == PendingExact /\ RunningTracked

\* Stopping matches by collection, so the row of a launch is in doubt as soon
\* as its collection has been launched another time.
SharedCollection(l) ==
    \E k \in Launches \ {l} : SameCollection(k, l) /\ history[k] # "none"

BeingStopped(l) == \E s \in Stoppers : stop[s].stage = "terminated" /\ stop[s].victim = l

\* An open row still has somebody who will end it: its request, the registry
\* (hence the monitor or the shutdown), a reaper's batch, or a stop call.
HasCloser(l) ==
    \/ pc[l] \in Reserving
    \/ l \in registry
    \/ \E a \in Launches \cup {Monitor} : l \in batch[a]
    \/ BeingStopped(l)
    \/ server = "down"

\* No row is left open for ever, with the two exceptions the code has: the rows of
\* a reaped batch whose write has failed, and a stop that ended another row of the
\* collection.
OpenRowHasCloser ==
    \A l \in Launches : history[l] = "open" =>
        HasCloser(l) \/ SharedCollection(l) \/ l \in batch[NoLaunch]

\* A row says a launch has ended only when its process has, apart from abandoned
\* dispatch threads, the rows shutdown marks before it terminates, and stops
\* that hit another launch of the collection.
EndedRowMeansExited ==
    \A l \in Launches : history[l] \in EndCodes /\ proc[l] = "running" =>
        worker[l] = "late" \/ server = "marked" \/ SharedCollection(l)

\* The history tells the truth of both: what is open will be ended, what is ended has.
HistoryIsTrue == OpenRowHasCloser /\ EndedRowMeansExited

\* A graceful shutdown leaves no row open, the same two exceptions apart.
ShutdownFinalizes ==
    [][server = "marked" /\ server' = "down" /\ monitor # "writing" =>
         \A l \in Launches : history[l] = "open" => SharedCollection(l) \/ l \in batch[NoLaunch]]_vars

------------------------------------------------------------------------------
(* Refinement *)

GuardKeys(l) == ({"profile"} \X {profile[l]}) \cup ({"scope"} \X ScopeKeys(l))
BeforeReserve == {"idle", "writing", "resolving", "reserving"}
Spent == {l \in Launches : pc[l] \notin BeforeReserve}

Slots == INSTANCE ExclusiveSlots WITH
    keys <- [l \in Launches |-> GuardKeys(l)], holders <- Holders, spent <- Spent

\* The registry and its pending markers implement the exclusive slots: no step of
\* a request, a reaper, a stop or the shutdown drops a slot and takes it back.
ImplementsSlots == Slots!Spec

------------------------------------------------------------------------------
(* Liveness, under FairSpec *)

\* Every reservation is released, whatever dispatch does.
ReservationReleased == \A l \in Launches : pc[l] \in Reserving ~> pc[l] = "done"

\* An exit of a registered process is recorded in its row by some reaper.
ExitRecorded ==
    \A l \in Launches : (l \in registry /\ proc[l] \in ExitedStates) ~> history[l] # "open"

\* A crash inside the review window flags its collection, however late the poll,
\* unless a newer launch of the collection took its place or the backend went
\* down.
CrashReviewed ==
    \A l \in Launches, t \in Targets :
        (checks[t] = l /\ proc[l] = "crashed" /\ fresh[l]) ~>
            (t \in flagged \/ server # "up" \/ checks[t] \notin {l, NoLaunch})

------------------------------------------------------------------------------
(* What comments and documents say, and the code does not do *)

\* coordinator.py, at the release in its finally: it "never reopens a window for
\* a duplicate launch to slip in".
NoDuplicateLaunch ==
    \A l, k \in Launches :
        (l # k /\ proc[l] = "running" /\ proc[k] = "running") => ~Conflict(l, k)

\* The user guide: "You can stop your own launches; an admin can stop anyone's."
StopsOwnLaunch ==
    \A s \in Stoppers : stop[s].stage # "idle" => MayStop(stop[s].caller, stop[s].victim)
==============================================================================
