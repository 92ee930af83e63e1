--------------------------------- MODULE Jobs ---------------------------------
(***************************************************************************)
(* The in-memory registry of background jobs, core/jobs.py.  Every function *)
(* of the file holds its lock while it touches a job, so each operator is   *)
(* one atomic change.  A job is identified by what it was created for.      *)
(***************************************************************************)
EXTENDS Naturals, FiniteSets

CONSTANT JobIds

VARIABLES
    job,      \* status of each job; "none" before create, "swept" once dropped
    stale,    \* jobs not updated for more than _RETAIN_SECONDS
    canceled  \* jobs whose cancel event is set

jobVars == <<job, stale, canceled>>

InFlight == {"processing", "cancelling"}
Finished == {"done", "error", "cancelled"}
JobStatuses == InFlight \cup Finished \cup {"none", "swept"}

JobsTypeOK ==
    /\ job \in [JobIds -> JobStatuses]
    /\ stale \in SUBSET JobIds
    /\ canceled \in SUBSET JobIds

JobsInit ==
    /\ job = [j \in JobIds |-> "none"]
    /\ stale = {}
    /\ canceled = {}

Exists(j) == job[j] \in InFlight \cup Finished

\* _sweep_locked drops whatever is stale and not "processing", hence also a
\* job that is still "cancelling".
Sweepable == {j \in stale : Exists(j) /\ job[j] # "processing"}

AfterSweep(j) == IF j \in Sweepable THEN "swept" ELSE job[j]

\* Mutant of Create: swept jobs leave no trace behind.
CreateDropsSwept(j) ==
    /\ job[j] = "none"
    /\ job' = [k \in JobIds \ Sweepable |-> IF k = j THEN "processing" ELSE job[k]]
    /\ stale' = stale \ Sweepable
    /\ canceled' = canceled \ Sweepable

Create(j) ==
    /\ job[j] = "none"
    /\ job' = [k \in JobIds |-> IF k = j THEN "processing" ELSE AfterSweep(k)]
    /\ stale' = stale \ Sweepable
    /\ canceled' = canceled \ Sweepable

\* list_recent() sweeps, then returns every job that is left.
ListRecent ==
    /\ job' = [k \in JobIds |-> AfterSweep(k)]
    /\ stale' = stale \ Sweepable
    /\ canceled' = canceled \ Sweepable

\* The event is set after the lock is released; a loop that misses it ends its
\* work as if the request had come after its last look.
RequestCancel(j) ==
    /\ job[j] = "processing"
    /\ job' = [job EXCEPT ![j] = "cancelling"]
    /\ stale' = stale \ {j}
    /\ canceled' = canceled \cup {j}

Update(j) ==
    /\ stale' = stale \ {j}
    /\ UNCHANGED <<job, canceled>>

\* _finish: the status is set whatever it was, unless the job was swept.
Finish(j, status) ==
    /\ job' = [job EXCEPT ![j] = IF Exists(j) THEN status ELSE @]
    /\ stale' = stale \ {j}
    /\ UNCHANGED canceled

\* An hour passes without an update of the job; nothing asks it of a job that is
\* "processing", and every change of the status is an update.
GoStale(j) ==
    /\ Exists(j) /\ job[j] # "processing" /\ j \notin stale
    /\ stale' = stale \cup {j}
    /\ UNCHANGED <<job, canceled>>

\* The registry is lost with the process.
ForgetJobs ==
    /\ job' = [j \in JobIds |-> IF Exists(j) THEN "swept" ELSE job[j]]
    /\ stale' = {}
    /\ canceled' = {}
==============================================================================
