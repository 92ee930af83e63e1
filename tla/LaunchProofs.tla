----------------------------- MODULE LaunchProofs -----------------------------
(***************************************************************************)
(* Proofs about Launch, for any number of launches, profiles and stop      *)
(* calls and any behaviour of the environment.                             *)
(***************************************************************************)
EXTENDS Launch, FiniteSetTheorems, TLAPS

------------------------------------------------------------------------------
(* The type invariant *)

\* Before a request hands its launch to a dispatch thread there is no thread, and
\* until the thread returns there is no process.
WorkerInv ==
    \A l \in Launches :
        /\ pc[l] \in BeforeReserve \cup {"reserved"} => worker[l] = "none"
        /\ worker[l] \in {"none", "busy"} => proc[l] = "none"

\* A reaped entry stays exited until its history is written.
BatchExited ==
    \A a \in Launches \cup {Monitor} : \A l \in batch[a] : proc[l] \in ExitedStates

TypeInv == TypeOK /\ WorkerInv /\ BatchExited

LEMMA OrderCount ==
    ASSUME NEW S \in SUBSET Launches
    PROVE  1 + Cardinality(S) \in Nat
  BY ConstantsAssumption, FS_Subset, FS_CardinalityType

LEMMA TypeInvInit == Init => TypeInv
  BY ConstantsAssumption, LaunchAssumption
  DEF Init, TypeInv, TypeOK, RegistryInit, RegistryTypeOK, WorkerInv, BatchExited,
      ProcStates, PCs, NoStop

LEMMA TypeInvStep == TypeInv /\ [Next]_vars => TypeInv'
<1> SUFFICES ASSUME TypeInv, [Next]_vars PROVE TypeInv'
  OBVIOUS
<1> USE ConstantsAssumption, LaunchAssumption DEF TypeInv, TypeOK, RegistryTypeOK,
        WorkerInv, BatchExited, registryVars, requestVars, reviewVars, PCs, ProcStates,
        ExitedStates, BeforeReserve, RowStates, EndCodes
<1>1. ASSUME NEW l \in Launches, LaunchStep(l) PROVE TypeInv'
  <2>1. CASE Request(l)
    BY <2>1 DEF Request, Goto, Reap, CleanupExited, Exited
  <2>2. CASE RequestWrite(l)
    BY <2>2 DEF RequestWrite, Goto, WriteSessionEnds, EndOpenRows, ExitCode
  <2>3. CASE RequestWriteFails(l)
    BY <2>3 DEF RequestWriteFails, Goto, LoseBatch
  <2>4. CASE Resolve(l)
    BY <2>4 DEF Resolve, Goto
  <2>5. CASE TryReserve(l)
    BY <2>5 DEF TryReserve, Goto, MarkPending, ScopeKeys, Scope, Scopes
  <2>6. CASE Refuse(l)
    BY <2>6 DEF Refuse, Goto
  <2>7. CASE InsertRow(l)
    BY <2>7 DEF InsertRow, Goto
  <2>8. CASE InsertRowFails(l)
    BY <2>8 DEF InsertRowFails, Goto, Release
  <2>9. CASE WorkerReturns(l)
    BY <2>9 DEF WorkerReturns
  <2>10. CASE WaitTimeout(l)
    BY <2>10 DEF WaitTimeout, Goto, SetRow, Release
  <2>11. CASE LateReturn(l)
    BY <2>11 DEF LateReturn
  <2>12. CASE LaunchAborted(l)
    BY <2>12 DEF LaunchAborted, Goto, SetRow, Release
  <2>13. CASE RegisterProcess(l)
    BY <2>13, OrderCount DEF RegisterProcess, Goto, Register
  <2>14. CASE CommitFlags(l)
    BY <2>14, SMTT(30) DEF CommitFlags, Goto, Release
  <2>15. CASE CommitFlagsFails(l)
    BY <2>15 DEF CommitFlagsFails, Goto, Release
  <2>16. CASE InlineCrash(l)
    BY <2>16 DEF InlineCrash, Goto, Terminate, SetRow, ExitCode, Release
  <2>17. CASE InlineOk(l)
    BY <2>17 DEF InlineOk, Goto, Release
  <2>18. CASE ProcessExits(l)
    BY <2>18 DEF ProcessExits
  <2>19. CASE OutlivesWindow(l)
    BY <2>19 DEF OutlivesWindow
  <2>20. CASE DeleteRow(l)
    BY <2>20 DEF DeleteRow
  <2> QED
    BY <1>1, <2>1, <2>2, <2>3, <2>4, <2>5, <2>6, <2>7, <2>8, <2>9, <2>10, <2>11, <2>12,
       <2>13, <2>14, <2>15, <2>16, <2>17, <2>18, <2>19, <2>20 DEF LaunchStep
<1>2. CASE MonitorStep
  <2>1. CASE MonitorReap
    BY <2>1 DEF MonitorReap, Reap, CleanupExited, Exited
  <2>2. CASE MonitorWrite
    BY <2>2 DEF MonitorWrite, WriteSessionEnds, EndOpenRows, ExitCode
  <2>3. CASE MonitorWriteFails
    BY <2>3 DEF MonitorWriteFails, LoseBatch
  <2>4. CASE MonitorPoll
    BY <2>4 DEF MonitorPoll, ToFlag, UnderReview
  <2>5. CASE MonitorPrune
    BY <2>5 DEF MonitorPrune
  <2> QED
    BY <1>2, <2>1, <2>2, <2>3, <2>4, <2>5 DEF MonitorStep
<1>3. ASSUME NEW s \in Stoppers, StopStep(s) PROVE TypeInv'
  <2>1. ASSUME NEW l \in Launches, NEW caller \in Users \cup {Admin}, StopMatch(s, l, caller)
        PROVE  TypeInv'
    BY <2>1 DEF StopMatch, Matches
  <2>2. CASE StopTerminate(s)
    <3> DEFINE StopType == [stage : {"idle", "matched", "terminated"},
                            caller : Users \cup {Admin},
                            row : Launches \cup {NoLaunch},
                            victim : Launches \cup {NoLaunch}]
    <3>1. stop[s] \in StopType
      OBVIOUS
    <3>2. \A r \in StopType : [r EXCEPT !.stage = "terminated"] \in StopType
      OBVIOUS
    <3>3. stop' = [stop EXCEPT ![s] = [stop[s] EXCEPT !.stage = "terminated"]]
      BY <2>2 DEF StopTerminate
    <3>4. stop' \in [Stoppers -> StopType]
      BY <3>1, <3>2, <3>3
    <3> QED
      BY <2>2, <3>4 DEF StopTerminate, Terminate
  <2>3. CASE StopCommit(s)
    BY <2>3 DEF StopCommit, SetRow, NoStop
  <2> QED
    BY <1>3, <2>1, <2>2, <2>3 DEF StopStep
<1>4. CASE ServerStep
  <2>1. CASE ShutdownReap
    BY <2>1 DEF ShutdownReap, CleanupExited, Exited, EndOpenRows, ExitCode
  <2>2. CASE ShutdownMark
    BY <2>2 DEF ShutdownMark, EndOpenRows
  <2>3. CASE ShutdownTerminate
    BY <2>3 DEF ShutdownTerminate, Forget, NoStop
  <2>4. CASE Crash
    BY <2>4 DEF Crash, Forget, NoStop
  <2>5. CASE Startup
    BY <2>5 DEF Startup, EndOpenRows
  <2> QED
    BY <1>4, <2>1, <2>2, <2>3, <2>4, <2>5 DEF ServerStep
<1>5. CASE UNCHANGED vars
  BY <1>5 DEF vars
<1> QED
  BY <1>1, <1>2, <1>3, <1>4, <1>5 DEF Next

LEMMA TypeInvAlways == Spec => []TypeInv
  BY TypeInvInit, TypeInvStep, PTL DEF Spec

\* Every value a step writes stays in its type: history codes only come from
\* processes that have exited, and victims of a stop are launches.
THEOREM TypeCorrect == Spec => []TypeOK
  BY TypeInvAlways, PTL DEF TypeInv

------------------------------------------------------------------------------
(* The launch guard *)

SlotInv == SlotExclusive /\ PendingExact

\* Giving slots up keeps the rest exclusive.
LEMMA FewerHolders ==
    ASSUME SlotExclusive, UNCHANGED profile, Holders' \subseteq Holders
    PROVE  SlotExclusive'
  BY DEF SlotExclusive, Conflict, HasScope, Scope

\* The finally of a request drops its own keys and nobody else's, because no other
\* request can have one of them.
LEMMA ReleaseExact ==
    ASSUME TypeOK, SlotInv, NEW l \in Reserved, Release(l), UNCHANGED profile,
           Reserved' = Reserved \ {l}
    PROVE  PendingExact'
<1>1. l \in Launches
  BY DEF Reserved
<1>2. \A k \in Reserved \ {l} : ~Conflict(l, k)
  BY DEF SlotInv, SlotExclusive, Holders
<1>3. pendingProfiles' = {profile'[k] : k \in Reserved'}
  BY <1>1, <1>2 DEF SlotInv, PendingExact, Release, Conflict
<1>4. pendingScopes' = {Scope(profile[k]) : k \in {r \in Reserved \ {l} : HasScope(profile[r])}}
  BY <1>1, <1>2 DEF SlotInv, PendingExact, Release, ScopeKeys, Conflict
<1> QED
  BY <1>3, <1>4 DEF PendingExact, Scope, HasScope

\* Steps that leave the markers alone leave the set of reserving requests alone.
LEMMA SameReservedExact ==
    ASSUME PendingExact, UNCHANGED <<profile, pendingProfiles, pendingScopes>>,
           Reserved' = Reserved
    PROVE  PendingExact'
  BY DEF PendingExact, HasScope, Scope

\* The test of try_reserve looks at every holder, registered or pending.
LEMMA FreeOfConflict ==
    ASSUME SlotInv, NEW l \in Launches, TryReserve(l), NEW k \in Holders
    PROVE  ~Conflict(l, k)
<1>0. Available(l)
  BY DEF TryReserve
<1>1. CASE k \in registry
  <2>1. profile[k] \in ActiveProfiles
    BY <1>1 DEF ActiveProfiles
  <2>2. HasScope(profile[k]) => Scope(profile[k]) \in ActiveScopes
    BY <1>1 DEF ActiveScopes
  <2> QED
    BY <1>0, <2>1, <2>2 DEF Available, Conflict
<1>2. CASE k \in Reserved
  <2>1. profile[k] \in pendingProfiles
    BY <1>2 DEF SlotInv, PendingExact
  <2>2. HasScope(profile[k]) => Scope(profile[k]) \in pendingScopes
    BY <1>2 DEF SlotInv, PendingExact
  <2> QED
    BY <1>0, <2>1, <2>2 DEF Available, Conflict
<1> QED
  BY <1>1, <1>2 DEF Holders

\* try_reserve admits a launch only against every holder, registered or pending.
LEMMA ReserveExclusive ==
    ASSUME TypeOK, SlotInv, NEW l \in Launches, TryReserve(l)
    PROVE  SlotInv'
<1>1. Reserved' = Reserved \cup {l} /\ registry' = registry /\ profile' = profile
  BY DEF TryReserve, Goto, Reserved, Reserving, TypeOK
<1>2. \A k \in Holders : ~Conflict(l, k)
  BY FreeOfConflict
<1>3. SlotExclusive'
  <2> SUFFICES ASSUME NEW i \in Holders', NEW k \in Holders', i # k
               PROVE  ~Conflict(i, k)'
    BY DEF SlotExclusive
  <2>1. ~Conflict(i, k)
    BY <1>1, <1>2 DEF SlotInv, SlotExclusive, Holders, Conflict
  <2> QED
    BY <1>1, <2>1 DEF Conflict, HasScope, Scope
<1>4. PendingExact'
  <2>1. pendingScopes' = {Scope(profile[k]) : k \in {r \in Reserved \cup {l} : HasScope(profile[r])}}
    BY DEF TryReserve, MarkPending, ScopeKeys, SlotInv, PendingExact
  <2>2. pendingProfiles' = {profile[k] : k \in Reserved \cup {l}}
    BY DEF TryReserve, MarkPending, SlotInv, PendingExact
  <2> QED
    BY <1>1, <2>1, <2>2 DEF PendingExact, HasScope, Scope
<1> QED
  BY <1>3, <1>4 DEF SlotInv

\* A step that neither reserves nor releases, and at most takes entries off the
\* registry.
LEMMA KeepsSlots ==
    ASSUME SlotInv, UNCHANGED <<profile, pendingProfiles, pendingScopes>>,
           Reserved' = Reserved, registry' \subseteq registry
    PROVE  SlotInv'
  BY FewerHolders, SameReservedExact DEF SlotInv, Holders

\* A request that leaves through its finally.
LEMMA EndsRequest ==
    ASSUME TypeOK, SlotInv, NEW l \in Reserved, Release(l), UNCHANGED profile,
           Reserved' = Reserved \ {l}, registry' \subseteq registry
    PROVE  SlotInv'
  BY FewerHolders, ReleaseExact DEF SlotInv, Holders

LEMMA SlotInvInit == Init => SlotInv
  BY DEF Init, RegistryInit, SlotInv, SlotExclusive, PendingExact, Holders, Reserved, Reserving

LEMMA SlotInvStep == TypeOK /\ SlotInv /\ [Next]_vars => SlotInv'
<1> SUFFICES ASSUME TypeOK, SlotInv, [Next]_vars PROVE SlotInv'
  OBVIOUS
<1>1. ASSUME NEW l \in Launches, LaunchStep(l) PROVE SlotInv'
  <2>1. CASE Request(l)
    BY <2>1, KeepsSlots DEF Request, Goto, Reap, CleanupExited, Reserved, Reserving, TypeOK
  <2>2. CASE RequestWrite(l)
    BY <2>2, KeepsSlots DEF RequestWrite, Goto, registryVars, Reserved, Reserving, TypeOK
  <2>3. CASE RequestWriteFails(l)
    BY <2>3, KeepsSlots DEF RequestWriteFails, Goto, registryVars, Reserved, Reserving, TypeOK
  <2>4. CASE Resolve(l)
    BY <2>4, KeepsSlots DEF Resolve, Goto, registryVars, Reserved, Reserving, TypeOK
  <2>5. CASE Refuse(l)
    BY <2>5, KeepsSlots DEF Refuse, Goto, registryVars, Reserved, Reserving, TypeOK
  <2>6. CASE InsertRow(l)
    BY <2>6, KeepsSlots DEF InsertRow, Goto, registryVars, Reserved, Reserving, TypeOK
  <2>7. CASE WorkerReturns(l)
    BY <2>7, KeepsSlots DEF WorkerReturns, registryVars, Reserved, Reserving, TypeOK
  <2>8. CASE LateReturn(l)
    BY <2>8, KeepsSlots DEF LateReturn, registryVars, Reserved, Reserving, TypeOK
  <2>9. CASE ProcessExits(l)
    BY <2>9, KeepsSlots DEF ProcessExits, registryVars, requestVars, Reserved, Reserving, TypeOK
  <2>10. CASE OutlivesWindow(l)
    BY <2>10, KeepsSlots DEF OutlivesWindow, registryVars, requestVars, Reserved, Reserving, TypeOK
  <2>11. CASE DeleteRow(l)
    BY <2>11, KeepsSlots DEF DeleteRow, registryVars, requestVars, Reserved, Reserving, TypeOK
  <2>12. CASE InsertRowFails(l)
    BY <2>12, EndsRequest DEF InsertRowFails, Goto, Reserved, Reserving, TypeOK
  <2>13. CASE WaitTimeout(l)
    BY <2>13, EndsRequest DEF WaitTimeout, Goto, Reserved, Reserving, TypeOK
  <2>14. CASE LaunchAborted(l)
    BY <2>14, EndsRequest DEF LaunchAborted, Goto, Reserved, Reserving, TypeOK
  <2>15. CASE CommitFlagsFails(l)
    BY <2>15, EndsRequest DEF CommitFlagsFails, Goto, Reserved, Reserving, TypeOK
  <2>16. CASE InlineCrash(l)
    BY <2>16, EndsRequest DEF InlineCrash, Goto, Terminate, Reserved, Reserving, TypeOK
  <2>17. CASE InlineOk(l)
    BY <2>17, EndsRequest DEF InlineOk, Goto, Reserved, Reserving, TypeOK
  <2>18. CASE TryReserve(l)
    BY <2>18, ReserveExclusive
  <2>19. CASE RegisterProcess(l)
    <3>1. Reserved' = Reserved /\ l \in Reserved /\ registry' = registry \cup {l}
      BY <2>19 DEF RegisterProcess, Goto, Register, Reserved, Reserving, TypeOK
    <3>2. UNCHANGED <<profile, pendingProfiles, pendingScopes>>
      BY <2>19 DEF RegisterProcess
    <3> QED
      BY <3>1, <3>2, FewerHolders, SameReservedExact DEF SlotInv, Holders
  <2>20. CASE CommitFlags(l)
    <3>1. l \in Reserved
      BY <2>20 DEF CommitFlags, Goto, Reserved, Reserving
    <3>2. CASE Kind[target[l]] = "environment"
      BY <2>20, <3>1, <3>2, EndsRequest DEF CommitFlags, Goto, Reserved, Reserving, TypeOK
    <3>3. CASE Kind[target[l]] # "environment"
      BY <2>20, <3>3, KeepsSlots DEF CommitFlags, Goto, Reserved, Reserving, TypeOK
    <3> QED
      BY <3>2, <3>3
  <2> QED
    BY <1>1, <2>1, <2>2, <2>3, <2>4, <2>5, <2>6, <2>7, <2>8, <2>9, <2>10, <2>11, <2>12, <2>13, <2>14, <2>15, <2>16, <2>17, <2>18, <2>19, <2>20
    DEF LaunchStep
<1>2. CASE MonitorStep
  <2>1. registry' \subseteq registry /\ UNCHANGED <<profile, pendingProfiles, pendingScopes, pc>>
    BY <1>2 DEF MonitorStep, MonitorReap, Reap, CleanupExited, MonitorWrite, MonitorWriteFails,
                MonitorPoll, MonitorPrune, registryVars, requestVars
  <2> QED
    BY <2>1, KeepsSlots DEF Reserved
<1>3. ASSUME NEW s \in Stoppers, StopStep(s) PROVE SlotInv'
  <2>1. registry' \subseteq registry /\ UNCHANGED <<profile, pendingProfiles, pendingScopes, pc>>
    BY <1>3 DEF StopStep, StopMatch, StopTerminate, Terminate, StopCommit, registryVars, requestVars
  <2> QED
    BY <2>1, KeepsSlots DEF Reserved
<1>4. CASE ServerStep
  <2>1. CASE ShutdownReap \/ ShutdownMark \/ Startup
    <3>1. registry' \subseteq registry /\ UNCHANGED <<profile, pendingProfiles, pendingScopes, pc>>
      BY <2>1 DEF ShutdownReap, CleanupExited, ShutdownMark, Startup, registryVars, requestVars
    <3> QED
      BY <3>1, KeepsSlots DEF Reserved
  <2>2. CASE ShutdownTerminate \/ Crash
    <3>1. registry' = {} /\ pendingProfiles' = {} /\ pendingScopes' = {} /\ Reserved' = {}
      BY <2>2 DEF ShutdownTerminate, Crash, Forget, Reserved, Reserving
    <3> QED
      BY <3>1 DEF SlotInv, SlotExclusive, PendingExact, Holders
  <2> QED
    BY <1>4, <2>1, <2>2 DEF ServerStep
<1>5. CASE UNCHANGED vars
  BY <1>5, KeepsSlots DEF vars, registryVars, requestVars, Reserved
<1> QED
  BY <1>1, <1>2, <1>3, <1>4, <1>5 DEF Next

LEMMA SlotInvAlways == Spec => []SlotInv
<1>1. Spec => []TypeOK
  BY TypeCorrect
<1> QED
  BY <1>1, SlotInvInit, SlotInvStep, PTL DEF Spec

\* No two launches of one profile, or of one emulator for one user, are ever both
\* reserved or registered, whatever is launched, stopped, timed out or crashes.
THEOREM SlotsAreExclusive == Spec => []SlotExclusive
  BY SlotInvAlways, PTL DEF SlotInv

\* The pending markers never leak and are never dropped early.
THEOREM PendingIsExact == Spec => []PendingExact
  BY SlotInvAlways, PTL DEF SlotInv

------------------------------------------------------------------------------
(* Running emulators *)

LEMMA RunningTrackedStep == TypeInv /\ RunningTracked /\ [Next]_vars => RunningTracked'
<1> SUFFICES ASSUME TypeInv, RunningTracked, [Next]_vars PROVE RunningTracked'
  OBVIOUS
<1> USE DEF TypeInv, TypeOK, RegistryTypeOK, WorkerInv, RunningTracked, registryVars,
        requestVars, BeforeReserve, ExitedStates
<1>1. ASSUME NEW l \in Launches, LaunchStep(l) PROVE RunningTracked'
  <2>1. CASE Request(l)
    BY <2>1 DEF Request, Goto, Reap, CleanupExited, Exited
  <2>2. CASE \/ RequestWrite(l) \/ RequestWriteFails(l) \/ Resolve(l) \/ TryReserve(l)
             \/ Refuse(l) \/ InsertRow(l) \/ InsertRowFails(l)
    BY <2>2 DEF RequestWrite, RequestWriteFails, Resolve, TryReserve, Refuse, InsertRow,
                InsertRowFails, Goto
  <2>3. CASE WorkerReturns(l) \/ LateReturn(l)
    BY <2>3 DEF WorkerReturns, LateReturn
  <2>4. CASE WaitTimeout(l)
    BY <2>4 DEF WaitTimeout, Goto
  <2>5. CASE LaunchAborted(l)
    BY <2>5 DEF LaunchAborted, Goto
  <2>6. CASE RegisterProcess(l)
    BY <2>6 DEF RegisterProcess, Goto, Register
  <2>7. CASE CommitFlags(l) \/ CommitFlagsFails(l) \/ InlineOk(l)
    BY <2>7 DEF CommitFlags, CommitFlagsFails, InlineOk, Goto
  <2>8. CASE InlineCrash(l)
    BY <2>8 DEF InlineCrash, Goto, Terminate
  <2>9. CASE ProcessExits(l) \/ OutlivesWindow(l) \/ DeleteRow(l)
    BY <2>9 DEF ProcessExits, OutlivesWindow, DeleteRow
  <2> QED
    BY <1>1, <2>1, <2>2, <2>3, <2>4, <2>5, <2>6, <2>7, <2>8, <2>9 DEF LaunchStep
<1>2. CASE MonitorStep
  BY <1>2 DEF MonitorStep, MonitorReap, Reap, CleanupExited, Exited, MonitorWrite,
              MonitorWriteFails, MonitorPoll, MonitorPrune
<1>3. ASSUME NEW s \in Stoppers, StopStep(s) PROVE RunningTracked'
  BY <1>3 DEF StopStep, StopMatch, StopTerminate, Terminate, StopCommit
<1>4. CASE ServerStep
  <2>1. CASE ShutdownReap
    BY <2>1 DEF ShutdownReap, CleanupExited, Exited
  <2>2. CASE ShutdownMark \/ Startup
    BY <2>2 DEF ShutdownMark, Startup
  <2>3. CASE ShutdownTerminate \/ Crash
    BY <2>3 DEF ShutdownTerminate, Crash, Forget
  <2> QED
    BY <1>4, <2>1, <2>2, <2>3 DEF ServerStep
<1>5. CASE UNCHANGED vars
  BY <1>5 DEF vars
<1> QED
  BY <1>1, <1>2, <1>3, <1>4, <1>5 DEF Next

\* A running emulator is registered, awaited by its request, or the late product
\* of a dispatch thread whose request timed out.
THEOREM RunningIsTracked == Spec => []RunningTracked
<1>1. Init => RunningTracked
  BY DEF Init, RegistryInit, RunningTracked
<1> QED
  BY <1>1, TypeInvAlways, RunningTrackedStep, PTL DEF Spec

\* Leaving aside abandoned dispatch threads, no two emulators run for one profile,
\* or for one emulator and user.
THEOREM OneEmulatorRuns == Spec => []OneEmulatorPerSlot
<1>1. SlotInv /\ RunningTracked => OneEmulatorPerSlot
  BY DEF SlotInv, SlotExclusive, RunningTracked, OneEmulatorPerSlot, Holders, Reserved, Reserving
<1> QED
  BY <1>1, SlotInvAlways, RunningIsTracked, PTL

\* Both guards of a launch at once: what is reserved or registered, and what runs.
THEOREM SlotsTakenOnce == Spec => []OneLaunchPerSlot
<1>1. SlotExclusive /\ OneEmulatorPerSlot => OneLaunchPerSlot
  BY DEF OneLaunchPerSlot
<1> QED
  BY <1>1, SlotsAreExclusive, OneEmulatorRuns, PTL

\* No marker outlives its request and no running emulator is unknown.
THEOREM SlotsKnown == Spec => []SlotsAreTracked
<1>1. PendingExact /\ RunningTracked => SlotsAreTracked
  BY DEF SlotsAreTracked
<1> QED
  BY <1>1, PendingIsExact, RunningIsTracked, PTL

------------------------------------------------------------------------------
(* The registry implements the exclusive slots *)

\* What is not a reservation only gives slots up, or spends turns.
LEMMA GivesUp ==
    ASSUME UNCHANGED profile, Holders' \subseteq Holders, Spent \subseteq Spent',
           Holders \subseteq Launches
    PROVE  Slots!Next
<1>1. UNCHANGED [l \in Launches |-> GuardKeys(l)]
  BY DEF GuardKeys, ScopeKeys, HasScope, Scope
<1>2. Holders \ Holders' \in SUBSET Launches /\ Spent' \ Spent \in SUBSET Launches
  BY DEF Spent
<1>3. Slots!GiveUp(Holders \ Holders', Spent' \ Spent)
  BY <1>1 DEF Slots!GiveUp
<1> QED
  BY <1>2, <1>3 DEF Slots!Next

LEMMA AcquiresSlot ==
    ASSUME TypeOK, SlotInv, NEW l \in Launches, TryReserve(l)
    PROVE  Slots!Acquire(l)
<1>1. Reserved' = Reserved \cup {l} /\ registry' = registry /\ profile' = profile
  BY DEF TryReserve, Goto, Reserved, Reserving, TypeOK
<1>2. l \notin Spent /\ Spent' = Spent \cup {l}
  BY DEF TryReserve, Goto, Spent, BeforeReserve, TypeOK, PCs
<1>3. Holders' = Holders \cup {l} /\ Holders \subseteq Launches
  BY <1>1 DEF Holders, Reserved, TypeOK, RegistryTypeOK
<1>4. \A k \in Holders : GuardKeys(k) \cap GuardKeys(l) = {}
  <2>1. ASSUME NEW k \in Holders PROVE ~Conflict(l, k)
    BY FreeOfConflict
  <2> QED
    BY <2>1 DEF Conflict, GuardKeys, ScopeKeys
<1>5. UNCHANGED [k \in Launches |-> GuardKeys(k)]
  BY <1>1 DEF GuardKeys, ScopeKeys, HasScope, Scope
<1> QED
  BY <1>2, <1>3, <1>4, <1>5 DEF Slots!Acquire

LEMMA SlotStep == TypeOK /\ SlotInv /\ [Next]_vars => [Slots!Next]_(Slots!slotVars)
<1> SUFFICES ASSUME TypeOK, SlotInv, [Next]_vars PROVE Slots!Next
  OBVIOUS
<1>0. Holders \subseteq Launches
  BY DEF Holders, Reserved, TypeOK, RegistryTypeOK
<1> USE DEF registryVars, requestVars, Holders, Reserved, Reserving, Spent, BeforeReserve,
            TypeOK, RegistryTypeOK, PCs
<1>1. ASSUME NEW l \in Launches, LaunchStep(l) PROVE Slots!Next
  <2>1. CASE TryReserve(l)
    BY <2>1, AcquiresSlot DEF Slots!Next
  <2>2. CASE Request(l) \/ RequestWrite(l) \/ RequestWriteFails(l) \/ Resolve(l) \/ Refuse(l)
    BY <1>0, <2>2, GivesUp DEF Request, RequestWrite, RequestWriteFails, Resolve, Refuse,
                               Goto, Reap, CleanupExited
  <2>3. CASE InsertRow(l) \/ InsertRowFails(l) \/ WorkerReturns(l) \/ WaitTimeout(l)
    BY <1>0, <2>3, GivesUp DEF InsertRow, InsertRowFails, WorkerReturns, WaitTimeout, Goto
  <2>4. CASE LateReturn(l) \/ LaunchAborted(l) \/ RegisterProcess(l)
    BY <1>0, <2>4, GivesUp DEF LateReturn, LaunchAborted, RegisterProcess, Goto, Register
  <2>5. CASE CommitFlags(l) \/ CommitFlagsFails(l) \/ InlineCrash(l) \/ InlineOk(l)
    BY <1>0, <2>5, GivesUp DEF CommitFlags, CommitFlagsFails, InlineCrash, InlineOk, Goto,
                               Terminate
  <2>6. CASE ProcessExits(l) \/ OutlivesWindow(l) \/ DeleteRow(l)
    BY <1>0, <2>6, GivesUp DEF ProcessExits, OutlivesWindow, DeleteRow
  <2> QED
    BY <1>1, <2>1, <2>2, <2>3, <2>4, <2>5, <2>6 DEF LaunchStep
<1>2. CASE MonitorStep
  BY <1>0, <1>2, GivesUp DEF MonitorStep, MonitorReap, Reap, CleanupExited, MonitorWrite,
                             MonitorWriteFails, MonitorPoll, MonitorPrune
<1>3. ASSUME NEW s \in Stoppers, StopStep(s) PROVE Slots!Next
  BY <1>0, <1>3, GivesUp DEF StopStep, StopMatch, StopTerminate, Terminate, StopCommit
<1>4. CASE ServerStep
  BY <1>0, <1>4, GivesUp DEF ServerStep, ShutdownReap, CleanupExited, ShutdownMark,
                             ShutdownTerminate, Crash, Forget, Startup
<1>5. CASE UNCHANGED vars
  BY <1>0, <1>5, GivesUp DEF vars
<1> QED
  BY <1>1, <1>2, <1>3, <1>4, <1>5 DEF Next

\* Registry and pending markers together behave as slots that are taken at most
\* once, held without a gap, and never shared.
THEOREM LaunchImplementsSlots == Spec => ImplementsSlots
<1>1. Init => Slots!Init
  BY DEF Init, RegistryInit, Slots!Init, Holders, Reserved, Reserving, Spent, BeforeReserve
<1> QED
  BY <1>1, SlotStep, TypeCorrect, SlotInvAlways, PTL DEF Spec, ImplementsSlots, Slots!Spec
------------------------------------------------------------------------------
(* The history of launches *)

\* A launch whose process has been registered.
Past == {"registered", "watching", "done"}

\* A row exists from the insertion on, and the registry only knows launches that
\* have come past it.
RowsFollow ==
    \A l \in Launches :
        /\ pc[l] \in BeforeReserve \cup {"reserved"} => history[l] = "none"
        /\ pc[l] \in {"dispatching", "registered", "watching"} => history[l] # "none"
        /\ l \in registry => pc[l] \in Past /\ history[l] # "none"

\* Only a reaper that is about to write holds a batch, of launches once registered.
BatchesHeld ==
    /\ \A l \in Launches : pc[l] # "writing" => batch[l] = {}
    /\ monitor # "writing" => batch[Monitor] = {}
    /\ \A a \in Launches \cup {Monitor} : \A l \in batch[a] : pc[l] \in Past

\* A stop call under way has a row and a victim of one launch or one collection,
\* and a victim it has terminated no longer runs.
StopsHeld ==
    \A s \in Stoppers : stop[s].stage # "idle" =>
        /\ stop[s].row \in Launches /\ stop[s].victim \in Launches
        /\ history[stop[s].row] # "none" /\ history[stop[s].victim] # "none"
        /\ pc[stop[s].victim] \in Past
        /\ stop[s].row # stop[s].victim => SameCollection(stop[s].row, stop[s].victim)
        /\ stop[s].stage = "terminated" =>
             proc[stop[s].victim] # "running" \/ worker[stop[s].victim] = "late"

\* Shutdown comes after the last request, ends the registered rows before it
\* terminates, and leaves nothing running.
ServerHeld ==
    /\ server # "up" => NoRequestInFlight
    /\ server = "marked" => \A l \in registry : history[l] # "open"
    /\ server = "down" => \A l \in Launches : proc[l] # "running"

\* Who will end an open row, its own request only until it has registered.
Closer(l) ==
    \/ pc[l] = "dispatching"
    \/ l \in registry
    \/ \E a \in Launches \cup {Monitor} : l \in batch[a]
    \/ BeingStopped(l)
    \/ server = "down"
OpenHeld ==
    \A l \in Launches : history[l] = "open" =>
        Closer(l) \/ SharedCollection(l) \/ l \in batch[NoLaunch]

\* While it is dispatched a row is ended only for another launch of the collection.
DispatchHeld ==
    \A l \in Launches : pc[l] = "dispatching" /\ history[l] \in EndCodes => SharedCollection(l)

HistoryInv ==
    RowsFollow /\ BatchesHeld /\ StopsHeld /\ ServerHeld /\ OpenHeld
        /\ DispatchHeld /\ EndedRowMeansExited

\* A write of session ends touches the open rows of its batch and nothing else.
LEMMA WriteEnds ==
    ASSUME TypeInv, NEW a \in Launches \cup {Monitor}, WriteSessionEnds(a)
    PROVE  /\ batch' = [batch EXCEPT ![a] = {}]
           /\ \A k \in Launches :
                IF k \in batch[a] /\ history[k] = "open"
                THEN history'[k] = proc[k] /\ history'[k] \in ExitedStates
                ELSE history'[k] = history[k]
  BY DEF WriteSessionEnds, EndOpenRows, ExitCode, TypeInv, BatchExited

\* What no step takes back: a row once inserted, a launch once registered, and a
\* process that has exited or was given up.
LEMMA HistoryLasts ==
    ASSUME TypeInv, [Next]_vars
    PROVE  /\ target' = target
           /\ \A k \in Launches :
                /\ history[k] # "none" => history'[k] # "none"
                /\ pc[k] \in Past => pc'[k] \in Past
                /\ pc[k] \in Past /\ (proc[k] # "running" \/ worker[k] = "late")
                     => proc'[k] # "running" \/ worker'[k] = "late"
<1> DEFINE Lasts(k) ==
      /\ history[k] # "none" => history'[k] # "none"
      /\ pc[k] \in Past => pc'[k] \in Past
      /\ pc[k] \in Past /\ (proc[k] # "running" \/ worker[k] = "late")
           => proc'[k] # "running" \/ worker'[k] = "late"
<1> USE DEF TypeInv, TypeOK, RegistryTypeOK, WorkerInv, registryVars, requestVars, Past,
        BeforeReserve, ExitedStates, RowStates, EndCodes
<1>1. ASSUME NEW l \in Launches, LaunchStep(l) PROVE target' = target /\ \A k \in Launches : Lasts(k)
  <2>0. CASE RequestWrite(l)
    BY <2>0, WriteEnds DEF RequestWrite, Goto
  <2>1. CASE \/ Request(l) \/ RequestWriteFails(l) \/ Resolve(l) \/ TryReserve(l) \/ Refuse(l)
    BY <2>1 DEF Request, RequestWriteFails, Resolve, TryReserve, Refuse, Goto, Reap
  <2>2. CASE InsertRow(l) \/ InsertRowFails(l)
    BY <2>2 DEF InsertRow, InsertRowFails, Goto
  <2>3. CASE WorkerReturns(l) \/ LateReturn(l)
    BY <2>3 DEF WorkerReturns, LateReturn
  <2>4. CASE WaitTimeout(l)
    BY <2>4 DEF WaitTimeout, Goto, SetRow
  <2>5. CASE LaunchAborted(l)
    BY <2>5 DEF LaunchAborted, Goto, SetRow
  <2>6. CASE RegisterProcess(l) \/ CommitFlags(l) \/ CommitFlagsFails(l) \/ InlineOk(l)
    BY <2>6 DEF RegisterProcess, CommitFlags, CommitFlagsFails, InlineOk, Goto
  <2>7. CASE InlineCrash(l)
    BY <2>7 DEF InlineCrash, Goto, SetRow, ExitCode, Terminate
  <2>8. CASE ProcessExits(l) \/ OutlivesWindow(l) \/ DeleteRow(l)
    BY <2>8 DEF ProcessExits, OutlivesWindow, DeleteRow
  <2> QED
    BY <1>1, <2>0, <2>1, <2>2, <2>3, <2>4, <2>5, <2>6, <2>7, <2>8 DEF LaunchStep
<1>2. CASE MonitorStep
  BY <1>2, WriteEnds DEF MonitorStep, MonitorReap, Reap, MonitorWrite, MonitorWriteFails,
                         MonitorPoll, MonitorPrune
<1>3. ASSUME NEW s \in Stoppers, StopStep(s) PROVE target' = target /\ \A k \in Launches : Lasts(k)
  BY <1>3 DEF StopStep, StopMatch, StopTerminate, Terminate, StopCommit, SetRow
<1>4. CASE ServerStep
  <2>1. CASE ShutdownReap \/ ShutdownMark \/ Startup
    BY <2>1 DEF ShutdownReap, ShutdownMark, Startup, EndOpenRows, ExitCode, Exited
  <2>2. CASE ShutdownTerminate \/ Crash
    BY <2>2 DEF ShutdownTerminate, Crash, Forget
  <2> QED
    BY <1>4, <2>1, <2>2 DEF ServerStep
<1>5. CASE UNCHANGED vars
  BY <1>5 DEF vars
<1> QED
  BY <1>1, <1>2, <1>3, <1>4, <1>5 DEF Next

LEMMA SharedLasts ==
    ASSUME TypeInv, [Next]_vars, NEW l \in Launches, SharedCollection(l)
    PROVE  SharedCollection(l)'
  BY HistoryLasts DEF SharedCollection, SameCollection

LEMMA HistoryInit == Init => HistoryInv
  BY LaunchAssumption
  DEF Init, RegistryInit, HistoryInv, RowsFollow, BatchesHeld, StopsHeld, ServerHeld, OpenHeld,
      DispatchHeld, EndedRowMeansExited, NoStop, Past, BeforeReserve, NoRequestInFlight, EndCodes

LEMMA RowsStep ==
    ASSUME TypeInv, RowsFollow, [Next]_vars
    PROVE  RowsFollow'
<1> USE DEF TypeInv, TypeOK, RegistryTypeOK, RowsFollow, registryVars, requestVars, Past,
        BeforeReserve, RowStates, EndCodes, HasRow
<1>1. ASSUME NEW l \in Launches, LaunchStep(l) PROVE RowsFollow'
  <2>1. CASE Request(l)
    BY <2>1 DEF Request, Goto, Reap, CleanupExited
  <2>2. CASE RequestWrite(l)
    BY <2>2, WriteEnds DEF RequestWrite, Goto, ExitedStates
  <2>3. CASE RequestWriteFails(l) \/ Resolve(l) \/ TryReserve(l) \/ Refuse(l)
    BY <2>3 DEF RequestWriteFails, Resolve, TryReserve, Refuse, Goto
  <2>4. CASE InsertRow(l) \/ InsertRowFails(l)
    BY <2>4 DEF InsertRow, InsertRowFails, Goto
  <2>5. CASE WorkerReturns(l) \/ LateReturn(l)
    BY <2>5 DEF WorkerReturns, LateReturn
  <2>6. CASE WaitTimeout(l) \/ LaunchAborted(l)
    BY <2>6 DEF WaitTimeout, LaunchAborted, Goto, SetRow
  <2>7. CASE RegisterProcess(l)
    BY <2>7 DEF RegisterProcess, Goto, Register
  <2>8. CASE CommitFlags(l) \/ CommitFlagsFails(l) \/ InlineOk(l)
    BY <2>8 DEF CommitFlags, CommitFlagsFails, InlineOk, Goto
  <2>9. CASE InlineCrash(l)
    BY <2>9 DEF InlineCrash, Goto, SetRow, ExitCode, Terminate, ExitedStates
  <2>10. CASE ProcessExits(l) \/ OutlivesWindow(l) \/ DeleteRow(l)
    BY <2>10 DEF ProcessExits, OutlivesWindow, DeleteRow
  <2> QED
    BY <1>1, <2>1, <2>2, <2>3, <2>4, <2>5, <2>6, <2>7, <2>8, <2>9, <2>10 DEF LaunchStep
<1>2. CASE MonitorStep
  <2>1. CASE MonitorReap
    BY <2>1 DEF MonitorReap, Reap, CleanupExited
  <2>2. CASE MonitorWrite
    BY <2>2, WriteEnds DEF MonitorWrite, ExitedStates
  <2>3. CASE MonitorWriteFails \/ MonitorPoll
    BY <2>3 DEF MonitorWriteFails, MonitorPoll
  <2>4. CASE MonitorPrune
    BY <2>4 DEF MonitorPrune
  <2> QED
    BY <1>2, <2>1, <2>2, <2>3, <2>4 DEF MonitorStep
<1>3. ASSUME NEW s \in Stoppers, StopStep(s) PROVE RowsFollow'
  BY <1>3 DEF StopStep, StopMatch, StopTerminate, Terminate, StopCommit, SetRow
<1>4. CASE ServerStep
  <2>1. CASE ShutdownReap \/ ShutdownMark \/ Startup
    BY <2>1, HistoryLasts DEF ShutdownReap, CleanupExited, ShutdownMark, Startup, EndOpenRows
  <2>2. CASE ShutdownTerminate \/ Crash
    BY <2>2 DEF ShutdownTerminate, Crash, Forget
  <2> QED
    BY <1>4, <2>1, <2>2 DEF ServerStep
<1>5. CASE UNCHANGED vars
  BY <1>5 DEF vars
<1> QED
  BY <1>1, <1>2, <1>3, <1>4, <1>5 DEF Next

LEMMA BatchesStep ==
    ASSUME TypeInv, RowsFollow, BatchesHeld, [Next]_vars
    PROVE  BatchesHeld'
<1>1. \A k \in Launches : pc[k] \in Past => pc'[k] \in Past
  BY HistoryLasts
<1> USE LaunchAssumption DEF TypeInv, TypeOK, RegistryTypeOK, BatchesHeld, registryVars, requestVars
<1>2. ASSUME NEW l \in Launches, LaunchStep(l) PROVE BatchesHeld'
  <2>1. CASE Request(l)
    BY <1>1, <2>1 DEF Request, Goto, Reap, Exited, RowsFollow
  <2>2. CASE RequestWrite(l) \/ RequestWriteFails(l)
    <3>1. pc' = [pc EXCEPT ![l] = pc'[l]] /\ pc'[l] # "writing" /\ monitor' = monitor
      BY <2>2 DEF RequestWrite, RequestWriteFails, Goto
    <3>2. \A a \in Launches \cup {Monitor} : batch'[a] = IF a = l THEN {} ELSE batch[a]
      <4>1. CASE RequestWrite(l)
        BY <4>1 DEF RequestWrite, WriteSessionEnds
      <4>2. CASE RequestWriteFails(l)
        <5>1. NoLaunch \notin Launches \cup {Monitor} /\ l \in Launches
          BY LaunchAssumption
        <5>2. batch' = [batch EXCEPT ![l] = {}, ![NoLaunch] = @ \cup batch[l]]
          BY <4>2 DEF RequestWriteFails, LoseBatch
        <5>3. batch \in [Launches \cup {Monitor, NoLaunch} -> SUBSET Launches]
          OBVIOUS
        <5> HIDE DEF TypeInv, TypeOK
        <5> QED
          BY <5>1, <5>2, <5>3
      <4> QED
        BY <2>2, <4>1, <4>2
    <3> QED
      BY <1>1, <3>1, <3>2
  <2>3. CASE \/ Resolve(l) \/ TryReserve(l) \/ Refuse(l) \/ InsertRow(l) \/ InsertRowFails(l)
             \/ WorkerReturns(l) \/ WaitTimeout(l) \/ LateReturn(l)
    BY <1>1, <2>3 DEF Resolve, TryReserve, Refuse, InsertRow, InsertRowFails, WorkerReturns,
                      WaitTimeout, LateReturn, Goto
  <2>4. CASE \/ LaunchAborted(l) \/ RegisterProcess(l) \/ CommitFlags(l) \/ CommitFlagsFails(l)
             \/ InlineCrash(l) \/ InlineOk(l)
             \/ ProcessExits(l) \/ OutlivesWindow(l) \/ DeleteRow(l)
    BY <1>1, <2>4 DEF LaunchAborted, RegisterProcess, CommitFlags, CommitFlagsFails, InlineCrash,
                      InlineOk, ProcessExits, OutlivesWindow, DeleteRow, Goto
  <2> QED
    BY <1>2, <2>1, <2>2, <2>3, <2>4 DEF LaunchStep
<1>3. CASE MonitorStep
  BY <1>3 DEF MonitorStep, MonitorReap, Reap, Exited, RowsFollow, MonitorWrite,
              WriteSessionEnds, MonitorWriteFails, LoseBatch, MonitorPoll, MonitorPrune
<1>4. ASSUME NEW s \in Stoppers, StopStep(s) PROVE BatchesHeld'
  BY <1>4 DEF StopStep, StopMatch, StopTerminate, StopCommit
<1>5. CASE ServerStep
  BY <1>1, <1>5 DEF ServerStep, ShutdownReap, ShutdownMark, ShutdownTerminate, Crash, Forget, Startup
<1>6. CASE UNCHANGED vars
  BY <1>6 DEF vars
<1> QED
  BY <1>2, <1>3, <1>4, <1>5, <1>6 DEF Next

LEMMA StopsStep ==
    ASSUME TypeInv, RunningTracked, RowsFollow, StopsHeld, [Next]_vars
    PROVE  StopsHeld'
<1> DEFINE Held(r) ==
      /\ r.row \in Launches /\ r.victim \in Launches
      /\ history[r.row] # "none" /\ history[r.victim] # "none"
      /\ pc[r.victim] \in Past
      /\ r.row # r.victim => SameCollection(r.row, r.victim)
      /\ r.stage = "terminated" => proc[r.victim] # "running" \/ worker[r.victim] = "late"
\* A call that no step of the stop route touches stays as it is.
<1>1. ASSUME NEW s \in Stoppers, stop'[s] = stop[s] \/ stop'[s].stage = "idle",
             stop'[s].stage # "idle"
      PROVE  Held(stop[s])'
  <2>1. stop'[s] = stop[s] /\ Held(stop[s])
    BY <1>1 DEF StopsHeld
  <2>2. SameCollection(stop[s].row, stop[s].victim) => SameCollection(stop[s].row, stop[s].victim)'
    BY <2>1, HistoryLasts DEF SameCollection
  <2> QED
    BY <2>1, <2>2, HistoryLasts
<1>2. ASSUME NEW s \in Stoppers, NEW l \in Launches, NEW caller \in Users \cup {Admin},
             StopMatch(s, l, caller)
      PROVE  StopsHeld'
  <2>1. PICK victim \in Matches(l) :
          stop' = [stop EXCEPT ![s] = [stage |-> "matched", caller |-> caller,
                                       row |-> l, victim |-> victim]]
    BY <1>2 DEF StopMatch
  <2>2. victim \in Launches /\ pc[victim] \in Past /\ history[victim] # "none"
    BY <2>1 DEF Matches, RowsFollow, TypeInv, TypeOK, RegistryTypeOK
  <2>3. history[l] # "none"
    BY <1>2 DEF StopMatch, HasRow, RowStates, EndCodes
  <2>4. l # victim => SameCollection(l, victim)
    BY <2>1 DEF Matches
  <2>5. stop'[s].stage = "matched" /\ stop'[s].row = l /\ stop'[s].victim = victim
    BY <2>1 DEF TypeInv, TypeOK
  <2>6. UNCHANGED <<history, pc, target>>
    BY <1>2 DEF StopMatch, requestVars
  <2>7. Held(stop[s])'
    BY <2>2, <2>3, <2>4, <2>5, <2>6 DEF SameCollection
  <2>8. \A r \in Stoppers \ {s} : stop'[r] = stop[r]
    BY <2>1 DEF TypeInv, TypeOK
  <2> QED
    BY <1>1, <2>7, <2>8 DEF StopsHeld
<1>3. ASSUME NEW s \in Stoppers, StopTerminate(s) PROVE StopsHeld'
  <2>1. stop[s].stage = "matched" /\ stop' = [stop EXCEPT ![s].stage = "terminated"]
    BY <1>3 DEF StopTerminate
  <2>2. Held(stop[s])
    BY <2>1 DEF StopsHeld
  <2>3. /\ stop'[s].row = stop[s].row /\ stop'[s].victim = stop[s].victim
        /\ \A r \in Stoppers \ {s} : stop'[r] = stop[r]
    BY <2>1 DEF TypeInv, TypeOK
  <2>4. SameCollection(stop[s].row, stop[s].victim) => SameCollection(stop[s].row, stop[s].victim)'
    BY <2>3, HistoryLasts DEF SameCollection
  <2>5. proc'[stop[s].victim] # "running" \/ worker'[stop[s].victim] = "late"
    <3>1. CASE proc[stop[s].victim] # "running" \/ worker[stop[s].victim] = "late"
      BY <2>2, <3>1, HistoryLasts
    <3>2. CASE stop[s].victim \in registry
      BY <1>3, <2>2, <3>2 DEF StopTerminate, Terminate
    <3>3. CASE stop[s].victim \notin registry
      BY <2>2, <3>3, <3>1 DEF RunningTracked, Past
    <3> QED
      BY <3>1, <3>2, <3>3
  <2>6. Held(stop[s])'
    BY <2>2, <2>3, <2>4, <2>5, HistoryLasts
  <2> QED
    BY <1>1, <2>3, <2>6 DEF StopsHeld
<1>4. ASSUME NEW s \in Stoppers, StopCommit(s) PROVE StopsHeld'
  <2>1. stop' = [stop EXCEPT ![s] = NoStop]
    BY <1>4 DEF StopCommit
  <2>2. \A r \in Stoppers : stop'[r] = stop[r] \/ stop'[r].stage = "idle"
    BY <2>1 DEF NoStop, TypeInv, TypeOK
  <2> QED
    BY <1>1, <2>2 DEF StopsHeld
<1>5. CASE UNCHANGED stop
  BY <1>1, <1>5 DEF StopsHeld
<1>6. CASE \A s \in Stoppers : stop'[s].stage = "idle"
  BY <1>6 DEF StopsHeld
<1>7. ASSUME NEW l \in Launches, LaunchStep(l) PROVE UNCHANGED stop
  BY <1>7 DEF LaunchStep, Request, RequestWrite, RequestWriteFails, Resolve, TryReserve, Refuse,
              InsertRow, InsertRowFails, WorkerReturns, WaitTimeout, LateReturn, LaunchAborted,
              RegisterProcess, CommitFlags, CommitFlagsFails, InlineCrash, InlineOk,
              ProcessExits, OutlivesWindow, DeleteRow
<1>8. CASE MonitorStep
  BY <1>5, <1>8 DEF MonitorStep, MonitorReap, MonitorWrite, MonitorWriteFails, MonitorPoll, MonitorPrune
<1>9. CASE ShutdownReap \/ ShutdownMark \/ Startup
  BY <1>5, <1>9 DEF ShutdownReap, ShutdownMark, Startup
<1>10. CASE ShutdownTerminate \/ Crash
  BY <1>6, <1>10 DEF ShutdownTerminate, Crash, Forget, NoStop
<1>11. CASE UNCHANGED vars
  BY <1>5, <1>11 DEF vars
<1> QED
  BY <1>2, <1>3, <1>4, <1>5, <1>7, <1>8, <1>9, <1>10, <1>11 DEF Next, StopStep, ServerStep

\* Once the requests are drained nobody but the last write of the monitor, exits
\* and abandoned threads is left to act.
LEMMA ServerStepHeld ==
    ASSUME TypeInv, ServerHeld, [Next]_vars
    PROVE  ServerHeld'
<1> USE DEF ServerHeld, TypeInv, TypeOK, RegistryTypeOK, registryVars, requestVars, NoRequestInFlight
<1>1. ASSUME NEW l \in Launches, LaunchStep(l) PROVE ServerHeld'
  <2>1. CASE server = "up"
    BY <1>1, <2>1 DEF LaunchStep, Request, RequestWrite, RequestWriteFails, Resolve, TryReserve,
              Refuse, InsertRow, InsertRowFails, WorkerReturns, WaitTimeout, LateReturn,
              LaunchAborted, RegisterProcess, CommitFlags, CommitFlagsFails, InlineCrash, InlineOk,
              ProcessExits, OutlivesWindow, DeleteRow
  <2>2. CASE server # "up"
    <3>1. LateReturn(l) \/ ProcessExits(l) \/ OutlivesWindow(l)
      BY <1>1, <2>2 DEF LaunchStep, Request, RequestWrite, RequestWriteFails, Resolve, TryReserve,
              Refuse, InsertRow, InsertRowFails, WorkerReturns, WaitTimeout,
              LaunchAborted, RegisterProcess, CommitFlags, CommitFlagsFails, InlineCrash, InlineOk,
              DeleteRow
    <3> QED
      BY <3>1 DEF LateReturn, ProcessExits, OutlivesWindow
  <2> QED
    BY <2>1, <2>2
<1>2. CASE MonitorStep
  <2>1. CASE MonitorWrite
    <3>1. WriteSessionEnds(Monitor) /\ UNCHANGED <<server, registry, proc, pc, stop>>
      BY <2>1 DEF MonitorWrite
    <3>2. \A k \in Launches : history'[k] = "open" => history[k] = "open"
      BY <3>1, WriteEnds DEF ExitedStates
    <3> QED
      BY <3>1, <3>2
  <2>2. CASE MonitorReap \/ MonitorWriteFails \/ MonitorPoll \/ MonitorPrune
    BY <2>2 DEF MonitorReap, Reap, CleanupExited, MonitorWriteFails, MonitorPoll, MonitorPrune
  <2> QED
    BY <1>2, <2>1, <2>2 DEF MonitorStep
<1>3. ASSUME NEW s \in Stoppers, StopStep(s) PROVE ServerHeld'
  BY <1>3 DEF StopStep, StopMatch, StopTerminate, StopCommit
<1>4. CASE ServerStep
  <2>1. CASE ShutdownReap
    BY <2>1 DEF ShutdownReap
  <2>2. CASE ShutdownMark
    BY <2>2 DEF ShutdownMark, EndOpenRows
  <2>3. CASE ShutdownTerminate \/ Crash
    BY <2>3 DEF ShutdownTerminate, Crash, Forget, NoStop
  <2>4. CASE Startup
    BY <2>4 DEF Startup
  <2> QED
    BY <1>4, <2>1, <2>2, <2>3, <2>4 DEF ServerStep
<1>5. CASE UNCHANGED vars
  BY <1>5 DEF vars
<1> QED
  BY <1>1, <1>2, <1>3, <1>4, <1>5 DEF Next

\* What a failed write has lost stays lost until the backend goes down.
LEMMA LostLasts ==
    ASSUME TypeInv, [Next]_vars, server' # "down"
    PROVE  batch[NoLaunch] \subseteq batch'[NoLaunch]
<1> USE LaunchAssumption DEF TypeInv, TypeOK
<1>1. ASSUME NEW l \in Launches, LaunchStep(l) PROVE batch[NoLaunch] \subseteq batch'[NoLaunch]
  <2>1. CASE Request(l) \/ RequestWrite(l) \/ RequestWriteFails(l)
    BY <2>1 DEF Request, Reap, RequestWrite, WriteSessionEnds, RequestWriteFails, LoseBatch
  <2>2. CASE ~(Request(l) \/ RequestWrite(l) \/ RequestWriteFails(l))
    BY <1>1, <2>2 DEF LaunchStep, Resolve, TryReserve, Refuse, InsertRow, InsertRowFails, WorkerReturns,
              WaitTimeout, LateReturn, LaunchAborted, RegisterProcess, CommitFlags, CommitFlagsFails,
              InlineCrash, InlineOk, ProcessExits, OutlivesWindow, DeleteRow
  <2> QED
    BY <2>1, <2>2
<1>2. CASE MonitorStep
  BY <1>2 DEF MonitorStep, MonitorReap, Reap, MonitorWrite, WriteSessionEnds, MonitorWriteFails,
              LoseBatch, MonitorPoll, MonitorPrune
<1>3. ASSUME NEW s \in Stoppers, StopStep(s) PROVE batch[NoLaunch] \subseteq batch'[NoLaunch]
  BY <1>3 DEF StopStep, StopMatch, StopTerminate, StopCommit
<1>4. CASE ServerStep
  BY <1>4 DEF ServerStep, ShutdownReap, ShutdownMark, ShutdownTerminate, Crash, Startup
<1>5. CASE UNCHANGED vars
  BY <1>5 DEF vars
<1> QED
  BY <1>1, <1>2, <1>3, <1>4, <1>5 DEF Next

\* Whoever stops being the closer of an open row ends it, or hands it on: a request
\* to the registry, the registry to a reaper's batch or to a stop call.
LEMMA OpenStep ==
    ASSUME TypeInv, RowsFollow, BatchesHeld, StopsHeld, ServerHeld, OpenHeld, [Next]_vars
    PROVE  OpenHeld'
<1> SUFFICES ASSUME NEW k \in Launches, history'[k] = "open", ~SharedCollection(k)',
                    k \notin batch'[NoLaunch], server' # "down"
             PROVE  Closer(k)'
  BY DEF OpenHeld, Closer
<1>0. ~SharedCollection(k) /\ k \notin batch[NoLaunch]
  BY SharedLasts, LostLasts
<1>1. history[k] = "open" => Closer(k)
  BY <1>0 DEF OpenHeld
<1> USE DEF TypeInv, TypeOK, RegistryTypeOK, registryVars, requestVars, RowStates, EndCodes
\* Nobody who could close the row is lost.
<1>2. ASSUME history[k] = "open", pc[k] = "dispatching" => pc'[k] = "dispatching",
             k \in registry => k \in registry',
             \A a \in Launches \cup {Monitor} : k \in batch[a] => k \in batch'[a],
             stop' = stop, server = "down" => server' = "down"
      PROVE  Closer(k)'
  BY <1>1, <1>2 DEF Closer, BeingStopped
<1>3. ASSUME NEW a \in Launches \cup {Monitor}, Reap(a), batch[a] = {}, UNCHANGED <<pc, stop, server>>,
             history' = history
      PROVE  Closer(k)'
  <2>1. batch' = [batch EXCEPT ![a] = Exited] /\ registry' = registry \ Exited
    BY <1>3 DEF Reap, CleanupExited
  <2> QED
    BY <1>1, <1>3, <2>1 DEF Closer, BeingStopped
<1> HIDE DEF TypeInv
<1>4. ASSUME NEW a \in Launches \cup {Monitor}, WriteSessionEnds(a),
             UNCHANGED <<registry, stop, server>>, pc[k] = "dispatching" => pc'[k] = "dispatching"
      PROVE  Closer(k)'
  <2>1. history[k] = "open" /\ k \notin batch[a]
    BY <1>4, WriteEnds DEF ExitedStates
  <2>2. batch' = [batch EXCEPT ![a] = {}]
    BY <1>4, WriteEnds
  <2> QED
    BY <1>2, <1>4, <2>1, <2>2 DEF TypeInv
<1> USE DEF TypeInv
<1>5. ASSUME NEW l \in Launches, LaunchStep(l) PROVE Closer(k)'
  <2>1. CASE Request(l)
    <3>1. batch[l] = {} /\ Reap(l) /\ UNCHANGED <<stop, server, history>>
      BY <2>1 DEF Request, Goto, BatchesHeld
    <3>2. batch' = [batch EXCEPT ![l] = Exited] /\ registry' = registry \ Exited
      BY <3>1 DEF Reap, CleanupExited
    <3>3. pc[k] = "dispatching" => pc'[k] = "dispatching"
      BY <2>1 DEF Request, Goto
    <3> QED
      BY <1>1, <3>1, <3>2, <3>3 DEF Closer, BeingStopped
  <2>2. CASE RequestWrite(l)
    BY <1>4, <2>2 DEF RequestWrite, Goto
  <2>11. CASE RequestWriteFails(l)
    <3>1. \A a \in Launches \cup {Monitor} : k \in batch[a] => k \in batch'[a]
      BY <2>11, LaunchAssumption DEF RequestWriteFails, LoseBatch
    <3> QED
      BY <1>2, <2>11, <3>1 DEF RequestWriteFails, Goto
  <2>12. CASE InsertRowFails(l)
    BY <1>2, <2>12 DEF InsertRowFails, Goto
  <2>3. CASE Resolve(l) \/ TryReserve(l) \/ Refuse(l)
    BY <1>2, <2>3 DEF Resolve, TryReserve, Refuse, Goto
  <2>4. CASE InsertRow(l)
    <3>1. CASE k = l
      BY <2>4, <3>1 DEF InsertRow, Goto, Closer
    <3>2. CASE k # l
      BY <1>2, <2>4, <3>2 DEF InsertRow, Goto
    <3> QED
      BY <3>1, <3>2
  <2>5. CASE WorkerReturns(l) \/ LateReturn(l)
    BY <1>2, <2>5 DEF WorkerReturns, LateReturn
  <2>6. CASE WaitTimeout(l) \/ LaunchAborted(l)
    <3>1. history[k] = "open" /\ k # l
      BY <2>6 DEF WaitTimeout, LaunchAborted, SetRow, HasRow
    <3> QED
      BY <1>2, <2>6, <3>1 DEF WaitTimeout, LaunchAborted, Goto
  <2>7. CASE RegisterProcess(l)
    <3>1. CASE k = l
      BY <2>7, <3>1 DEF RegisterProcess, Register, Closer
    <3>2. CASE k # l
      BY <1>2, <2>7, <3>2 DEF RegisterProcess, Goto, Register
    <3> QED
      BY <3>1, <3>2
  <2>8. CASE CommitFlags(l) \/ CommitFlagsFails(l) \/ InlineOk(l)
    BY <1>2, <2>8 DEF CommitFlags, CommitFlagsFails, InlineOk, Goto
  <2>9. CASE InlineCrash(l)
    <3>1. history[k] = "open" /\ k # l
      BY <2>9 DEF InlineCrash, SetRow, HasRow, ExitCode
    <3> QED
      BY <1>2, <2>9, <3>1 DEF InlineCrash, Goto, Terminate
  <2>10. CASE ProcessExits(l) \/ OutlivesWindow(l) \/ DeleteRow(l)
    BY <1>2, <2>10 DEF ProcessExits, OutlivesWindow, DeleteRow
  <2> QED
    BY <1>5, <2>1, <2>2, <2>3, <2>4, <2>5, <2>6, <2>7, <2>8, <2>9, <2>10, <2>11, <2>12
    DEF LaunchStep
<1>6. CASE MonitorStep
  <2>1. CASE MonitorReap
    BY <1>3, <2>1 DEF MonitorReap, BatchesHeld
  <2>2. CASE MonitorWrite
    BY <1>4, <2>2 DEF MonitorWrite
  <2>3. CASE MonitorPoll \/ MonitorPrune
    BY <1>2, <2>3 DEF MonitorPoll, MonitorPrune
  <2>4. CASE MonitorWriteFails
    <3>1. \A a \in Launches \cup {Monitor} : k \in batch[a] => k \in batch'[a]
      BY <2>4, LaunchAssumption DEF MonitorWriteFails, LoseBatch
    <3> QED
      BY <1>2, <2>4, <3>1 DEF MonitorWriteFails
  <2> QED
    BY <1>6, <2>1, <2>2, <2>3, <2>4 DEF MonitorStep
<1>7. ASSUME NEW s \in Stoppers, StopStep(s) PROVE Closer(k)'
  <2>1. ASSUME NEW l \in Launches, NEW caller \in Users \cup {Admin}, StopMatch(s, l, caller)
        PROVE  Closer(k)'
    <3>1. PICK r : stop' = [stop EXCEPT ![s] = r]
      BY <2>1 DEF StopMatch
    <3>2. BeingStopped(k) => BeingStopped(k)'
      BY <2>1, <3>1 DEF StopMatch, BeingStopped
    <3> QED
      BY <1>1, <2>1, <3>2 DEF StopMatch, Closer
  <2>2. CASE StopTerminate(s)
    <3>1. /\ stop'[s].stage = "terminated" /\ stop'[s].victim = stop[s].victim
          /\ \A r \in Stoppers \ {s} : stop'[r] = stop[r]
      BY <2>2 DEF StopTerminate
    <3>2. BeingStopped(k) \/ k = stop[s].victim => BeingStopped(k)'
      BY <3>1 DEF BeingStopped
    <3>3. registry' = registry \ {stop[s].victim}
      BY <2>2 DEF StopTerminate, Terminate
    <3> QED
      BY <1>1, <2>2, <3>2, <3>3 DEF StopTerminate, Closer
  <2>3. CASE StopCommit(s)
    <3>1. history[k] = "open" /\ k # stop[s].row /\ stop' = [stop EXCEPT ![s] = NoStop]
      BY <2>3 DEF StopCommit, SetRow, HasRow
    <3>2. k # stop[s].victim
      BY <1>0, <2>3, <3>1 DEF StopCommit, StopsHeld, SharedCollection
    <3>3. BeingStopped(k) => BeingStopped(k)'
      BY <3>1, <3>2 DEF BeingStopped
    <3> QED
      BY <1>1, <2>3, <3>1, <3>3 DEF StopCommit, Closer
  <2> QED
    BY <1>7, <2>1, <2>2, <2>3 DEF StopStep
<1>8. CASE ServerStep
  <2>1. CASE ShutdownReap
    <3>1. history[k] = "open" /\ k \notin Exited
      BY <2>1 DEF ShutdownReap, EndOpenRows, ExitCode, Exited, ExitedStates
    <3> QED
      BY <1>2, <2>1, <3>1 DEF ShutdownReap, CleanupExited
  <2>2. CASE ShutdownMark
    <3>1. history[k] = "open"
      BY <2>2 DEF ShutdownMark, EndOpenRows
    <3> QED
      BY <1>2, <2>2, <3>1 DEF ShutdownMark
  <2>3. CASE ShutdownTerminate \/ Crash
    BY <2>3 DEF ShutdownTerminate, Crash, Closer
  <2>4. CASE Startup
    BY <2>4 DEF Startup, EndOpenRows
  <2> QED
    BY <1>8, <2>1, <2>2, <2>3, <2>4 DEF ServerStep
<1>9. CASE UNCHANGED vars
  BY <1>2, <1>9 DEF vars
<1> QED
  BY <1>5, <1>6, <1>7, <1>8, <1>9 DEF Next

LEMMA DispatchStep ==
    ASSUME TypeInv, BatchesHeld, StopsHeld, ServerHeld, DispatchHeld, [Next]_vars
    PROVE  DispatchHeld'
<1> SUFFICES ASSUME NEW k \in Launches, pc'[k] = "dispatching", history'[k] \in EndCodes,
                    ~SharedCollection(k)'
             PROVE  FALSE
  BY DEF DispatchHeld
<1>0. ~SharedCollection(k)
  BY SharedLasts
<1> USE DEF TypeInv, TypeOK, RegistryTypeOK, registryVars, requestVars, EndCodes, Past
<1>1. ~(pc[k] = "dispatching" /\ history'[k] = history[k])
  BY <1>0 DEF DispatchHeld
<1>2. ASSUME NEW a \in Launches \cup {Monitor}, WriteSessionEnds(a), pc[k] = "dispatching"
      PROVE  FALSE
  <2>1. k \notin batch[a]
    BY <1>2 DEF BatchesHeld
  <2> QED
    BY <1>1, <1>2, <2>1, WriteEnds
<1>3. ASSUME NEW l \in Launches, LaunchStep(l) PROVE FALSE
  <2>1. CASE RequestWrite(l)
    BY <1>2, <2>1 DEF RequestWrite, Goto
  <2>2. CASE InsertRow(l)
    BY <1>1, <2>2 DEF InsertRow, Goto
  <2>3. CASE WaitTimeout(l) \/ LaunchAborted(l) \/ InlineCrash(l)
    BY <1>1, <2>3 DEF WaitTimeout, LaunchAborted, InlineCrash, Goto, SetRow
  <2>4. CASE DeleteRow(l)
    BY <1>1, <2>4 DEF DeleteRow
  <2>5. CASE \/ Request(l) \/ RequestWriteFails(l) \/ Resolve(l) \/ TryReserve(l) \/ Refuse(l)
             \/ InsertRowFails(l) \/ WorkerReturns(l) \/ LateReturn(l)
    BY <1>1, <2>5 DEF Request, RequestWriteFails, Resolve, TryReserve, Refuse, InsertRowFails,
                      WorkerReturns, LateReturn, Goto
  <2>6. CASE \/ RegisterProcess(l) \/ CommitFlags(l) \/ CommitFlagsFails(l) \/ InlineOk(l)
             \/ ProcessExits(l) \/ OutlivesWindow(l)
    BY <1>1, <2>6 DEF RegisterProcess, CommitFlags, CommitFlagsFails, InlineOk, ProcessExits,
                      OutlivesWindow, Goto
  <2> QED
    BY <1>3, <2>1, <2>2, <2>3, <2>4, <2>5, <2>6 DEF LaunchStep
<1>4. CASE MonitorStep
  BY <1>1, <1>2, <1>4 DEF MonitorStep, MonitorReap, MonitorWrite, MonitorWriteFails, MonitorPoll,
                          MonitorPrune
<1>5. ASSUME NEW s \in Stoppers, StopStep(s) PROVE FALSE
  <2>1. pc[k] = "dispatching" /\ history'[k] # history[k]
    BY <1>1, <1>5 DEF StopStep, StopMatch, StopTerminate, StopCommit
  <2>2. StopCommit(s)
    BY <1>5, <2>1 DEF StopStep, StopMatch, StopTerminate
  <2>3. stop[s].row = k /\ stop[s].stage = "terminated"
    BY <2>1, <2>2 DEF StopCommit, SetRow
  <2>4. stop[s].victim # k
    BY <2>1, <2>3 DEF StopsHeld
  <2>5. SameCollection(stop[s].victim, k)
    BY <2>3, <2>4 DEF StopsHeld, SameCollection
  <2> QED
    BY <1>0, <2>3, <2>4, <2>5 DEF StopsHeld, SharedCollection
<1>6. CASE ServerStep
  BY <1>6 DEF ServerStep, ShutdownReap, ShutdownMark, ShutdownTerminate, Crash, Forget, Startup,
              ServerHeld, NoRequestInFlight
<1>7. CASE UNCHANGED vars
  BY <1>1, <1>7 DEF vars
<1> QED
  BY <1>3, <1>4, <1>5, <1>6, <1>7 DEF Next

\* A row is ended by who has seen the process exit, has killed it, or has made sure
\* that there is none.
LEMMA EndedStep ==
    ASSUME TypeInv, StopsHeld, ServerHeld, DispatchHeld, EndedRowMeansExited, [Next]_vars
    PROVE  EndedRowMeansExited'
<1> SUFFICES ASSUME NEW k \in Launches, history'[k] \in EndCodes, proc'[k] = "running",
                    worker'[k] # "late", server' # "marked", ~SharedCollection(k)'
             PROVE  FALSE
  BY DEF EndedRowMeansExited
<1>0. ~SharedCollection(k)
  BY SharedLasts
<1> USE DEF TypeInv, TypeOK, RegistryTypeOK, WorkerInv, registryVars, requestVars, EndCodes,
            ExitedStates
<1>1. ~(/\ proc[k] = "running" /\ history'[k] = history[k] /\ worker[k] # "late"
        /\ server # "marked")
  BY <1>0 DEF EndedRowMeansExited
<1>2. ~(\E a \in Launches \cup {Monitor} :
          WriteSessionEnds(a) /\ UNCHANGED <<proc, worker>> /\ server # "marked")
  <2> SUFFICES ASSUME NEW a \in Launches \cup {Monitor}, WriteSessionEnds(a),
                      UNCHANGED <<proc, worker>>, server # "marked"
               PROVE  FALSE
    OBVIOUS
  <2>1. history'[k] = history[k]
    BY WriteEnds
  <2> QED
    BY <1>1, <2>1
<1>3. ASSUME NEW l \in Launches, LaunchStep(l) PROVE FALSE
  <2>1. CASE RequestWrite(l)
    BY <1>2, <2>1 DEF RequestWrite
  <2>2. CASE InsertRow(l)
    BY <1>1, <2>2 DEF InsertRow, Goto, BeforeReserve
  <2>3. CASE WorkerReturns(l)
    <3>1. CASE k = l
      BY <1>0, <2>3, <3>1 DEF WorkerReturns, DispatchHeld
    <3>2. CASE k # l
      BY <1>1, <2>3, <3>2 DEF WorkerReturns
    <3> QED
      BY <3>1, <3>2
  <2>4. CASE LateReturn(l)
    BY <1>1, <2>4 DEF LateReturn
  <2>5. CASE WaitTimeout(l)
    BY <1>1, <2>5 DEF WaitTimeout, SetRow
  <2>6. CASE LaunchAborted(l)
    BY <1>1, <2>6 DEF LaunchAborted, SetRow
  <2>7. CASE InlineCrash(l)
    <3>1. proc[k] = "running" /\ k # l
      BY <2>7 DEF InlineCrash, Terminate
    <3> QED
      BY <1>1, <2>7, <3>1 DEF InlineCrash, SetRow
  <2>8. CASE DeleteRow(l)
    BY <1>1, <2>8 DEF DeleteRow
  <2>9. CASE \/ Request(l) \/ RequestWriteFails(l) \/ Resolve(l) \/ TryReserve(l) \/ Refuse(l)
             \/ InsertRowFails(l)
    BY <1>1, <2>9 DEF Request, Reap, RequestWriteFails, Resolve, TryReserve, Refuse, InsertRowFails
  <2>10. CASE \/ RegisterProcess(l) \/ CommitFlags(l) \/ CommitFlagsFails(l) \/ InlineOk(l)
              \/ ProcessExits(l) \/ OutlivesWindow(l)
    BY <1>1, <2>10 DEF RegisterProcess, CommitFlags, CommitFlagsFails, InlineOk, ProcessExits,
                       OutlivesWindow
  <2> QED
    BY <1>3, <2>1, <2>2, <2>3, <2>4, <2>5, <2>6, <2>7, <2>8, <2>9, <2>10 DEF LaunchStep
<1>4. CASE MonitorStep
  BY <1>1, <1>2, <1>4 DEF MonitorStep, MonitorReap, Reap, MonitorWrite, MonitorWriteFails,
                          MonitorPoll, MonitorPrune
<1>5. ASSUME NEW s \in Stoppers, StopStep(s) PROVE FALSE
  <2>1. CASE StopCommit(s)
    <3>1. proc[k] = "running" /\ worker[k] # "late" /\ history'[k] # history[k]
      BY <1>1, <2>1 DEF StopCommit
    <3>2. stop[s].row = k /\ stop[s].stage = "terminated"
      BY <2>1, <3>1 DEF StopCommit, SetRow
    <3>3. stop[s].victim # k
      BY <3>1, <3>2 DEF StopsHeld
    <3>4. SameCollection(stop[s].victim, k)
      BY <3>2, <3>3 DEF StopsHeld, SameCollection
    <3> QED
      BY <1>0, <3>2, <3>3, <3>4 DEF StopsHeld, SharedCollection
  <2>2. CASE StopTerminate(s)
    BY <1>1, <2>2 DEF StopTerminate, Terminate
  <2> QED
    BY <1>1, <1>5, <2>1, <2>2 DEF StopStep, StopMatch
<1>6. CASE ServerStep
  <2>1. CASE ShutdownReap
    BY <1>1, <2>1 DEF ShutdownReap, EndOpenRows, Exited
  <2>2. CASE ShutdownMark
    BY <2>2 DEF ShutdownMark
  <2>3. CASE ShutdownTerminate \/ Crash
    BY <2>3 DEF ShutdownTerminate, Crash, Forget
  <2>4. CASE Startup
    BY <2>4 DEF Startup, ServerHeld
  <2> QED
    BY <1>6, <2>1, <2>2, <2>3, <2>4 DEF ServerStep
<1>7. CASE UNCHANGED vars
  BY <1>1, <1>7 DEF vars
<1> QED
  BY <1>3, <1>4, <1>5, <1>6, <1>7 DEF Next

LEMMA HistoryInvAlways == Spec => []HistoryInv
<1>1. TypeInv /\ RunningTracked /\ HistoryInv /\ [Next]_vars => HistoryInv'
  BY RowsStep, BatchesStep, StopsStep, ServerStepHeld, OpenStep, DispatchStep, EndedStep
  DEF HistoryInv
<1> QED
  BY <1>1, HistoryInit, TypeInvAlways, RunningIsTracked, PTL DEF Spec

\* The history is true for any number of launches, requests, stop calls and
\* restarts: an open row has somebody who will end it, an ended row's process has.
THEOREM HistoryStaysTrue == Spec => []HistoryIsTrue
<1>1. OpenHeld => OpenRowHasCloser
  BY DEF OpenHeld, OpenRowHasCloser, Closer, HasCloser, Reserving
<1>2. HistoryInv => HistoryIsTrue
  BY <1>1 DEF HistoryInv, HistoryIsTrue
<1> QED
  BY <1>2, HistoryInvAlways, PTL

\* When the backend goes down by the shutdown, whatever the monitor was writing has
\* been written and no row is left open but what a failed write has lost.
THEOREM ShutdownLeavesNoRowOpen == Spec => ShutdownFinalizes
<1>1. ASSUME HistoryInv, server = "marked", monitor # "writing",
             NEW l \in Launches, history[l] = "open"
      PROVE  SharedCollection(l) \/ l \in batch[NoLaunch]
  <2>1. NoRequestInFlight /\ l \notin registry
    BY <1>1 DEF HistoryInv, ServerHeld
  <2>2. \A a \in Launches \cup {Monitor} : batch[a] = {}
    BY <1>1, <2>1 DEF HistoryInv, BatchesHeld, NoRequestInFlight
  <2>3. ~Closer(l)
    BY <1>1, <2>1, <2>2 DEF Closer, NoRequestInFlight, BeingStopped
  <2> QED
    BY <1>1, <2>3 DEF HistoryInv, OpenHeld
<1>2. HistoryInv => (server = "marked" /\ server' = "down" /\ monitor # "writing" =>
        \A l \in Launches : history[l] = "open" => SharedCollection(l) \/ l \in batch[NoLaunch])
  BY <1>1
<1> QED
  BY <1>2, HistoryInvAlways, PTL DEF ShutdownFinalizes
====
