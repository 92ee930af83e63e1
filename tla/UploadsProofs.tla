----------------------------- MODULE UploadsProofs ----------------------------
(***************************************************************************)
(* Proofs about Uploads, for any number of uploads, chunks, calls and scans.*)
(***************************************************************************)
EXTENDS Uploads, FiniteSetTheorems, TLAPS

------------------------------------------------------------------------------
(* Types *)

\* A PUT past its start knows its upload.
PutOK(r) == r.stage # "idle" => r.upload \in UploadIds

\* A task past its start knows its upload, from mkdir on its name, and its outcome
\* from its ingest on.
TaskOK(r) ==
    /\ r.stage # "idle" => r.upload \in UploadIds
    /\ r.stage \in {"named", "copying", "undoing", "discarding", "clearing", "ingesting"}
         => r.name \in Names
    /\ r.outcome \in {"kept", "reused"} =>
         r.stage \in {"reporting", "kept", "reused", "lost"} /\ r.name \in Names
    /\ r.stage = "reporting" => r.outcome \in {"kept", "reused"}

TasksOK == (\A p \in Puts : PutOK(put[p])) /\ (\A f \in Completes : TaskOK(fin[f]))

TypeInv == TypeOK /\ TasksOK

LEMMA NamesNat == Names \subseteq Nat /\ 0 \notin Names
  BY UploadsAssumption, FS_CardinalityType DEF Names

\* Updating fields of a task's or a PUT's record keeps its type.
LEMMA FinFields ==
    ASSUME NEW r \in FinType
    PROVE  /\ \A s \in FinStages : [r EXCEPT !.stage = s] \in FinType
           /\ \A s \in FinStages, n \in Names : [r EXCEPT !.stage = s, !.name = n] \in FinType
           /\ \A s \in FinStages, o \in {"none", "kept", "reused", "rejected"} :
                 /\ [r EXCEPT !.stage = s, !.outcome = o] \in FinType
                 /\ [r EXCEPT !.outcome = o, !.stage = s] \in FinType
           /\ \A c \in 0..NumChunks, b \in BOOLEAN : [r EXCEPT !.copied = c, !.short = b] \in FinType
  BY DEF FinType

LEMMA NoFinType ==
    /\ NoFin \in FinType
    /\ \A u \in UploadIds : [NoFin EXCEPT !.stage = "scheduled", !.upload = u] \in FinType
<1>1. 0 \in 0..NumChunks
  BY UploadsAssumption
<1>2. "idle" \in FinStages /\ "scheduled" \in FinStages
  BY DEF FinStages
<1>3. NoFin \in FinType
  BY <1>1, <1>2 DEF NoFin, FinType
<1>4. ASSUME NEW u \in UploadIds
      PROVE  [NoFin EXCEPT !.stage = "scheduled", !.upload = u] \in FinType
  BY <1>2, <1>3 DEF FinType
<1> QED
  BY <1>3, <1>4

LEMMA PutFields ==
    /\ NoPut \in PutType
    /\ \A r \in PutType, s \in PutStages : [r EXCEPT !.stage = s] \in PutType
  BY UploadsAssumption DEF NoPut, PutType, PutStages, Chunks

LEMMA TypeInvInit == Init => TypeInv
<1> SUFFICES ASSUME Init PROVE TypeInv
  OBVIOUS
<1>1. JobsTypeOK
  BY DEF Init, JobsInit, JobsTypeOK, JobStatuses
<1>2. put \in [Puts -> PutType] /\ fin \in [Completes -> FinType]
  BY NoFinType, PutFields DEF Init
<1>3. TypeOK
  BY <1>1, <1>2 DEF Init, TypeOK
<1>4. TasksOK
  BY DEF Init, TasksOK, PutOK, TaskOK, NoPut, NoFin
<1> QED
  BY <1>3, <1>4 DEF TypeInv

\* The job functions keep their types.
LEMMA JobsType ==
    ASSUME JobsTypeOK
    PROVE  /\ \A j \in JobIds : Create(j) => JobsTypeOK'
           /\ ListRecent => JobsTypeOK'
           /\ \A j \in JobIds : RequestCancel(j) => JobsTypeOK'
           /\ \A j \in JobIds : Update(j) => JobsTypeOK'
           /\ \A j \in JobIds, status \in Finished : Finish(j, status) => JobsTypeOK'
           /\ \A j \in JobIds : GoStale(j) => JobsTypeOK'
           /\ ForgetJobs => JobsTypeOK'
  BY DEF JobsTypeOK, JobStatuses, InFlight, Finished, Create, AfterSweep, Sweepable, Exists,
         ListRecent, RequestCancel, Update, Finish, GoStale, ForgetJobs

\* A change of the staging directories keeps their types.
LEMMA RmStagingType ==
    ASSUME TypeOK, NEW u \in UploadIds, RmStaging(u)
    PROVE  dirs' \in SUBSET UploadIds /\ parts' \in [UploadIds -> [Chunks -> {"absent", "torn", "whole"}]]
  BY DEF TypeOK, RmStaging

\* What the record of a task looks like after a move.
LEMMA Moved ==
    ASSUME TypeOK, NEW f \in Completes, NEW stage \in FinStages, Move(f, stage)
    PROVE  /\ fin' \in [Completes -> FinType]
           /\ \A g \in Completes \ {f} : fin'[g] = fin[g]
           /\ fin'[f].stage = stage
           /\ fin'[f].upload = fin[f].upload
           /\ fin'[f].name = fin[f].name
           /\ fin'[f].outcome = fin[f].outcome
           /\ fin'[f].copied = fin[f].copied
           /\ fin'[f].short = fin[f].short
<1>1. fin[f] \in FinType
  BY DEF TypeOK
<1>2. fin' = [fin EXCEPT ![f] = [fin[f] EXCEPT !.stage = stage]]
  BY DEF Move
<1>3. [fin[f] EXCEPT !.stage = stage] \in FinType
  BY <1>1, FinFields
<1>4. fin' \in [Completes -> FinType] /\ fin'[f] = [fin[f] EXCEPT !.stage = stage]
  BY <1>2, <1>3 DEF TypeOK
<1>5. \A g \in Completes \ {f} : fin'[g] = fin[g]
  BY <1>2 DEF TypeOK
<1> QED
  BY <1>1, <1>4, <1>5 DEF FinType

\* A task step that leaves the other tasks and the PUTs alone.
LEMMA OneTask ==
    ASSUME TasksOK, NEW f \in Completes, put' = put, TaskOK(fin'[f]),
           \A g \in Completes \ {f} : fin'[g] = fin[g]
    PROVE  TasksOK'
<1>1. \A p \in Puts : PutOK(put'[p])
  BY DEF TasksOK
<1>2. ASSUME NEW g \in Completes PROVE TaskOK(fin'[g])
  BY DEF TasksOK
<1> QED
  BY <1>1, <1>2 DEF TasksOK, PutOK, TaskOK

LEMMA TaskTypes ==
    ASSUME TypeInv, NEW f \in Completes, FinStep(f)
    PROVE  TypeInv'
<1>0. /\ UploadIds \subseteq JobIds
      /\ fin \in [Completes -> FinType] /\ fin[f] \in FinType
      /\ TypeOK /\ JobsTypeOK /\ TasksOK /\ TaskOK(fin[f])
      /\ Finished = {"done", "error", "cancelled"}
  BY UploadsAssumption DEF TypeInv, TypeOK, TasksOK, Finished
<1>1. CASE MakeDest(f)
  <2>1. ASSUME NEW s \in FinStages, Move(f, s), s \in {"failing", "copying"}
        PROVE  TasksOK' /\ fin' \in [Completes -> FinType]
    <3>1. TaskOK(fin'[f])
      BY <1>0, <1>1, <2>1, Moved DEF MakeDest, TaskOK, At
    <3> QED
      BY <1>0, <1>1, <2>1, <3>1, Moved, OneTask DEF MakeDest
  <2>2. TasksOK' /\ fin' \in [Completes -> FinType]
    BY <1>0, <1>1, <2>1 DEF MakeDest, FinStages, TaskOK, At
  <2> QED
    BY <1>0, <1>1, <2>2 DEF MakeDest, stagingVars, jobVars, TypeInv, TypeOK, JobsTypeOK, TaskOK, At
<1>2. CASE CheckSize(f)
  <2>1. ASSUME NEW s \in FinStages, Move(f, s), s \in {"undoing", "discarding"}
        PROVE  TasksOK' /\ fin' \in [Completes -> FinType]
    <3>1. TaskOK(fin'[f])
      BY <1>0, <1>2, <2>1, Moved DEF CheckSize, TaskOK, At
    <3> QED
      BY <1>0, <1>2, <2>1, <3>1, Moved, OneTask DEF CheckSize
  <2>2. TasksOK' /\ fin' \in [Completes -> FinType]
    BY <1>0, <1>2, <2>1 DEF CheckSize, FinStages, TaskOK, At
  <2> QED
    BY <1>0, <1>2, <2>2 DEF CheckSize, stagingVars, jobVars, TypeInv, TypeOK, JobsTypeOK, TaskOK, At
<1>3. CASE DiscardPop(f)
  <2>1. ASSUME NEW s \in FinStages, Move(f, s), s \in {"clearing"}
        PROVE  TasksOK' /\ fin' \in [Completes -> FinType]
    <3>1. TaskOK(fin'[f])
      BY <1>0, <1>3, <2>1, Moved DEF DiscardPop, TaskOK, At
    <3> QED
      BY <1>0, <1>3, <2>1, <3>1, Moved, OneTask DEF DiscardPop
  <2>2. TasksOK' /\ fin' \in [Completes -> FinType]
    BY <1>0, <1>3, <2>1 DEF DiscardPop, FinStages, TaskOK, At
  <2> QED
    BY <1>0, <1>3, <2>2 DEF DiscardPop, jobVars, TypeInv, TypeOK, JobsTypeOK, TaskOK, At
<1>4. CASE DiscardRemove(f)
  <2>1. ASSUME NEW s \in FinStages, Move(f, s), s \in {"failing", "ingesting"}
        PROVE  TasksOK' /\ fin' \in [Completes -> FinType]
    <3>1. TaskOK(fin'[f])
      BY <1>0, <1>4, <2>1, Moved DEF DiscardRemove, TaskOK, At
    <3> QED
      BY <1>0, <1>4, <2>1, <3>1, Moved, OneTask DEF DiscardRemove
  <2>2. TasksOK' /\ fin' \in [Completes -> FinType]
    BY <1>0, <1>4, <2>1 DEF DiscardRemove, FinStages, TaskOK, At
  <2> QED
    BY <1>0, <1>4, <2>2, RmStagingType DEF DiscardRemove, jobVars, TypeInv, TypeOK, JobsTypeOK, TaskOK, At
<1>5. CASE FailRemove(f)
  <2>1. ASSUME NEW s \in FinStages, Move(f, s), s \in {"failed"}
        PROVE  TasksOK' /\ fin' \in [Completes -> FinType]
    <3>1. TaskOK(fin'[f])
      BY <1>0, <1>5, <2>1, Moved DEF FailRemove, TaskOK, At
    <3> QED
      BY <1>0, <1>5, <2>1, <3>1, Moved, OneTask DEF FailRemove
  <2>2. TasksOK' /\ fin' \in [Completes -> FinType]
    BY <1>0, <1>5, <2>1 DEF FailRemove, FinStages, TaskOK, At
  <2> QED
    BY <1>0, <1>5, <2>2, RmStagingType DEF FailRemove, jobVars, TypeInv, TypeOK, JobsTypeOK, TaskOK, At
<1>6. CASE FailReport(f)
  <2>1. ASSUME NEW s \in FinStages, Move(f, s), s \in {"rejected"}
        PROVE  TasksOK' /\ fin' \in [Completes -> FinType]
    <3>1. TaskOK(fin'[f])
      BY <1>0, <1>6, <2>1, Moved DEF FailReport, TaskOK, At
    <3> QED
      BY <1>0, <1>6, <2>1, <3>1, Moved, OneTask DEF FailReport
  <2>2. TasksOK' /\ fin' \in [Completes -> FinType]
    BY <1>0, <1>6, <2>1 DEF FailReport, FinStages, TaskOK, At
  <2> QED
    BY <1>0, <1>6, <2>2, JobsType DEF FailReport, stagingVars, TypeInv, TypeOK, JobsTypeOK, TaskOK, At
<1>7. CASE Report(f)
  <2>1. fin[f].outcome \in FinStages
    BY <1>0, <1>7 DEF Report, At, TaskOK, FinStages
  <2>2. TaskOK(fin'[f])
    BY <1>0, <1>7, <2>1, Moved DEF Report, TaskOK, At
  <2>3. TasksOK' /\ fin' \in [Completes -> FinType]
    BY <1>0, <1>7, <2>1, <2>2, Moved, OneTask DEF Report
  <2> QED
    BY <1>0, <1>7, <2>3, JobsType DEF Report, stagingVars, TypeInv, TypeOK, TaskOK, At
<1>8. CASE PickName(f)
  <2>1. fin[f].upload \in JobIds
    BY <1>0, <1>8 DEF PickName, At, TaskOK
  <2>2. CASE Move(f, "failing")
    <3>1. TaskOK(fin'[f])
      BY <1>0, <1>8, <2>2, Moved DEF PickName, TaskOK, At, FinStages
    <3> QED
      BY <1>0, <1>8, <2>1, <2>2, <3>1, Moved, OneTask, JobsType
      DEF PickName, FinStages, stagingVars, TypeInv, TypeOK
  <2>3. ASSUME NEW n \in Names, fin' = [fin EXCEPT ![f].stage = "named", ![f].name = n]
        PROVE  TypeInv'
    <3>1. fin' = [fin EXCEPT ![f] = [fin[f] EXCEPT !.stage = "named", !.name = n]]
      BY <2>3
    <3>2. [fin[f] EXCEPT !.stage = "named", !.name = n] \in FinType
      BY <1>0, FinFields DEF FinStages
    <3>3. TaskOK(fin'[f])
      BY <1>0, <1>8, <3>1 DEF PickName, TaskOK, At, FinType
    <3>4. TasksOK'
      BY <1>0, <1>8, <3>1, <3>3, OneTask DEF PickName
    <3> QED
      BY <1>0, <1>8, <2>1, <3>1, <3>2, <3>4, JobsType DEF PickName, stagingVars, TypeInv, TypeOK
  <2> QED
    BY <1>8, <2>2, <2>3 DEF PickName
<1>9. CASE CopyChunk(f)
  <2>1. fin[f].upload \in JobIds
    BY <1>0, <1>9 DEF CopyChunk, At, TaskOK
  <2>2. CASE Move(f, "undoing")
    <3>1. TaskOK(fin'[f])
      BY <1>0, <1>9, <2>2, Moved DEF CopyChunk, TaskOK, At, FinStages
    <3> QED
      BY <1>0, <1>9, <2>1, <2>2, <3>1, Moved, OneTask, JobsType
      DEF CopyChunk, FinStages, stagingVars, TypeInv, TypeOK
  <2>3. ASSUME NEW c \in 0..NumChunks, NEW b \in BOOLEAN,
               fin' = [fin EXCEPT ![f] = [fin[f] EXCEPT !.copied = c, !.short = b]]
        PROVE  TypeInv'
    <3>1. [fin[f] EXCEPT !.copied = c, !.short = b] \in FinType
      BY <1>0, FinFields
    <3>2. TaskOK(fin'[f])
      BY <1>0, <1>9, <2>3 DEF CopyChunk, TaskOK, At, FinType
    <3>3. TasksOK'
      BY <1>0, <1>9, <2>3, <3>2, OneTask DEF CopyChunk
    <3> QED
      BY <1>0, <1>9, <2>1, <2>3, <3>1, <3>3, JobsType DEF CopyChunk, stagingVars, TypeInv, TypeOK
  <2>4. ASSUME NEW short \in BOOLEAN,
               fin' = [fin EXCEPT ![f].copied = fin[f].copied + 1, ![f].short = @ \/ short],
               fin[f].copied + 1 \in Chunks
        PROVE  TypeInv'
    <3>1. fin' = [fin EXCEPT ![f] = [fin[f] EXCEPT !.copied = fin[f].copied + 1,
                                                   !.short = fin[f].short \/ short]]
      BY <2>4
    <3>2. fin[f].copied + 1 \in 0..NumChunks /\ (fin[f].short \/ short) \in BOOLEAN
      BY <2>4, UploadsAssumption DEF Chunks
    <3> QED
      BY <2>3, <3>1, <3>2
  <2> QED
    BY <1>9, <2>2, <2>4 DEF CopyChunk
<1>10. CASE RemoveDest(f)
  <2>1. ASSUME NEW stage \in FinStages, NEW outcome \in {"none", "kept", "reused", "rejected"},
               fin' = [fin EXCEPT ![f] = [fin[f] EXCEPT !.stage = stage, !.outcome = outcome]],
               stage = "discarding" /\ outcome = "rejected"
        PROVE  TasksOK' /\ fin' \in [Completes -> FinType]
    <3>1. [fin[f] EXCEPT !.stage = stage, !.outcome = outcome] \in FinType
      BY <1>0, FinFields
    <3>2. TaskOK(fin'[f])
      BY <1>0, <1>10, <2>1 DEF RemoveDest, TaskOK, At, FinType
    <3> QED
      BY <1>0, <1>10, <2>1, <3>1, <3>2, OneTask DEF RemoveDest
  <2>2. TasksOK' /\ fin' \in [Completes -> FinType]
    <3>1. fin' = [fin EXCEPT ![f] = [fin[f] EXCEPT !.stage = "discarding", !.outcome = "rejected"]]
      BY <1>10 DEF RemoveDest
    <3> QED
      BY <2>1, <3>1 DEF FinStages
  <2> QED
    BY <1>0, <1>10, <2>2 DEF RemoveDest, stagingVars, jobVars, TypeInv, TypeOK, JobsTypeOK, TaskOK, At
<1>11. CASE FailPop(f)
  <2>1. ASSUME NEW stage \in FinStages, NEW outcome \in {"none", "kept", "reused", "rejected"},
               fin' = [fin EXCEPT ![f] = [fin[f] EXCEPT !.stage = stage, !.outcome = outcome]],
               stage \in {"aborting", "failed"} /\ outcome = "rejected"
        PROVE  TasksOK' /\ fin' \in [Completes -> FinType]
    <3>1. [fin[f] EXCEPT !.stage = stage, !.outcome = outcome] \in FinType
      BY <1>0, FinFields
    <3>2. TaskOK(fin'[f])
      BY <1>0, <1>11, <2>1 DEF FailPop, TaskOK, At, FinType
    <3> QED
      BY <1>0, <1>11, <2>1, <3>1, <3>2, OneTask DEF FailPop
  <2>2. TasksOK' /\ fin' \in [Completes -> FinType]
    <3>1. PICK stage \in {"aborting", "failed"} :
             fin' = [fin EXCEPT ![f] = [fin[f] EXCEPT !.stage = stage, !.outcome = "rejected"]]
      BY <1>11 DEF FailPop
    <3> QED
      BY <2>1, <3>1 DEF FinStages
  <2> QED
    BY <1>0, <1>11, <2>2 DEF FailPop, jobVars, TypeInv, TypeOK, JobsTypeOK, TaskOK, At
<1>12. CASE Ingest(f)
  <2>1. ASSUME NEW stage \in FinStages, NEW outcome \in {"none", "kept", "reused", "rejected"},
               fin' = [fin EXCEPT ![f] = [fin[f] EXCEPT !.stage = stage, !.outcome = outcome]],
               \/ outcome = "rejected" /\ stage = "failing"
               \/ outcome \in {"kept", "reused"} /\ stage = "reporting"
        PROVE  TasksOK' /\ fin' \in [Completes -> FinType]
    <3>1. [fin[f] EXCEPT !.stage = stage, !.outcome = outcome] \in FinType
      BY <1>0, FinFields
    <3>2. TaskOK(fin'[f])
      BY <1>0, <1>12, <2>1 DEF Ingest, TaskOK, At, FinType
    <3> QED
      BY <1>0, <1>12, <2>1, <3>1, <3>2, OneTask DEF Ingest
  <2>2. TasksOK' /\ fin' \in [Completes -> FinType]
    <3>1. PICK outcome \in {"kept", "reused", "rejected"} :
             fin' = [fin EXCEPT ![f].outcome = outcome,
                                ![f].stage = IF outcome = "rejected" THEN "failing" ELSE "reporting"]
      BY <1>12 DEF Ingest
    <3> DEFINE stage == IF outcome = "rejected" THEN "failing" ELSE "reporting"
    <3>2. fin' = [fin EXCEPT ![f] = [fin[f] EXCEPT !.stage = stage, !.outcome = outcome]]
      BY <1>0, <3>1
    <3>3. stage \in FinStages
      BY DEF FinStages
    <3> HIDE DEF stage
    <3>4. \/ outcome = "rejected" /\ stage = "failing"
          \/ outcome \in {"kept", "reused"} /\ stage = "reporting"
      BY DEF stage
    <3> QED
      BY <2>1, <3>2, <3>3, <3>4
  <2> QED
    BY <1>0, <1>12, <2>2 DEF Ingest, stagingVars, jobVars, TypeInv, TypeOK, JobsTypeOK, TaskOK, At
<1> QED
  BY <1>1, <1>2, <1>3, <1>4, <1>5, <1>6, <1>7, <1>8, <1>9, <1>10, <1>11, <1>12 DEF FinStep

\* A step that leaves the tasks alone, and what it may do to one PUT.
LEMMA PutTypes ==
    ASSUME TypeInv, NEW p \in Puts, PutStep(p)
    PROVE  TypeInv'
<1>0. /\ TypeOK /\ TasksOK /\ JobsTypeOK
      /\ put \in [Puts -> PutType] /\ put[p] \in PutType
      /\ put[p].stage # "idle" => put[p].upload \in UploadIds
      /\ put[p].chunk \in Chunks
  BY DEF TypeInv, TypeOK, TasksOK, PutOK, PutType
<1>1. ASSUME NEW r \in PutType, put' = [put EXCEPT ![p] = r], PutOK(r), fin' = fin
      PROVE  TasksOK' /\ put' \in [Puts -> PutType]
  BY <1>0, <1>1 DEF TasksOK, PutOK, TaskOK
<1>2. ASSUME NEW s \in PutStages, put' = [put EXCEPT ![p].stage = s], fin' = fin,
             put[p].upload \in UploadIds
      PROVE  TasksOK' /\ put' \in [Puts -> PutType]
  <2>1. [put[p] EXCEPT !.stage = s] \in PutType
    BY <1>0, PutFields
  <2>2. put' = [put EXCEPT ![p] = [put[p] EXCEPT !.stage = s]]
    BY <1>2
  <2>3. PutOK([put[p] EXCEPT !.stage = s])
    BY <1>0, <1>2 DEF PutOK, PutType
  <2> QED
    BY <1>1, <1>2, <2>1, <2>2, <2>3
<1>3. PutOK(NoPut) /\ NoPut \in PutType
  BY PutFields DEF PutOK, NoPut
<1>4. CASE PutOpen(p)
  BY <1>0, <1>2, <1>4 DEF PutOpen, PutStages, TypeInv, TypeOK, jobVars, JobsTypeOK
<1>5. CASE PutStream(p)
  BY <1>0, <1>2, <1>5 DEF PutStream, PutStages, TypeInv, TypeOK, jobVars, JobsTypeOK
<1>6. CASE PutTooLarge(p)
  BY <1>0, <1>1, <1>3, <1>6 DEF PutTooLarge, TypeInv, TypeOK, jobVars, JobsTypeOK
<1>7. CASE PutRecord(p)
  <2>1. TasksOK' /\ put' \in [Puts -> PutType]
    BY <1>1, <1>3, <1>7 DEF PutRecord
  <2>2. received' \in [UploadIds -> SUBSET Chunks]
    BY <1>0, <1>7 DEF PutRecord, TypeOK
  <2>3. parts' \in [UploadIds -> [Chunks -> {"absent", "torn", "whole"}]]
    <3> DEFINE u == put[p].upload
               c == put[p].chunk
    <3>1. u \in UploadIds /\ c \in Chunks
      BY <1>0, <1>7 DEF PutRecord
    <3>2. ASSUME NEW x \in {"absent", "torn", "whole"}, parts' = [parts EXCEPT ![u][c] = x]
          PROVE  parts' \in [UploadIds -> [Chunks -> {"absent", "torn", "whole"}]]
      BY <1>0, <3>1, <3>2 DEF TypeOK
    <3>3. parts[u][c] \in {"absent", "torn", "whole"}
      BY <1>0, <3>1 DEF TypeOK
    <3> QED
      BY <1>0, <1>7, <3>2, <3>3 DEF PutRecord, TypeOK
  <2> QED
    BY <1>0, <1>7, <2>1, <2>2, <2>3 DEF PutRecord, TypeInv, TypeOK, jobVars, JobsTypeOK
<1> QED
  BY <1>4, <1>5, <1>6, <1>7 DEF PutStep

LEMMA TypeInvStep == TypeInv /\ [Next]_vars => TypeInv'
<1> SUFFICES ASSUME TypeInv, [Next]_vars PROVE TypeInv'
  OBVIOUS
<1>0. TypeOK /\ JobsTypeOK /\ TasksOK /\ JobIds = UploadIds \cup Scans
  BY UploadsAssumption DEF TypeInv, TypeOK
<1>a. ASSUME put' = put, fin' = fin PROVE TasksOK'
  BY <1>0, <1>a DEF TasksOK, PutOK, TaskOK
<1>1. ASSUME NEW u \in UploadIds, InitUpload(u) PROVE TypeInv'
  BY <1>0, <1>1, <1>a, JobsType DEF InitUpload, TypeInv, TypeOK
<1>2. ASSUME NEW u \in UploadIds, AbortPop(u) PROVE TypeInv'
  BY <1>0, <1>2, <1>a DEF AbortPop, TypeInv, TypeOK, jobVars, JobsTypeOK
<1>3. ASSUME NEW u \in UploadIds, AbortRemove(u) PROVE TypeInv'
  BY <1>0, <1>3, <1>a, RmStagingType DEF AbortRemove, TypeInv, TypeOK, jobVars, JobsTypeOK
<1>4. ASSUME NEW p \in Puts, NEW u \in UploadIds, NEW c \in Chunks, PutCheck(p, u, c) PROVE TypeInv'
  <2>1. [stage |-> "checked", upload |-> u, chunk |-> c] \in PutType
    BY DEF PutType, PutStages
  <2> QED
    BY <1>0, <1>4, <2>1 DEF PutCheck, TypeInv, TypeOK, TasksOK, PutOK, TaskOK, stagingVars, jobVars, JobsTypeOK
<1>5. ASSUME NEW p \in Puts, PutStep(p) PROVE TypeInv'
  BY <1>5, PutTypes
<1>6. ASSUME NEW f \in Completes, NEW u \in UploadIds, Complete(f, u) PROVE TypeInv'
  <2>1. TaskOK(fin'[f])
    BY <1>0, <1>6 DEF Complete, TaskOK, NoFin, TypeOK
  <2>2. TasksOK'
    BY <1>0, <1>6, <2>1, OneTask DEF Complete, TypeOK
  <2> QED
    BY <1>0, <1>6, <2>2, NoFinType DEF Complete, TypeInv, TypeOK, stagingVars, jobVars, JobsTypeOK
<1>7. ASSUME NEW f \in Completes, FinStep(f) PROVE TypeInv'
  BY <1>7, TaskTypes
<1>8. ASSUME NEW s \in Scans, TriggerScan(s) \/ CancelScan(s) \/ ScanProgress(s) \/ ScanEnds(s)
      PROVE  TypeInv'
  BY <1>0, <1>8, <1>a, JobsType
  DEF TriggerScan, CancelScan, ScanProgress, ScanEnds, Finished, TypeInv, TypeOK, stagingVars
<1>9. ASSUME NEW j \in JobIds, JobGoesStale(j) PROVE TypeInv'
  BY <1>0, <1>9, <1>a, JobsType DEF JobGoesStale, TypeInv, TypeOK, stagingVars
<1>10. CASE Poll
  BY <1>0, <1>10, <1>a, JobsType DEF Poll, TypeInv, TypeOK, stagingVars
<1>11. CASE Restart
  <2>1. \A r \in FinType : [r EXCEPT !.stage = "lost"] \in FinType
    BY FinFields DEF FinStages
  <2>2. fin' \in [Completes -> FinType]
    BY <1>0, <1>11, <2>1 DEF Restart, TypeOK
  <2>3. \A p \in Puts : PutOK(put'[p])
    BY <1>11 DEF Restart, PutOK, NoPut
  <2>4. ASSUME NEW f \in Completes PROVE TaskOK(fin'[f])
    BY <1>0, <1>11 DEF Restart, TasksOK, TaskOK, TypeOK, FinType
  <2>5. TasksOK'
    BY <2>3, <2>4 DEF TasksOK, PutOK, TaskOK
  <2> QED
    BY <1>0, <1>11, <2>2, <2>5, JobsType, PutFields DEF Restart, TypeInv, TypeOK
<1>12. CASE UNCHANGED vars
  BY <1>0, <1>12, <1>a DEF vars, stagingVars, jobVars, TypeInv, TypeOK, JobsTypeOK
<1> QED
  BY <1>1, <1>2, <1>3, <1>4, <1>5, <1>6, <1>7, <1>8, <1>9, <1>10, <1>11, <1>12 DEF Next

LEMMA TypeInvAlways == Spec => []TypeInv
  BY TypeInvInit, TypeInvStep, PTL DEF Spec

\* Every value a step writes stays in its type: a task only reads parts it has,
\* counts no further than the chunks, and its outcome comes with a name.
THEOREM TypeCorrect == Spec => []TypeOK
  BY TypeInvAlways, PTL DEF TypeInv

------------------------------------------------------------------------------
(* What a step of a task does to the tasks *)

\* The step of f gives its record these values and touches no other.
Becomes(f, stage, name, outcome, copied, short) ==
    /\ \A g \in Completes \ {f} : fin'[g] = fin[g]
    /\ fin'[f].upload = fin[f].upload
    /\ fin'[f].stage = stage
    /\ fin'[f].name = name
    /\ fin'[f].outcome = outcome
    /\ fin'[f].copied = copied
    /\ fin'[f].short = short

\* Only the stage and the outcome change.
Turns(f, stage, outcome) ==
    Becomes(f, stage, fin[f].name, outcome, fin[f].copied, fin[f].short)

LEMMA MoveTurns ==
    ASSUME TypeOK, NEW f \in Completes, NEW stage \in FinStages, Move(f, stage)
    PROVE  Turns(f, stage, fin[f].outcome)
  BY Moved DEF Turns, Becomes

LEMMA SetTurns ==
    ASSUME TypeOK, NEW f \in Completes, NEW stage, NEW outcome,
           fin' = [fin EXCEPT ![f] = [fin[f] EXCEPT !.stage = stage, !.outcome = outcome]]
    PROVE  Turns(f, stage, outcome)
<1>1. fin[f] \in FinType /\ fin \in [Completes -> FinType]
  BY DEF TypeOK
<1>2. fin'[f] = [fin[f] EXCEPT !.stage = stage, !.outcome = outcome]
  BY <1>1
<1>3. \A g \in Completes \ {f} : fin'[g] = fin[g]
  BY <1>1
<1> QED
  BY <1>1, <1>2, <1>3 DEF Turns, Becomes, FinType

LEMMA TaskEffects ==
    ASSUME TypeInv, NEW f \in Completes
    PROVE  /\ PickName(f) =>
                \/ Turns(f, "failing", fin[f].outcome)
                \/ \E n \in Names : Becomes(f, "named", n, fin[f].outcome, fin[f].copied, fin[f].short)
           /\ MakeDest(f) =>
                IF dest[fin[f].name] # NoComplete THEN Turns(f, "failing", fin[f].outcome)
                ELSE Turns(f, "copying", fin[f].outcome)
           /\ CopyChunk(f) =>
                \/ Turns(f, "undoing", fin[f].outcome)
                \/ \E c \in 0..NumChunks, b \in BOOLEAN : Becomes(f, "copying", fin[f].name, fin[f].outcome, c, b)
           /\ CheckSize(f) =>
                Turns(f, IF fin[f].short THEN "undoing" ELSE "discarding", fin[f].outcome)
           /\ RemoveDest(f) => Turns(f, "discarding", "rejected")
           /\ DiscardPop(f) => Turns(f, "clearing", fin[f].outcome)
           /\ DiscardRemove(f) =>
                Turns(f, IF fin[f].outcome = "rejected" THEN "failing" ELSE "ingesting", fin[f].outcome)
           /\ Ingest(f) =>
                \/ Turns(f, "failing", "rejected") /\ dest' = [dest EXCEPT ![fin[f].name] = NoComplete]
                \/ Turns(f, "reporting", "reused") /\ dest' = [dest EXCEPT ![fin[f].name] = NoComplete]
                \/ Turns(f, "reporting", "kept") /\ dest' = dest
           /\ Report(f) => Turns(f, fin[f].outcome, fin[f].outcome)
           /\ FailPop(f) =>
                Turns(f, IF fin[f].upload \in sessions THEN "aborting" ELSE "failed", "rejected")
           /\ FailRemove(f) => Turns(f, "failed", fin[f].outcome)
           /\ FailReport(f) => Turns(f, "rejected", fin[f].outcome)
<1>0. /\ TypeOK /\ TaskOK(fin[f]) /\ fin \in [Completes -> FinType] /\ fin[f] \in FinType
      /\ dest \in [Names -> Completes \cup {NoComplete}]
  BY DEF TypeInv, TypeOK, TasksOK
<1>1. \A stage \in FinStages : Move(f, stage) => Turns(f, stage, fin[f].outcome)
  BY <1>0, MoveTurns
<1>2. ASSUME PickName(f)
      PROVE  \/ Turns(f, "failing", fin[f].outcome)
             \/ \E n \in Names : Becomes(f, "named", n, fin[f].outcome, fin[f].copied, fin[f].short)
  <2>1. CASE Move(f, "failing")
    BY <1>1, <2>1 DEF FinStages
  <2>2. ASSUME NEW n \in Names, fin' = [fin EXCEPT ![f].stage = "named", ![f].name = n]
        PROVE  Becomes(f, "named", n, fin[f].outcome, fin[f].copied, fin[f].short)
    <3>1. fin'[f] = [fin[f] EXCEPT !.stage = "named", !.name = n]
      BY <1>0, <2>2
    <3>2. \A g \in Completes \ {f} : fin'[g] = fin[g]
      BY <1>0, <2>2
    <3> QED
      BY <1>0, <3>1, <3>2 DEF Becomes, FinType
  <2> QED
    BY <1>2, <2>1, <2>2 DEF PickName
<1>3. MakeDest(f) =>
        IF dest[fin[f].name] # NoComplete THEN Turns(f, "failing", fin[f].outcome)
        ELSE Turns(f, "copying", fin[f].outcome)
  BY <1>1 DEF MakeDest, FinStages
<1>4. ASSUME CopyChunk(f)
      PROVE  \/ Turns(f, "undoing", fin[f].outcome)
             \/ \E c \in 0..NumChunks, b \in BOOLEAN : Becomes(f, "copying", fin[f].name, fin[f].outcome, c, b)
  <2>1. CASE Move(f, "undoing")
    BY <1>1, <2>1 DEF FinStages
  <2>2. ASSUME NEW short \in BOOLEAN, fin[f].copied + 1 \in Chunks,
               fin' = [fin EXCEPT ![f].copied = fin[f].copied + 1, ![f].short = @ \/ short]
        PROVE  \E c \in 0..NumChunks, b \in BOOLEAN : Becomes(f, "copying", fin[f].name, fin[f].outcome, c, b)
    <3> DEFINE c == fin[f].copied + 1
               b == fin[f].short \/ short
    <3>1. c \in 0..NumChunks /\ b \in BOOLEAN
      BY <2>2, UploadsAssumption DEF Chunks
    <3>2. fin'[f] = [fin[f] EXCEPT !.copied = c, !.short = b]
      BY <1>0, <2>2
    <3>3. \A g \in Completes \ {f} : fin'[g] = fin[g]
      BY <1>0, <2>2
    <3> HIDE DEF c, b
    <3>4. Becomes(f, "copying", fin[f].name, fin[f].outcome, c, b)
      BY <1>0, <1>4, <3>2, <3>3 DEF Becomes, FinType, CopyChunk, At
    <3> QED
      BY <3>1, <3>4
  <2> QED
    BY <1>4, <2>1, <2>2 DEF CopyChunk
<1>5. CheckSize(f) => Turns(f, IF fin[f].short THEN "undoing" ELSE "discarding", fin[f].outcome)
  BY <1>1 DEF CheckSize, FinStages
<1>6. ASSUME RemoveDest(f) PROVE Turns(f, "discarding", "rejected")
  <2>1. fin' = [fin EXCEPT ![f] = [fin[f] EXCEPT !.stage = "discarding", !.outcome = "rejected"]]
    BY <1>6 DEF RemoveDest
  <2> QED
    BY <1>0, <2>1, SetTurns
<1>7. DiscardPop(f) => Turns(f, "clearing", fin[f].outcome)
  BY <1>1 DEF DiscardPop, FinStages
<1>8. DiscardRemove(f) =>
        Turns(f, IF fin[f].outcome = "rejected" THEN "failing" ELSE "ingesting", fin[f].outcome)
  BY <1>1 DEF DiscardRemove, FinStages
<1>9. ASSUME Ingest(f)
      PROVE  \/ Turns(f, "failing", "rejected") /\ dest' = [dest EXCEPT ![fin[f].name] = NoComplete]
             \/ Turns(f, "reporting", "reused") /\ dest' = [dest EXCEPT ![fin[f].name] = NoComplete]
             \/ Turns(f, "reporting", "kept") /\ dest' = dest
  <2>1. PICK outcome \in {"kept", "reused", "rejected"} :
          /\ fin' = [fin EXCEPT ![f].outcome = outcome,
                                ![f].stage = IF outcome = "rejected" THEN "failing" ELSE "reporting"]
          /\ dest' = [dest EXCEPT ![fin[f].name] = IF outcome = "kept" THEN @ ELSE NoComplete]
    BY <1>9 DEF Ingest
  <2> DEFINE stage == IF outcome = "rejected" THEN "failing" ELSE "reporting"
  <2>2. fin' = [fin EXCEPT ![f] = [fin[f] EXCEPT !.stage = stage, !.outcome = outcome]]
    BY <1>0, <2>1
  <2>3. Turns(f, stage, outcome)
    BY <1>0, <2>2, SetTurns
  <2>4. fin[f].name \in Names
    BY <1>0, <1>9 DEF Ingest, At, TaskOK
  <2>5. outcome = "kept" => dest' = dest
    BY <1>0, <2>1, <2>4
  <2>6. outcome # "kept" => dest' = [dest EXCEPT ![fin[f].name] = NoComplete]
    BY <2>1
  <2> QED
    BY <2>3, <2>5, <2>6
<1>10. Report(f) => Turns(f, fin[f].outcome, fin[f].outcome)
  <2>1. Report(f) => fin[f].outcome \in FinStages
    BY <1>0 DEF Report, At, TaskOK, FinStages
  <2> QED
    BY <1>1, <2>1 DEF Report
<1>11. ASSUME FailPop(f)
       PROVE  Turns(f, IF fin[f].upload \in sessions THEN "aborting" ELSE "failed", "rejected")
  <2> DEFINE stage == IF fin[f].upload \in sessions THEN "aborting" ELSE "failed"
  <2>1. fin' = [fin EXCEPT ![f] = [fin[f] EXCEPT !.stage = stage, !.outcome = "rejected"]]
    BY <1>11 DEF FailPop
  <2> HIDE DEF stage
  <2>2. Turns(f, stage, "rejected")
    BY <1>0, <2>1, SetTurns
  <2> QED
    BY <2>2 DEF stage
<1>12. (FailRemove(f) => Turns(f, "failed", fin[f].outcome)) /\ (FailReport(f) => Turns(f, "rejected", fin[f].outcome))
  BY <1>1 DEF FailRemove, FailReport, FinStages
<1> QED
  BY <1>2, <1>3, <1>4, <1>5, <1>6, <1>7, <1>8, <1>9, <1>10, <1>11, <1>12

LEMMA CompleteEffects ==
    ASSUME TypeInv, NEW f \in Completes, NEW u \in UploadIds, Complete(f, u)
    PROVE  /\ fin[f].stage = "idle"
           /\ fin'[f].stage = "scheduled" /\ fin'[f].upload = u /\ fin'[f].outcome = "none"
           /\ \A g \in Completes \ {f} : fin'[g] = fin[g]
           /\ dest' = dest
<1>1. fin'[f] = [NoFin EXCEPT !.stage = "scheduled", !.upload = u]
  BY DEF TypeInv, TypeOK, Complete
<1>2. fin'[f].stage = "scheduled" /\ fin'[f].upload = u /\ fin'[f].outcome = "none"
  BY <1>1 DEF NoFin
<1> QED
  BY <1>2 DEF TypeInv, TypeOK, Complete, At

LEMMA RestartEffects ==
    ASSUME TypeInv, Restart, NEW f \in Completes
    PROVE  \/ fin'[f] = fin[f] /\ fin[f].stage \in {"idle", "kept", "reused", "rejected"}
           \/ /\ fin'[f].stage = "lost"
              /\ fin'[f].upload = fin[f].upload
              /\ fin'[f].name = fin[f].name
              /\ fin'[f].outcome = fin[f].outcome
              /\ fin[f].stage # "idle"
  BY DEF TypeInv, TypeOK, FinType, Restart

\* Only tasks and restarts change tasks and destinations.
LEMMA TaskFrame ==
    ASSUME [Next]_vars
    PROVE  \/ \E f \in Completes, u \in UploadIds : Complete(f, u)
           \/ \E f \in Completes : FinStep(f)
           \/ Restart
           \/ fin' = fin /\ dest' = dest
  BY DEF Next, vars, stagingVars, InitUpload, AbortPop, AbortRemove, PutCheck, PutStep, PutOpen, PutStream,
         PutTooLarge, PutRecord, TriggerScan, CancelScan, ScanProgress, ScanEnds, JobGoesStale, Poll

------------------------------------------------------------------------------
(* What reaches the library is whole *)

\* The outcome is "rejected" only once the task has let go of its destination.
NotRejected ==
    \A f \in Completes :
        fin[f].stage \in {"scheduled", "named", "copying", "undoing", "ingesting"}
            => fin[f].outcome # "rejected"

\* A task that is about to ingest has read as many bytes as were declared.
Assembled ==
    \A f \in Completes :
        fin[f].stage \in {"discarding", "clearing"} /\ fin[f].outcome # "rejected"
            => fin[f].copied = NumChunks /\ ~fin[f].short

WholeInv == NotRejected /\ Assembled /\ OnlyWholeUploadsIngested

LEMMA WholeInvStep == TypeInv /\ WholeInv /\ [Next]_vars => WholeInv'
<1> SUFFICES ASSUME TypeInv, WholeInv, [Next]_vars PROVE WholeInv'
  OBVIOUS
<1> DEFINE Whole(r) ==
      /\ r.stage \in {"scheduled", "named", "copying", "undoing", "ingesting"} => r.outcome # "rejected"
      /\ r.stage \in {"discarding", "clearing"} /\ r.outcome # "rejected" => r.copied = NumChunks /\ ~r.short
      /\ r.stage \in {"ingesting", "reporting", "kept", "reused"} => r.copied = NumChunks /\ ~r.short
<1>1. \A f \in Completes : Whole(fin[f])
  BY DEF WholeInv, NotRejected, Assembled, OnlyWholeUploadsIngested
<1>2. SUFFICES \A f \in Completes : Whole(fin'[f])
  BY DEF WholeInv, NotRejected, Assembled, OnlyWholeUploadsIngested
<1>3. ASSUME NEW f \in Completes, FinStep(f) PROVE \A g \in Completes : Whole(fin'[g])
  <2>1. Whole(fin[f]) /\ TaskOK(fin[f])
    BY <1>1 DEF TypeInv, TasksOK
  <2> DEFINE Kept == (\A g \in Completes \ {f} : fin'[g] = fin[g]) /\ Whole(fin'[f])
  <2>2. PickName(f) => Kept
    BY <2>1, TaskEffects DEF PickName, At, Turns, Becomes, TaskOK
  <2>3. MakeDest(f) => Kept
    BY <2>1, TaskEffects DEF MakeDest, At, Turns, Becomes, TaskOK
  <2>4. CopyChunk(f) => Kept
    BY <2>1, TaskEffects DEF CopyChunk, At, Turns, Becomes, TaskOK
  <2>5. CheckSize(f) => Kept
    BY <2>1, TaskEffects DEF CheckSize, At, Turns, Becomes, TaskOK
  <2>6. RemoveDest(f) => Kept
    BY <2>1, TaskEffects DEF RemoveDest, At, Turns, Becomes, TaskOK
  <2>7. DiscardPop(f) => Kept
    BY <2>1, TaskEffects DEF DiscardPop, At, Turns, Becomes, TaskOK
  <2>8. DiscardRemove(f) => Kept
    BY <2>1, TaskEffects DEF DiscardRemove, At, Turns, Becomes, TaskOK
  <2>9. Ingest(f) => Kept
    BY <2>1, TaskEffects DEF Ingest, At, Turns, Becomes, TaskOK
  <2>10. Report(f) => Kept
    BY <2>1, TaskEffects DEF Report, At, Turns, Becomes, TaskOK
  <2>11. FailPop(f) => Kept
    BY <2>1, TaskEffects DEF FailPop, At, Turns, Becomes, TaskOK
  <2>12. FailRemove(f) => Kept
    BY <2>1, TaskEffects DEF FailRemove, At, Turns, Becomes, TaskOK
  <2>13. FailReport(f) => Kept
    BY <2>1, TaskEffects DEF FailReport, At, Turns, Becomes, TaskOK
  <2>14. Kept
    BY <1>3, <2>2, <2>3, <2>4, <2>5, <2>6, <2>7, <2>8, <2>9, <2>10, <2>11, <2>12, <2>13 DEF FinStep
  <2> QED
    BY <1>1, <2>14
<1>4. ASSUME NEW f \in Completes, NEW u \in UploadIds, Complete(f, u)
      PROVE  \A g \in Completes : Whole(fin'[g])
  <2>1. Whole(fin'[f])
    BY <1>4, CompleteEffects
  <2>2. \A g \in Completes \ {f} : Whole(fin'[g])
    BY <1>1, <1>4, CompleteEffects
  <2> QED
    BY <2>1, <2>2
<1>5. CASE Restart
  BY <1>1, <1>5, RestartEffects
<1> QED
  BY <1>1, <1>3, <1>4, <1>5, TaskFrame

\* What reaches the library was assembled from whole chunks: a task that read a
\* torn part, or lost one to an abort, turns back before its ingest.
THEOREM WholeUploads == Spec => []OnlyWholeUploadsIngested
<1>1. Init => WholeInv
  BY DEF Init, NoFin, WholeInv, NotRejected, Assembled, OnlyWholeUploadsIngested
<1>2. WholeInv => OnlyWholeUploadsIngested
  BY DEF WholeInv
<1> QED
  BY <1>1, <1>2, TypeInvAlways, WholeInvStep, PTL DEF Spec

------------------------------------------------------------------------------
(* Destinations *)

DestInv == OwnsItsDestination /\ NoOrphanDestination

\* HoldsDest, of the record of a task.
Holding(r) ==
    \/ r.stage \in {"copying", "undoing", "ingesting"}
    \/ r.stage \in {"discarding", "clearing"} /\ r.outcome # "rejected"
    \/ r.outcome = "kept"

\* A step that changes the record of f, and the destination f names if it takes
\* hold of one or lets go of it.
LEMMA OneDestination ==
    ASSUME TypeInv, OwnsItsDestination, NoOrphanDestination, NEW f \in Completes,
           \A g \in Completes \ {f} : fin'[g] = fin[g],
           \/ /\ dest' = dest
              /\ fin'[f].name = fin[f].name \/ (~Holding(fin[f]) /\ fin[f].stage # "lost")
              /\ Holding(fin'[f]) <=> Holding(fin[f])
              /\ fin[f].stage = "lost" => fin'[f].stage = "lost"
           \/ /\ Holding(fin[f]) /\ ~Holding(fin'[f])
              /\ dest' = [dest EXCEPT ![fin[f].name] = NoComplete]
           \/ /\ Holding(fin'[f]) /\ ~Holding(fin[f])
              /\ fin[f].stage # "lost"
              /\ fin'[f].name = fin[f].name
              /\ fin[f].name \in Names
              /\ dest[fin[f].name] = NoComplete
              /\ dest' = [dest EXCEPT ![fin[f].name] = f]
    PROVE  OwnsItsDestination' /\ NoOrphanDestination'
<1>0. /\ dest \in [Names -> Completes \cup {NoComplete}] /\ NoComplete \notin Completes
      /\ \A g \in Completes : Holding(fin[g]) => fin[g].name \in Names
  BY UploadsAssumption DEF TypeInv, TypeOK, TasksOK, TaskOK, Holding
<1>1. /\ \A g \in Completes : Holding(fin[g]) => dest[fin[g].name] = g
      /\ \A n \in Names : dest[n] # NoComplete =>
            /\ dest[n] \in Completes
            /\ fin[dest[n]].name = n
            /\ Holding(fin[dest[n]]) \/ fin[dest[n]].stage = "lost"
  BY <1>0 DEF OwnsItsDestination, NoOrphanDestination, HoldsDest, Holding
<1>2. ASSUME NEW g \in Completes, Holding(fin'[g])
      PROVE  dest'[fin'[g].name] = g
  BY <1>0, <1>1, <1>2
<1>3. ASSUME NEW n \in Names, dest'[n] # NoComplete
      PROVE  fin'[dest'[n]].name = n /\ (Holding(fin'[dest'[n]]) \/ fin'[dest'[n]].stage = "lost")
  <2>1. CASE dest'[n] = f
    BY <1>0, <1>1, <1>3, <2>1
  <2>2. CASE dest'[n] # f
    BY <1>0, <1>1, <1>3, <2>2
  <2> QED
    BY <2>1, <2>2
<1> QED
  BY <1>2, <1>3 DEF OwnsItsDestination, NoOrphanDestination, HoldsDest, Holding

LEMMA DestInvStep == TypeInv /\ WholeInv /\ DestInv /\ [Next]_vars => DestInv'
<1> SUFFICES ASSUME TypeInv, WholeInv, DestInv, [Next]_vars PROVE DestInv'
  OBVIOUS
<1> USE DEF DestInv
<1>1. ASSUME NEW f \in Completes, FinStep(f) PROVE DestInv'
  <2>1. /\ TaskOK(fin[f])
        /\ fin[f].stage \in {"scheduled", "named", "copying", "undoing", "ingesting"}
             => fin[f].outcome # "rejected"
    BY DEF TypeInv, TasksOK, WholeInv, NotRejected
  <2>2. CASE PickName(f)
    BY <2>1, <2>2, TaskEffects, OneDestination
    DEF PickName, At, Turns, Becomes, TaskOK, Holding
  <2>3. CASE MakeDest(f)
    BY <2>1, <2>3, TaskEffects, OneDestination
    DEF MakeDest, At, Turns, Becomes, TaskOK, Holding
  <2>4. CASE CopyChunk(f)
    BY <2>1, <2>4, TaskEffects, OneDestination
    DEF CopyChunk, At, Turns, Becomes, TaskOK, Holding
  <2>5. CASE CheckSize(f)
    BY <2>1, <2>5, TaskEffects, OneDestination
    DEF CheckSize, At, Turns, Becomes, TaskOK, Holding
  <2>6. CASE RemoveDest(f)
    BY <2>1, <2>6, TaskEffects, OneDestination
    DEF RemoveDest, At, Turns, Becomes, TaskOK, Holding
  <2>7. CASE DiscardPop(f)
    BY <2>1, <2>7, TaskEffects, OneDestination
    DEF DiscardPop, At, Turns, Becomes, TaskOK, Holding
  <2>8. CASE DiscardRemove(f)
    BY <2>1, <2>8, TaskEffects, OneDestination
    DEF DiscardRemove, At, Turns, Becomes, TaskOK, Holding
  <2>9. CASE Ingest(f)
    BY <2>1, <2>9, TaskEffects, OneDestination
    DEF Ingest, At, Turns, Becomes, TaskOK, Holding
  <2>10. CASE Report(f)
    BY <2>1, <2>10, TaskEffects, OneDestination
    DEF Report, At, Turns, Becomes, TaskOK, Holding
  <2>11. CASE FailPop(f)
    <3>1. ~Holding(fin[f]) /\ fin[f].stage = "failing" /\ dest' = dest
      BY <2>1, <2>11 DEF FailPop, At, TaskOK, Holding
    <3>2. /\ \A g \in Completes \ {f} : fin'[g] = fin[g]
          /\ fin'[f].name = fin[f].name /\ fin'[f].outcome = "rejected"
          /\ fin'[f].stage \in {"aborting", "failed"}
      BY <2>11, TaskEffects DEF Turns, Becomes
    <3>3. ~Holding(fin'[f])
      BY <3>2 DEF Holding
    <3> QED
      BY <3>1, <3>2, <3>3, OneDestination
  <2>12. CASE FailRemove(f)
    BY <2>1, <2>12, TaskEffects, OneDestination
    DEF FailRemove, At, Turns, Becomes, TaskOK, Holding
  <2>13. CASE FailReport(f)
    BY <2>1, <2>13, TaskEffects, OneDestination
    DEF FailReport, At, Turns, Becomes, TaskOK, Holding
  <2> QED
    BY <1>1, <2>2, <2>3, <2>4, <2>5, <2>6, <2>7, <2>8, <2>9, <2>10, <2>11, <2>12, <2>13 DEF FinStep
<1>2. ASSUME NEW f \in Completes, NEW u \in UploadIds, Complete(f, u) PROVE DestInv'
  <2>1. /\ fin'[f].stage = "scheduled" /\ fin'[f].outcome = "none"
        /\ fin[f].stage = "idle" /\ TaskOK(fin[f])
    BY <1>2, CompleteEffects DEF TypeInv, TasksOK
  <2> QED
    BY <1>2, <2>1, CompleteEffects, OneDestination DEF Holding, TaskOK
<1>3. CASE Restart
  <2>1. /\ \A f \in Completes :
             /\ Holding(fin'[f]) => Holding(fin[f]) /\ fin'[f].name = fin[f].name
             /\ Holding(fin[f]) \/ fin[f].stage = "lost" =>
                  /\ Holding(fin'[f]) \/ fin'[f].stage = "lost"
                  /\ fin'[f].name = fin[f].name
        /\ dest' = dest
    BY <1>3, RestartEffects DEF Holding, Restart
  <2>2. dest \in [Names -> Completes \cup {NoComplete}]
    BY DEF TypeInv, TypeOK
  <2> QED
    BY <2>1, <2>2 DEF OwnsItsDestination, NoOrphanDestination, HoldsDest, Holding
<1>4. CASE fin' = fin /\ dest' = dest
  BY <1>4 DEF OwnsItsDestination, NoOrphanDestination, HoldsDest
<1> QED
  BY <1>1, <1>2, <1>3, <1>4, TaskFrame

\* A task that has made its destination is its only owner until it lets go, however
\* many tasks pick names at once and whatever becomes of the others.
THEOREM DestinationsOwned == Spec => []OwnsItsDestination
<1>1. Init => WholeInv /\ DestInv
  BY DEF Init, NoFin, WholeInv, NotRejected, Assembled, OnlyWholeUploadsIngested,
         DestInv, OwnsItsDestination, NoOrphanDestination, HoldsDest
<1>2. DestInv => OwnsItsDestination
  BY DEF DestInv
<1> QED
  BY <1>1, <1>2, TypeInvAlways, WholeInvStep, DestInvStep, PTL DEF Spec

\* Nothing is left under the library root by a task that failed.
THEOREM NoOrphans == Spec => []NoOrphanDestination
<1>1. Init => WholeInv /\ DestInv
  BY DEF Init, NoFin, WholeInv, NotRejected, Assembled, OnlyWholeUploadsIngested,
         DestInv, OwnsItsDestination, NoOrphanDestination, HoldsDest
<1>2. DestInv => NoOrphanDestination
  BY DEF DestInv
<1> QED
  BY <1>1, <1>2, TypeInvAlways, WholeInvStep, DestInvStep, PTL DEF Spec

------------------------------------------------------------------------------
(* Sessions and their staging directories *)

\* Every session, abort and task belongs to an upload that has been created, so
\* that its id is not given out again; and a directory is only removed when the
\* session is gone.
StagingInv ==
    /\ LiveSessionHasStaging
    /\ \A u \in sessions \cup doomed : job[u] # "none"
    /\ doomed \cap sessions = {}
    /\ \A f \in Completes : fin[f].stage # "idle" =>
         /\ job[fin[f].upload] # "none"
         /\ fin[f].stage \in {"clearing", "aborting"} => fin[f].upload \notin sessions

\* A job that was created does not become uncreated.
LEMMA JobsStay ==
    ASSUME TypeInv, [Next]_vars
    PROVE  \A j \in JobIds : job[j] # "none" => job'[j] # "none"
<1>0. /\ JobIds = UploadIds \cup Scans /\ job \in [JobIds -> JobStatuses]
      /\ \A f \in Completes : TaskOK(fin[f])
  BY UploadsAssumption DEF TypeInv, TypeOK, JobsTypeOK, TasksOK
<1>1. ASSUME NEW k \in JobIds, Create(k) \/ RequestCancel(k) \/ GoStale(k) \/ Update(k)
             \/ (\E status \in Finished : Finish(k, status))
      PROVE  \A j \in JobIds : job[j] # "none" => job'[j] # "none"
  BY <1>0, <1>1 DEF Create, AfterSweep, RequestCancel, GoStale, Update, Finish, Finished
<1>2. ASSUME ListRecent \/ ForgetJobs
      PROVE  \A j \in JobIds : job[j] # "none" => job'[j] # "none"
  BY <1>0, <1>2 DEF ListRecent, AfterSweep, ForgetJobs
<1>3. \A f \in Completes : PickName(f) => Update(fin[f].upload) /\ fin[f].upload \in JobIds
  BY <1>0 DEF PickName, At, TaskOK
<1>4. \A f \in Completes : CopyChunk(f) => Update(fin[f].upload) /\ fin[f].upload \in JobIds
  BY <1>0 DEF CopyChunk, At, TaskOK
<1>5. \A f \in Completes : Report(f) => Finish(fin[f].upload, "done") /\ fin[f].upload \in JobIds
  BY <1>0 DEF Report, At, TaskOK
<1>6. \A f \in Completes : FailReport(f) => Finish(fin[f].upload, "error") /\ fin[f].upload \in JobIds
  BY <1>0 DEF FailReport, At, TaskOK
<1>7. ASSUME NEW f \in Completes, FinStep(f)
      PROVE  \A j \in JobIds : job[j] # "none" => job'[j] # "none"
  <2>1. CASE PickName(f) \/ CopyChunk(f) \/ Report(f) \/ FailReport(f)
    BY <1>1, <1>3, <1>4, <1>5, <1>6, <2>1 DEF Finished
  <2>2. CASE job' = job
    BY <2>2
  <2> QED
    BY <1>7, <2>1, <2>2 DEF FinStep, MakeDest, CheckSize, RemoveDest, DiscardPop, DiscardRemove,
       Ingest, FailPop, FailRemove, jobVars
<1>8. \A s \in Scans : ScanEnds(s) => \E status \in Finished : Finish(s, status)
  BY DEF ScanEnds, Finished
<1> QED
  BY <1>0, <1>1, <1>2, <1>7, <1>8
  DEF Next, vars, jobVars, InitUpload, AbortPop, AbortRemove, PutCheck, PutStep, PutOpen, PutStream,
      PutTooLarge, PutRecord, Complete, TriggerScan, CancelScan, ScanProgress, JobGoesStale, Poll, Restart

LEMMA StagingInvStep == TypeInv /\ StagingInv /\ [Next]_vars => StagingInv'
<1> SUFFICES ASSUME TypeInv, StagingInv, [Next]_vars PROVE StagingInv'
  OBVIOUS
<1>0. /\ sessions \subseteq dirs /\ doomed \cap sessions = {}
      /\ sessions \subseteq UploadIds /\ dirs \subseteq UploadIds /\ doomed \subseteq UploadIds
      /\ UploadIds \subseteq JobIds
      /\ \A u \in sessions \cup doomed : job[u] # "none"
      /\ \A f \in Completes : fin[f].stage # "idle" =>
           /\ fin[f].upload \in UploadIds
           /\ job[fin[f].upload] # "none"
           /\ fin[f].stage \in {"clearing", "aborting"} => fin[f].upload \notin sessions
      /\ \A j \in JobIds : job[j] # "none" => job'[j] # "none"
      /\ \A f \in Completes : TaskOK(fin[f])
  BY JobsStay, UploadsAssumption
  DEF TypeInv, TypeOK, StagingInv, LiveSessionHasStaging, TasksOK, TaskOK
<1>1. \A u : RmStaging(u) => dirs \ {u} \subseteq dirs'
  BY DEF RmStaging
<1>2. ASSUME NEW u \in UploadIds, InitUpload(u) PROVE StagingInv'
  <2>1. job[u] = "none" /\ job'[u] = "processing"
    BY <1>0, <1>2 DEF InitUpload, Create
  <2> QED
    BY <1>0, <1>2, <2>1 DEF InitUpload, StagingInv, LiveSessionHasStaging
<1>3. ASSUME NEW u \in UploadIds, AbortPop(u) PROVE StagingInv'
  BY <1>0, <1>3 DEF AbortPop, jobVars, StagingInv, LiveSessionHasStaging
<1>4. ASSUME NEW u \in UploadIds, AbortRemove(u) PROVE StagingInv'
  BY <1>0, <1>1, <1>4 DEF AbortRemove, jobVars, StagingInv, LiveSessionHasStaging
<1>5. ASSUME NEW p \in Puts, PutStep(p) PROVE StagingInv'
  BY <1>0, <1>5
  DEF PutStep, PutOpen, PutStream, PutTooLarge, PutRecord, jobVars, StagingInv, LiveSessionHasStaging
<1>6. ASSUME NEW f \in Completes, NEW u \in UploadIds, Complete(f, u) PROVE StagingInv'
  <2>1. u \in sessions /\ UNCHANGED <<jobVars, stagingVars>>
    BY <1>6 DEF Complete
  <2> QED
    BY <1>0, <1>6, <2>1, CompleteEffects
    DEF jobVars, stagingVars, StagingInv, LiveSessionHasStaging
<1>7. ASSUME NEW f \in Completes, FinStep(f) PROVE StagingInv'
  <2>1. /\ \A g \in Completes \ {f} : fin'[g] = fin[g]
        /\ fin[f].stage # "idle" /\ fin'[f].upload = fin[f].upload
        /\ doomed' = doomed /\ sessions' \subseteq sessions
        /\ \/ dirs' = dirs
           \/ dirs \ {fin[f].upload} \subseteq dirs' /\ fin[f].stage \in {"clearing", "aborting"}
        /\ fin'[f].stage \in {"clearing", "aborting"} => fin[f].upload \notin sessions'
    <3> DEFINE Goal ==
          /\ \A g \in Completes \ {f} : fin'[g] = fin[g]
          /\ fin[f].stage # "idle" /\ fin'[f].upload = fin[f].upload
          /\ doomed' = doomed /\ sessions' \subseteq sessions
          /\ \/ dirs' = dirs
             \/ dirs \ {fin[f].upload} \subseteq dirs' /\ fin[f].stage \in {"clearing", "aborting"}
          /\ fin'[f].stage \in {"clearing", "aborting"} => fin[f].upload \notin sessions'
    <3>1. PickName(f) => Goal
      BY <1>0, <1>1, TaskEffects DEF PickName, At, Turns, Becomes, stagingVars, TaskOK
    <3>2. MakeDest(f) => Goal
      BY <1>0, <1>1, TaskEffects DEF MakeDest, At, Turns, Becomes, stagingVars, TaskOK
    <3>3. CopyChunk(f) => Goal
      BY <1>0, <1>1, TaskEffects DEF CopyChunk, At, Turns, Becomes, stagingVars, TaskOK
    <3>4. CheckSize(f) => Goal
      BY <1>0, <1>1, TaskEffects DEF CheckSize, At, Turns, Becomes, stagingVars, TaskOK
    <3>5. RemoveDest(f) => Goal
      BY <1>0, <1>1, TaskEffects DEF RemoveDest, At, Turns, Becomes, stagingVars, TaskOK
    <3>6. DiscardPop(f) => Goal
      BY <1>0, <1>1, TaskEffects DEF DiscardPop, At, Turns, Becomes, stagingVars, TaskOK
    <3>7. DiscardRemove(f) => Goal
      BY <1>0, <1>1, TaskEffects DEF DiscardRemove, At, Turns, Becomes, stagingVars, TaskOK
    <3>8. Ingest(f) => Goal
      BY <1>0, <1>1, TaskEffects DEF Ingest, At, Turns, Becomes, stagingVars, TaskOK
    <3>9. Report(f) => Goal
      BY <1>0, <1>1, TaskEffects DEF Report, At, Turns, Becomes, stagingVars, TaskOK
    <3>10. FailPop(f) => Goal
      BY <1>0, <1>1, TaskEffects DEF FailPop, At, Turns, Becomes, stagingVars, TaskOK
    <3>11. FailRemove(f) => Goal
      BY <1>0, <1>1, TaskEffects DEF FailRemove, At, Turns, Becomes, stagingVars, TaskOK
    <3>12. FailReport(f) => Goal
      BY <1>0, <1>1, TaskEffects DEF FailReport, At, Turns, Becomes, stagingVars, TaskOK
    <3> QED
      BY <1>7, <3>1, <3>2, <3>3, <3>4, <3>5, <3>6, <3>7, <3>8, <3>9, <3>10, <3>11, <3>12 DEF FinStep
  <2> QED
    BY <1>0, <2>1 DEF StagingInv, LiveSessionHasStaging
<1>8. CASE Restart
  BY <1>0, <1>8, RestartEffects DEF Restart, StagingInv, LiveSessionHasStaging
<1>9. CASE UNCHANGED <<stagingVars, fin>>
  BY <1>0, <1>9 DEF stagingVars, StagingInv, LiveSessionHasStaging
<1>10. ASSUME NEW p \in Puts, NEW u \in UploadIds, NEW c \in Chunks, PutCheck(p, u, c) PROVE StagingInv'
  BY <1>9, <1>10 DEF PutCheck
<1>11. ASSUME NEW s \in Scans, TriggerScan(s) \/ CancelScan(s) \/ ScanProgress(s) \/ ScanEnds(s)
       PROVE  StagingInv'
  BY <1>9, <1>11 DEF TriggerScan, CancelScan, ScanProgress, ScanEnds
<1>12. ASSUME NEW j \in JobIds, JobGoesStale(j) PROVE StagingInv'
  BY <1>9, <1>12 DEF JobGoesStale
<1>13. CASE Poll
  BY <1>9, <1>13 DEF Poll
<1>14. CASE UNCHANGED vars
  BY <1>9, <1>14 DEF vars
<1> QED
  BY <1>2, <1>3, <1>4, <1>5, <1>6, <1>7, <1>8, <1>10, <1>11, <1>12, <1>13, <1>14 DEF Next

\* A live session finds its staging directory, whatever aborts, failing tasks, late
\* PUTs and restarts do.
THEOREM StagingSurvives == Spec => []LiveSessionHasStaging
<1>1. Init => StagingInv
  BY DEF Init, NoFin, StagingInv, LiveSessionHasStaging
<1>2. StagingInv => LiveSessionHasStaging
  BY DEF StagingInv
<1> QED
  BY <1>1, <1>2, TypeInvAlways, StagingInvStep, PTL DEF Spec

------------------------------------------------------------------------------
(* Jobs that say "done" *)

Added(r) == r.outcome \in {"kept", "reused"}

\* Nothing takes back what a task has added.
LEMMA AddedStays ==
    ASSUME TypeInv, [Next]_vars
    PROVE  \A g \in Completes : Added(fin[g]) => Added(fin'[g]) /\ fin'[g].upload = fin[g].upload
<1>1. ASSUME NEW f \in Completes, FinStep(f), NEW g \in Completes, Added(fin[g])
      PROVE  Added(fin'[g]) /\ fin'[g].upload = fin[g].upload
  <2>0. /\ TaskOK(fin[f])
        /\ Added(fin[f]) => fin[f].stage \in {"reporting", "kept", "reused", "lost"}
    BY DEF TypeInv, TasksOK, TaskOK, Added
  <2> DEFINE Kept == (\A h \in Completes \ {f} : fin'[h] = fin[h])
                     /\ (Added(fin[f]) => Added(fin'[f]) /\ fin'[f].upload = fin[f].upload)
  <2>1. PickName(f) => Kept
    BY <2>0, TaskEffects DEF PickName, At, Turns, Becomes, Added
  <2>2. MakeDest(f) => Kept
    BY <2>0, TaskEffects DEF MakeDest, At, Turns, Becomes, Added
  <2>3. CopyChunk(f) => Kept
    BY <2>0, TaskEffects DEF CopyChunk, At, Turns, Becomes, Added
  <2>4. CheckSize(f) => Kept
    BY <2>0, TaskEffects DEF CheckSize, At, Turns, Becomes, Added
  <2>5. RemoveDest(f) => Kept
    BY <2>0, TaskEffects DEF RemoveDest, At, Turns, Becomes, Added
  <2>6. DiscardPop(f) => Kept
    BY <2>0, TaskEffects DEF DiscardPop, At, Turns, Becomes, Added
  <2>7. DiscardRemove(f) => Kept
    BY <2>0, TaskEffects DEF DiscardRemove, At, Turns, Becomes, Added
  <2>8. Ingest(f) => Kept
    BY <2>0, TaskEffects DEF Ingest, At, Turns, Becomes, Added
  <2>9. Report(f) => Kept
    BY <2>0, TaskEffects DEF Report, At, Turns, Becomes, Added
  <2>10. FailPop(f) => Kept
    BY <2>0, TaskEffects DEF FailPop, At, Turns, Becomes, Added
  <2>11. FailRemove(f) => Kept
    BY <2>0, TaskEffects DEF FailRemove, At, Turns, Becomes, Added
  <2>12. FailReport(f) => Kept
    BY <2>0, TaskEffects DEF FailReport, At, Turns, Becomes, Added
  <2>13. Kept
    BY <1>1, <2>1, <2>2, <2>3, <2>4, <2>5, <2>6, <2>7, <2>8, <2>9, <2>10, <2>11, <2>12 DEF FinStep
  <2> QED
    BY <1>1, <2>13
<1>2. ASSUME NEW f \in Completes, NEW u \in UploadIds, Complete(f, u), NEW g \in Completes, Added(fin[g])
      PROVE  Added(fin'[g]) /\ fin'[g].upload = fin[g].upload
  BY <1>2, CompleteEffects DEF TypeInv, TasksOK, TaskOK, Added
<1>3. ASSUME Restart, NEW g \in Completes, Added(fin[g])
      PROVE  Added(fin'[g]) /\ fin'[g].upload = fin[g].upload
  BY <1>3, RestartEffects DEF Added
<1> QED
  BY <1>1, <1>2, <1>3, TaskFrame

\* The job of an upload becomes "done" in Report only.
LEMMA OnlyReportFinishes ==
    ASSUME TypeInv, [Next]_vars, NEW u \in UploadIds, job'[u] = "done"
    PROVE  \/ job[u] = "done"
           \/ \E f \in Completes : Report(f) /\ fin[f].upload = u
<1>0. /\ JobIds = UploadIds \cup Scans /\ UploadIds \cap Scans = {}
      /\ job \in [JobIds -> JobStatuses]
      /\ \A f \in Completes : TaskOK(fin[f])
  BY UploadsAssumption DEF TypeInv, TypeOK, JobsTypeOK, TasksOK
<1>1. ASSUME NEW k \in JobIds, Create(k) \/ RequestCancel(k) \/ GoStale(k) \/ Update(k)
      PROVE  job[u] = "done"
  BY <1>0, <1>1 DEF Create, AfterSweep, RequestCancel, GoStale, Update
<1>2. ASSUME ListRecent \/ ForgetJobs PROVE job[u] = "done"
  BY <1>0, <1>2 DEF ListRecent, AfterSweep, ForgetJobs
<1>3. ASSUME NEW s \in Scans, ScanEnds(s) PROVE job[u] = "done"
  BY <1>0, <1>3 DEF ScanEnds, Finish
<1>4. ASSUME NEW f \in Completes, FinStep(f)
      PROVE  job[u] = "done" \/ (Report(f) /\ fin[f].upload = u)
  <2>1. CASE PickName(f) \/ CopyChunk(f)
    BY <2>1 DEF PickName, CopyChunk, Update
  <2>2. CASE Report(f) \/ FailReport(f)
    BY <1>0, <2>2 DEF Report, FailReport, Finish
  <2>3. CASE job' = job
    BY <2>3
  <2> QED
    BY <1>4, <2>1, <2>2, <2>3 DEF FinStep, MakeDest, CheckSize, RemoveDest, DiscardPop, DiscardRemove,
       Ingest, FailPop, FailRemove, jobVars
<1> QED
  BY <1>0, <1>1, <1>2, <1>3, <1>4
  DEF Next, vars, jobVars, InitUpload, AbortPop, AbortRemove, PutCheck, PutStep, PutOpen, PutStream,
      PutTooLarge, PutRecord, Complete, TriggerScan, CancelScan, ScanProgress, JobGoesStale, Poll, Restart

LEMMA DoneStep == TypeInv /\ DoneMeansAdded /\ [Next]_vars => DoneMeansAdded'
<1> SUFFICES ASSUME TypeInv, DoneMeansAdded, [Next]_vars, NEW u \in UploadIds, job'[u] = "done"
             PROVE  \E f \in Completes : fin'[f].upload = u /\ Added(fin'[f])
  BY DEF DoneMeansAdded, Added
<1>1. CASE job[u] = "done"
  BY <1>1, AddedStays DEF DoneMeansAdded, Added
<1>2. ASSUME NEW f \in Completes, Report(f), fin[f].upload = u
      PROVE  \E g \in Completes : fin'[g].upload = u /\ Added(fin'[g])
  BY <1>2, AddedStays DEF Report, At, TypeInv, TasksOK, TaskOK, Added
<1> QED
  BY <1>1, <1>2, OnlyReportFinishes

\* An upload whose job says "done" has been added to the library, or was found there,
\* by one of its tasks.
THEOREM DoneIsTrue == Spec => []DoneMeansAdded
<1>1. Init => DoneMeansAdded
  BY UploadsAssumption DEF Init, JobsInit, DoneMeansAdded
<1> QED
  BY <1>1, TypeInvAlways, DoneStep, PTL DEF Spec

------------------------------------------------------------------------------
(* Scans *)

\* Scans start in the order of their numbers, a running one has a job in flight or
\* none, and behind one that still has its job none has been started.
ScanInv ==
    /\ \A s \in Scans : scan[s] = "idle" <=> job[s] = "none"
    /\ \A s \in Scans : scan[s] = "walking" => job[s] \in InFlight \cup {"swept"}
    /\ \A s, t \in Scans : s < t /\ scan[t] # "idle" => scan[s] # "idle"
    /\ \A s, t \in Scans : s < t /\ scan[s] = "walking" /\ job[s] # "swept" => scan[t] = "idle"

LEMMA ScansExclusive == ScanInv => OneScanAtATime
<1> SUFFICES ASSUME ScanInv, NEW s \in Scans, NEW t \in Scans,
                    s # t, scan[s] = "walking", scan[t] = "walking"
             PROVE  "swept" \in {job[s], job[t]}
  BY DEF OneScanAtATime
<1>1. s < t \/ t < s
  BY UploadsAssumption DEF Scans
<1> QED
  BY <1>1 DEF ScanInv

\* A step that starts no scan: jobs of scans end, or are swept, and walks end.
LEMMA ScansGoOn ==
    ASSUME ScanInv,
           \A s \in Scans :
              /\ scan'[s] = scan[s] \/ (scan[s] = "walking" /\ scan'[s] = "done")
              /\ \/ job'[s] = job[s]
                 \/ /\ job[s] # "none" /\ job'[s] = "swept"
                 \/ /\ job[s] # "none" /\ job'[s] \in InFlight /\ job[s] \in InFlight
                 \/ /\ job[s] \in InFlight \cup Finished /\ job'[s] \in Finished
                    /\ scan'[s] # "walking"
    PROVE  ScanInv'
BY DEF ScanInv, InFlight, Finished

LEMMA ScanInvStep == TypeInv /\ ScanInv /\ [Next]_vars => ScanInv'
<1> SUFFICES ASSUME TypeInv, ScanInv, [Next]_vars PROVE ScanInv'
  OBVIOUS
<1>0. /\ JobIds = UploadIds \cup Scans /\ UploadIds \cap Scans = {} /\ Scans \subseteq Nat
      /\ job \in [JobIds -> JobStatuses] /\ scan \in [Scans -> {"idle", "walking", "done"}]
      /\ \A f \in Completes : TaskOK(fin[f])
  BY UploadsAssumption DEF TypeInv, TypeOK, JobsTypeOK, TasksOK, Scans
<1> DEFINE Swept == \A s \in Scans : job'[s] = job[s] \/ (job[s] # "none" /\ job'[s] = "swept")
<1>1. ASSUME Swept, scan' = scan PROVE ScanInv'
  BY <1>1, ScansGoOn
<1>2. ASSUME NEW u \in UploadIds, Create(u) \/ Update(u) \/ (\E status \in Finished : Finish(u, status))
      PROVE  Swept
  BY <1>0, <1>2 DEF Create, AfterSweep, Sweepable, Exists, InFlight, Finished, Update, Finish
<1>3. ASSUME NEW f \in Completes, FinStep(f) PROVE ScanInv'
  <2>1. CASE job' = job
    <3>1. scan' = scan
      BY <1>3 DEF FinStep, PickName, MakeDest, CopyChunk, CheckSize, RemoveDest, DiscardPop, DiscardRemove,
         Ingest, Report, FailPop, FailRemove, FailReport
    <3> QED
      BY <1>1, <2>1, <3>1
  <2>2. CASE PickName(f) \/ CopyChunk(f)
    BY <2>1, <2>2 DEF PickName, CopyChunk, Update
  <2>3. CASE Report(f) \/ FailReport(f)
    BY <1>0, <1>1, <1>2, <2>3 DEF Report, FailReport, At, TaskOK, Finished
  <2> QED
    BY <1>3, <2>1, <2>2, <2>3 DEF FinStep, MakeDest, CheckSize, RemoveDest, DiscardPop, DiscardRemove,
       Ingest, FailPop, FailRemove, jobVars
<1>4. ASSUME NEW s \in Scans, TriggerScan(s) PROVE ScanInv'
  <2>1. /\ scan[s] = "idle" /\ job[s] = "none"
        /\ \A t \in Scans : t < s => scan[t] # "idle"
        /\ scan' = [scan EXCEPT ![s] = "walking"]
        /\ job'[s] = "processing"
        /\ \A t \in Scans \ {s} : job'[t] = AfterSweep(t)
    BY <1>0, <1>4 DEF TriggerScan, Create
  <2>2. \A t \in Scans : s < t => scan[t] = "idle" /\ job[t] = "none"
    BY <2>1 DEF ScanInv
  <2>3. ASSUME NEW t \in Scans, scan[t] = "walking", AfterSweep(t) # "swept" PROVE FALSE
    <3>1. t < s /\ job[t] \in InFlight /\ t \in ScanJobs
      BY <1>0, <2>1, <2>2, <2>3 DEF ScanInv, AfterSweep, ScanJobs, Exists, InFlight
    <3>2. \A r \in ScanJobs : r <= t
      <4> SUFFICES ASSUME NEW r \in ScanJobs, t < r PROVE FALSE
        BY <1>0 DEF ScanJobs
      <4>1. scan[r] = "idle" /\ job[r] # "none"
        BY <2>3, <3>1 DEF ScanInv, ScanJobs, Exists, InFlight, Finished
      <4> QED
        BY <4>1 DEF ScanInv, ScanJobs
    <3> QED
      BY <1>4, <3>1, <3>2 DEF TriggerScan, NoActiveScan, LatestScan
  <2>4. \A t \in Scans \ {s} :
          /\ scan'[t] = scan[t]
          /\ job'[t] = job[t] \/ (job[t] # "none" /\ job'[t] = "swept")
          /\ scan[t] = "walking" => job'[t] = "swept"
    BY <1>0, <2>1, <2>3 DEF AfterSweep, Sweepable, Exists, InFlight, Finished
  <2>5. scan'[s] = "walking"
    BY <1>0, <2>1
  <2> QED
    BY <1>0, <2>1, <2>2, <2>4, <2>5 DEF ScanInv, InFlight
<1>5. ASSUME NEW s \in Scans, CancelScan(s) PROVE ScanInv'
  BY <1>0, <1>5, ScansGoOn DEF CancelScan, RequestCancel, InFlight
<1>6. ASSUME NEW s \in Scans, ScanEnds(s) PROVE ScanInv'
  <2>1. PICK status \in Finished : Finish(s, status)
    BY <1>6 DEF ScanEnds, Finished
  <2>2. /\ scan' = [scan EXCEPT ![s] = "done"] /\ scan[s] = "walking"
        /\ job' = [job EXCEPT ![s] = IF Exists(s) THEN status ELSE @]
    BY <1>6, <2>1 DEF ScanEnds, Finish
  <2> QED
    BY <1>0, <2>2, ScansGoOn DEF Exists
<1>7. CASE Restart
  BY <1>0, <1>7, ScansGoOn DEF Restart, ForgetJobs, Exists, InFlight, Finished
<1>8. ASSUME Poll PROVE ScanInv'
  <2>1. Swept
    BY <1>0, <1>8 DEF Poll, ListRecent, AfterSweep, Sweepable, Exists, InFlight, Finished
  <2> QED
    BY <1>1, <1>8, <2>1 DEF Poll
<1>9. ASSUME NEW u \in UploadIds, InitUpload(u) PROVE ScanInv'
  BY <1>1, <1>2, <1>9 DEF InitUpload
<1>10. ASSUME job' = job, scan' = scan PROVE ScanInv'
  BY <1>1, <1>10
<1>11. ASSUME NEW u \in UploadIds, AbortPop(u) \/ AbortRemove(u) \/ (\E f \in Completes : Complete(f, u))
       PROVE  ScanInv'
  BY <1>10, <1>11 DEF AbortPop, AbortRemove, Complete, jobVars
<1>12. ASSUME NEW p \in Puts, PutStep(p) \/ (\E u \in UploadIds, c \in Chunks : PutCheck(p, u, c))
       PROVE  ScanInv'
  BY <1>10, <1>12 DEF PutStep, PutOpen, PutStream, PutTooLarge, PutRecord, PutCheck, jobVars
<1>13. ASSUME (\E j \in JobIds : JobGoesStale(j)) \/ (\E s \in Scans : ScanProgress(s)) \/ UNCHANGED vars
       PROVE  ScanInv'
  BY <1>10, <1>13 DEF JobGoesStale, GoStale, ScanProgress, Update, vars, jobVars
<1> QED
  BY <1>3, <1>4, <1>5, <1>6, <1>7, <1>8, <1>9, <1>11, <1>12, <1>13 DEF Next

\* The three together: whatever aborts, retries, failures and restarts do, what is on
\* disk has its owner.
THEOREM FilesAreOwned == Spec => []OwnsItsFiles
<1>1. LiveSessionHasStaging /\ OwnsItsDestination /\ NoOrphanDestination => OwnsItsFiles
  BY DEF OwnsItsFiles
<1> QED
  BY <1>1, StagingSurvives, DestinationsOwned, NoOrphans, PTL

\* Two scans walk the library at once only if the sweep has dropped the job of one.
THEOREM ScansDoNotOverlap == Spec => []OneScanAtATime
<1>1. Init => ScanInv
  BY UploadsAssumption DEF Init, JobsInit, ScanInv
<1> QED
  BY <1>1, TypeInvAlways, ScanInvStep, ScansExclusive, PTL DEF Spec
==============================================================================
