---------------------------- MODULE UpdateProofs ----------------------------
(***************************************************************************)
(* For any number of administrators, pages, jobs, releases, failing calls, *)
(* restarts and crashes: current and previous name complete releases,      *)
(* provided that updates run one at a time, and a restart stays possible,  *)
(* and a rollback undoes the last update, while nobody disturbs anybody;   *)
(* the job store admits one active job until its lock is undercut, and     *)
(* with it one update at a time changes the links.                         *)
(***************************************************************************)
EXTENDS UpdateRun, FiniteSetTheorems, TLAPS

-----------------------------------------------------------------------------
(* The links (ReleaseSwitch).                                              *)

Complete(r) == r # None => tree[r] = "complete"

\* Nothing but .current-PID can name r.
Unlinked(r) ==
    /\ r # current /\ r # previous
    /\ r # tmp["prev"] /\ r # tmp["rbCur"] /\ r # tmp["rbPrev"]
    /\ \A s \in Threads : r # old[s] /\ r # target[s]

Updating(t) == pc[t] \in UpdateSteps

\* Every release that a link names, or that a thread is about to link, is
\* complete.
SourcesComplete ==
    /\ Complete(current) /\ Complete(previous)
    /\ Complete(tmp["prev"]) /\ Complete(tmp["rbCur"]) /\ Complete(tmp["rbPrev"])
    /\ \A t \in Threads : Complete(old[t]) /\ Complete(target[t])

\* The one update in progress works on a release nobody else knows.
UpdateIsPrivate ==
    /\ \A s, t \in Threads : Updating(s) /\ Updating(t) => s = t
    /\ (\A t \in Threads : ~Updating(t)) => tmp["cur"] = None
    /\ \A t \in Threads : Updating(t) =>
        /\ new[t] \in Releases /\ Unlinked(new[t])
        /\ tmp["cur"] \in {None, new[t]}
        /\ pc[t] # "moving" => tree[new[t]] = "complete"
        /\ pc[t] = "moving" => tmp["cur"] = None

SwitchInv == TypeOK /\ SourcesComplete /\ UpdateIsPrivate

\* The invariant of the links holds initially.
LEMMA SwitchInit == Init => SwitchInv
BY ReleaseAssumption DEF Init, SwitchInv, TypeOK, SourcesComplete, UpdateIsPrivate, Complete,
    Updating, UpdateSteps, Steps, NoTmp, Names

\* Steps of updates, of which none begins while there is another.
LEMMA UpdateKeepsInv ==
    ASSUME SwitchInv, NEW t \in Threads, UpdateStep(t),
           BeginUpdate(t) => \A s \in Threads : ~Updating(s)
    PROVE  SwitchInv'
<1> USE ReleaseAssumption DEF SwitchInv, TypeOK, Updating, UpdateSteps, RollbackSteps, Steps, Names,
        Complete, Unlinked, links, process, locals, At, Go, Begins
<1>1. CASE BeginUpdate(t)
  <2>1. TypeOK'  BY <1>1 DEF BeginUpdate
  <2>2. PICK r \in Releases : /\ tree[r] = "absent" /\ tree' = [tree EXCEPT ![r] = "partial"]
                              /\ new' = [new EXCEPT ![t] = r]
    BY <1>1 DEF BeginUpdate
  <2>3. SourcesComplete'  BY <1>1, <2>2 DEF BeginUpdate, SourcesComplete
  <2>4. \A s \in Threads : pc[s] \notin UpdateSteps  BY <1>1
  <2>5. UpdateIsPrivate'  BY <1>1, <2>2, <2>4 DEF BeginUpdate, SourcesComplete, UpdateIsPrivate
  <2> QED  BY <2>1, <2>3, <2>5
<1>2. CASE MoveFiles(t)
  <2>1. TypeOK'  BY <1>2 DEF MoveFiles
  <2>2. SourcesComplete'  BY <1>2 DEF MoveFiles, SourcesComplete
  <2>3. UpdateIsPrivate'  BY <1>2 DEF MoveFiles, UpdateIsPrivate
  <2> QED  BY <2>1, <2>2, <2>3
<1>3. CASE ClearTmp(t)
  BY <1>3 DEF ClearTmp, SourcesComplete, UpdateIsPrivate
<1>4. CASE LinkCurrent(t)
  BY <1>4 DEF LinkCurrent, SourcesComplete, UpdateIsPrivate
<1>5. CASE LinkPrevious(t)
  BY <1>5 DEF LinkPrevious, OldRelease, SourcesComplete, UpdateIsPrivate
<1>6. CASE SwapPrevious(t)
  BY <1>6 DEF SwapPrevious, SourcesComplete, UpdateIsPrivate
<1>7. CASE SwapCurrent(t)
  <2>1. TypeOK'  BY <1>7 DEF SwapCurrent, Over
  <2>2. tmp["cur"] = new[t] /\ tree[new[t]] = "complete"  BY <1>7 DEF SwapCurrent, UpdateIsPrivate
  <2>3. SourcesComplete'  BY <1>7, <2>2 DEF SwapCurrent, Over, SourcesComplete
  <2>4. UpdateIsPrivate'  BY <1>7 DEF SwapCurrent, Over, UpdateIsPrivate
  <2> QED  BY <2>1, <2>3, <2>4
<1>8. CASE AbortUpdate(t)
  <2>1. Updating(t)  BY <1>8 DEF AbortUpdate, UpdateRaises, Raises
  <2>2. TypeOK'  BY <1>8, <2>1 DEF AbortUpdate, Over, CleanedTmp
  <2>3. SourcesComplete'  BY <1>8, <2>1 DEF AbortUpdate, Over, CleanedTmp, SourcesComplete, UpdateIsPrivate
  <2>4. UpdateIsPrivate'  BY <1>8, <2>1 DEF AbortUpdate, Over, CleanedTmp, UpdateIsPrivate
  <2> QED  BY <2>2, <2>3, <2>4
<1> QED  BY <1>1, <1>2, <1>3, <1>4, <1>5, <1>6, <1>7, <1>8 DEF UpdateStep

\* Steps of rollbacks.
LEMMA RollbackKeepsInv ==
    ASSUME SwitchInv, NEW t \in Threads, RollbackStep(t)
    PROVE  SwitchInv'
<1> USE ReleaseAssumption DEF SwitchInv, TypeOK, Updating, UpdateSteps, RollbackSteps, Steps, Names,
        Complete, Unlinked, links, process, locals, At, Go, Begins, SourcesComplete, UpdateIsPrivate
<1>1. CASE BeginRollback(t)  BY <1>1 DEF BeginRollback, RollbackReady
<1>2. CASE ReadCurrent(t)    BY <1>2 DEF ReadCurrent
<1>3. CASE RbClear(t)        BY <1>3 DEF RbClear
<1>4. CASE RbLink(t)         BY <1>4 DEF RbLink
<1>5. CASE RbSwap(t)         BY <1>5 DEF RbSwap
<1>6. CASE RbLinkBack(t)     BY <1>6 DEF RbLinkBack
<1>7. CASE RbSwapBack(t)     BY <1>7 DEF RbSwapBack, Over
<1>8. CASE RollbackFails(t)  BY <1>8 DEF RollbackFails, Raises, Over
<1>9. CASE RollbackFailsHalfWay(t)  BY <1>9 DEF RollbackFailsHalfWay, Raises, Over
<1> QED  BY <1>1, <1>2, <1>3, <1>4, <1>5, <1>6, <1>7, <1>8, <1>9 DEF RollbackStep

\* A new process.
LEMMA StartKeepsInv ==
    ASSUME SwitchInv, StartAgain  PROVE SwitchInv'
<1> USE ReleaseAssumption DEF StartAgain, NoTmp, SwitchInv, TypeOK, Updating, UpdateSteps,
        RollbackSteps, Steps, Names, Complete, Unlinked, links
<1>1. TypeOK'  OBVIOUS
<1>2. SourcesComplete'  BY DEF SourcesComplete
<1>3. UpdateIsPrivate'  BY DEF UpdateIsPrivate
<1> QED  BY <1>1, <1>2, <1>3

\* The strengthening is inductive: what current and previous name, and what any
\* thread may still make them name, is complete, and the release that an update
\* removes when it fails is named by nobody.
THEOREM SwitchAlways ==
    ASSUME OneUpdate  PROVE Spec => []SwitchInv
<1>1. ASSUME SwitchInv, [Next]_vars  PROVE SwitchInv'
  <2>1. CASE UNCHANGED vars
    BY <1>1, <2>1 DEF vars, links, process, locals, SwitchInv, TypeOK, Updating, Complete, Unlinked,
        SourcesComplete, UpdateIsPrivate
  <2>2. CASE Restart \/ Crash  BY <1>1, <2>2, StartKeepsInv DEF Restart, Crash
  <2>3. ASSUME NEW t \in Threads, UpdateStep(t)  PROVE SwitchInv'
    <3>1. BeginUpdate(t) => \A s \in Threads : ~Updating(s)  BY DEF BeginUpdate, Updating
    <3> QED  BY <1>1, <2>3, <3>1, UpdateKeepsInv
  <2>4. ASSUME NEW t \in Threads, RollbackStep(t)  PROVE SwitchInv'
    BY <1>1, <2>4, RollbackKeepsInv
  <2> QED  BY <1>1, <2>1, <2>2, <2>3, <2>4 DEF Next
<1> QED  BY <1>1, SwitchInit, PTL DEF Spec

\* One thread's step, or a new process, keeps the types, whatever the others do.
LEMMA ThreadKeepsTypes ==
    ASSUME TypeOK, NEW t \in Threads, UpdateStep(t) \/ RollbackStep(t)  PROVE TypeOK'
<1> USE ReleaseAssumption DEF TypeOK, UpdateSteps, RollbackSteps, Steps, Names, links, process, locals,
        At, Go, Begins
<1>1. CASE BeginUpdate(t)
  <2>1. PICK r \in Releases : /\ tree' = [tree EXCEPT ![r] = "partial"]
                              /\ new' = [new EXCEPT ![t] = r]
    BY <1>1 DEF BeginUpdate
  <2> QED  BY <1>1, <2>1 DEF BeginUpdate
<1>2. CASE MoveFiles(t)     BY <1>2 DEF MoveFiles
<1>3. CASE ClearTmp(t)      BY <1>3 DEF ClearTmp
<1>4. CASE LinkCurrent(t)   BY <1>4 DEF LinkCurrent
<1>5. CASE LinkPrevious(t)  BY <1>5 DEF LinkPrevious, OldRelease
<1>6. CASE SwapPrevious(t)  BY <1>6 DEF SwapPrevious
<1>7. CASE SwapCurrent(t)   BY <1>7 DEF SwapCurrent, Over
<1>8. CASE AbortUpdate(t)   BY <1>8 DEF AbortUpdate, CleanedTmp, Over
<1>9. CASE BeginRollback(t)  BY <1>9 DEF BeginRollback, RollbackReady
<1>10. CASE ReadCurrent(t)   BY <1>10 DEF ReadCurrent
<1>11. CASE RbClear(t)       BY <1>11 DEF RbClear
<1>12. CASE RbLink(t)        BY <1>12 DEF RbLink
<1>13. CASE RbSwap(t)        BY <1>13 DEF RbSwap
<1>14. CASE RbLinkBack(t)    BY <1>14 DEF RbLinkBack
<1>15. CASE RbSwapBack(t)    BY <1>15 DEF RbSwapBack, Over
<1>16. CASE RollbackFails(t) BY <1>16 DEF RollbackFails, Over
<1>17. CASE RollbackFailsHalfWay(t)  BY <1>17 DEF RollbackFailsHalfWay, Over
<1> QED
  BY <1>1, <1>2, <1>3, <1>4, <1>5, <1>6, <1>7, <1>8, <1>9, <1>10, <1>11, <1>12, <1>13, <1>14, <1>15,
     <1>16, <1>17 DEF UpdateStep, RollbackStep

\* A new process begins with types.
LEMMA StartKeepsTypes ==
    ASSUME TypeOK, StartAgain  PROVE TypeOK'
BY ReleaseAssumption DEF StartAgain, NoTmp, TypeOK, Steps, Names, links

\* Type correctness of the links, the temporary links and the threads' locals, however updates and
\* rollbacks of any number of threads overlap.
THEOREM SwitchTypes == Spec => []TypeOK
<1>1. ASSUME TypeOK, [Next]_vars  PROVE TypeOK'
  <2>1. CASE UNCHANGED vars  BY <1>1, <2>1 DEF vars, links, process, locals, TypeOK
  <2>2. CASE Restart \/ Crash  BY <1>1, <2>2, StartKeepsTypes DEF Restart, Crash
  <2>3. ASSUME NEW t \in Threads, UpdateStep(t) \/ RollbackStep(t)  PROVE TypeOK'
    BY <1>1, <2>3, ThreadKeepsTypes
  <2> QED  BY <1>1, <2>1, <2>2, <2>3 DEF Next
<1>2. Init => TypeOK  BY SwitchInit DEF SwitchInv
<1> QED  BY <1>1, <1>2, PTL DEF Spec

\* Wherever updates, rollbacks, failures, restarts and crashes meet, systemd
\* finds a complete release under current, and rollback one under previous.
THEOREM LinksAlwaysRunnable ==
    ASSUME OneUpdate  PROVE Spec => []LinksRunnable
<1>1. SwitchInv => LinksRunnable
  BY ReleaseAssumption DEF SwitchInv, TypeOK, SourcesComplete, Complete, LinksRunnable
<1> QED  BY <1>1, SwitchAlways, PTL
-----------------------------------------------------------------------------
(* What can be undone *)

\* What a thread that nobody disturbs has read is still so, and what it has linked is what it renames.
Undisturbed(t) ==
    /\ Updating(t) => current = running /\ old[t] = current
    /\ At(t, "swappingPrevious") => tmp["prev"] = old[t]
    /\ At(t, "swappingCurrent") => previous = old[t]
    /\ pc[t] \in {"reading", "rbClearing", "rbLinking", "rbSwapping"} => PendingLayout /\ target[t] = previous
    /\ pc[t] \in {"rbClearing", "rbLinking", "rbSwapping"} => old[t] = current
    /\ At(t, "rbSwapping") => tmp["rbCur"] = target[t]
    /\ pc[t] \in {"rbLinkingBack", "rbSwappingBack"} => current = target[t] /\ running \in {target[t], old[t]}
    /\ At(t, "rbSwappingBack") => tmp["rbPrev"] = old[t]

OneAtATime == \A s, t \in Threads : ~At(s, "idle") /\ ~At(t, "idle") => s = t

UndoInv == ~disturbed => OneAtATime /\ RestartAlwaysAllowed /\ \A t \in Threads : Undisturbed(t)

\* At the beginning there is nothing to disturb.
LEMMA UndoInit == Init => UndoInv
BY DEF Init, UndoInv, OneAtATime, RestartAlwaysAllowed, PendingLayout, Undisturbed, Updating, UpdateSteps, At

\* An update keeps it: alone, it renames what it has linked.
LEMMA UpdateUndoable ==
    ASSUME TypeOK, UndoInv, NEW t \in Threads, UpdateStep(t)  PROVE UndoInv'
<1> USE DEF TypeOK, UndoInv, OneAtATime, RestartAlwaysAllowed, PendingLayout, Undisturbed, Updating,
        UpdateSteps, RollbackSteps, Steps, Names, links, process, locals, At, Go, Begins, Over
<1>1. CASE BeginUpdate(t)  BY <1>1 DEF BeginUpdate, UpdateLayout
<1>2. CASE MoveFiles(t)  BY <1>2 DEF MoveFiles
<1>3. CASE ClearTmp(t)  BY <1>3 DEF ClearTmp
<1>4. CASE LinkCurrent(t)  BY <1>4 DEF LinkCurrent
<1>5. CASE LinkPrevious(t)  BY <1>5 DEF LinkPrevious, OldRelease
<1>6. CASE SwapPrevious(t)  BY <1>6 DEF SwapPrevious
<1>7. CASE SwapCurrent(t)  BY <1>7 DEF SwapCurrent
<1>8. CASE AbortUpdate(t)  BY <1>8 DEF AbortUpdate, UpdateRaises, Raises, CleanedTmp
<1> QED  BY <1>1, <1>2, <1>3, <1>4, <1>5, <1>6, <1>7, <1>8 DEF UpdateStep

\* So does a rollback.
LEMMA RollbackUndoable ==
    ASSUME TypeOK, UndoInv, NEW t \in Threads, RollbackStep(t)  PROVE UndoInv'
<1> USE DEF TypeOK, UndoInv, OneAtATime, RestartAlwaysAllowed, PendingLayout, Undisturbed, Updating,
        UpdateSteps, RollbackSteps, Steps, Names, links, process, locals, At, Go, Begins, Over
<1>1. CASE BeginRollback(t)  BY <1>1 DEF BeginRollback, RollbackReady
<1>2. CASE ReadCurrent(t)  BY <1>2 DEF ReadCurrent
<1>3. CASE RbClear(t)  BY <1>3 DEF RbClear
<1>4. CASE RbLink(t)  BY <1>4 DEF RbLink
<1>5. CASE RbSwap(t)  BY <1>5 DEF RbSwap
<1>6. CASE RbLinkBack(t)  BY <1>6 DEF RbLinkBack
<1>7. CASE RbSwapBack(t)  BY <1>7 DEF RbSwapBack
<1>8. CASE RollbackFails(t)  BY <1>8 DEF RollbackFails, Raises
<1>9. CASE RollbackFailsHalfWay(t)  BY <1>9 DEF RollbackFailsHalfWay, Raises
<1> QED  BY <1>1, <1>2, <1>3, <1>4, <1>5, <1>6, <1>7, <1>8, <1>9 DEF RollbackStep

\* A new process runs what current names.
LEMMA StartUndoable ==
    ASSUME UndoInv, StartAgain  PROVE UndoInv'
BY DEF StartAgain, UndoInv, OneAtATime, RestartAlwaysAllowed, PendingLayout, Undisturbed, Updating,
    UpdateSteps, At, links

\* What UpdateKeepsOld says of a step.
KeepsOld ==
    \A t \in Threads : ~disturbed /\ At(t, "swappingCurrent") /\ current' # current => previous' = current

\* Only the thread that swaps current changes it, when nothing else is under way.
LEMMA StepKeepsOld ==
    ASSUME TypeOK, UndoInv, (\E t \in Threads : UpdateStep(t) \/ RollbackStep(t)) \/ StartAgain
    PROVE  KeepsOld
<1> SUFFICES ASSUME NEW t \in Threads, ~disturbed, At(t, "swappingCurrent"), current' # current
             PROVE  previous' = current
  BY DEF KeepsOld
<1>1. previous = current /\ OneAtATime
  BY DEF UndoInv, Undisturbed, Updating, UpdateSteps, At
<1>2. PICK s \in Threads : SwapCurrent(s) \/ RbSwap(s)
  BY DEF StartAgain, UpdateStep, BeginUpdate, MoveFiles, ClearTmp, LinkCurrent, LinkPrevious, SwapPrevious,
      AbortUpdate, RollbackStep, BeginRollback, ReadCurrent, RbClear, RbLink, RbLinkBack, RbSwapBack,
      RollbackFails, RollbackFailsHalfWay, links
<1>3. SwapCurrent(s)  BY <1>1, <1>2 DEF OneAtATime, RbSwap, At
<1> QED  BY <1>1, <1>3 DEF SwapCurrent

\* Restart and rollback stay possible after any sequence of updates, failed updates, rollbacks and crashes,
\* of any number of threads, unless operations overlapped or a rollback failed half way.
THEOREM UndoAlways == Spec => [](TypeOK /\ UndoInv)
<1>1. ASSUME TypeOK /\ UndoInv, [Next]_vars  PROVE (TypeOK /\ UndoInv)'
  <2>1. CASE UNCHANGED vars
    BY <1>1, <2>1 DEF vars, links, process, locals, TypeOK, UndoInv, OneAtATime, RestartAlwaysAllowed,
        PendingLayout, Undisturbed, Updating, At
  <2>2. CASE Restart \/ Crash  BY <1>1, <2>2, StartKeepsTypes, StartUndoable DEF Restart, Crash
  <2>3. ASSUME NEW t \in Threads, UpdateStep(t) \/ RollbackStep(t)  PROVE (TypeOK /\ UndoInv)'
    BY <1>1, <2>3, ThreadKeepsTypes, UpdateUndoable, RollbackUndoable
  <2> QED  BY <1>1, <2>1, <2>2, <2>3 DEF Next
<1>2. Init => TypeOK /\ UndoInv  BY SwitchInit, UndoInit DEF SwitchInv
<1> QED  BY <1>1, <1>2, PTL DEF Spec

-----------------------------------------------------------------------------
(* The job store, and updates one at a time.                               *)

\* Between the record of its job and the last word on it, a request has a job.
Working  == {"recording", "marking", "performing"}
HasAJob == Working \cup {"finishing", "unlocking"}

\* Who has which job, and which files a job has.
JobsBelong ==
    /\ \A t \in Requests : mine[t] # NoId <=> where[t] \in HasAJob
    /\ \A p \in Pollers : where[p] \in {"idle", "polling", "dropping"}
    /\ \A t \in Requests : mine[t] # NoId => job[mine[t]] # NoFile
    /\ \A s, t \in Requests : mine[s] = mine[t] /\ mine[s] # NoId => s = t
    /\ \A j \in Jobs : job[j] = NoFile => helper[j] = NoFile /\ j \notin helping
    /\ \A t \in Requests : where[t] \in Working => mine[t] \notin helping /\ helper[mine[t]] = NoFile

\* A request that may still create its job holds the lock; what its scan has to show is true when
\* the scan is over.
AdmittedOne ==
    /\ \A t \in Admins : where[t] \in Admitting => lock.by = t
    /\ \A t \in Admins : where[t] = "checking" => \A j \in Jobs : Active(j) => j \in todo[t] \/ seen[t]
    /\ \A t \in Admins : where[t] = "creating" => \A j \in Jobs : ~Active(j)

\* A job that somebody works on is active, so that nobody makes it so again.
WorkIsSeen ==
    /\ \A t \in Admins : where[t] \in Working \cup {"finishing"} /\ helper[mine[t]] = NoFile => Active(mine[t])
    /\ \A j \in helping : helper[j] = NoFile => Active(j)

OneJob == \A i, j \in Jobs : Active(i) /\ Active(j) => i = j

StoreInv == JobsTypeOK /\ JobsBelong /\ (~undercut => AdmittedOne /\ WorkIsSeen /\ OneJob)

\* A step keeps the invariant, and history is not rewritten.
StoreKept == StoreInv' /\ (undercut => undercut')

\* What the threads have in memory, by its types.
ScansTyped ==
    /\ where \in [Requests -> JobSteps]
    /\ todo \in [Requests -> SUBSET Jobs] /\ seen \in [Requests -> BOOLEAN]
    /\ noted \in [Requests -> Locks \cup {NoLock}]
    /\ mine \in [Requests -> Jobs \cup {NoId}]

\* A thread that leaves keeps the types of what threads have in memory.
LEMMA LeavesTyped ==
    ASSUME JobsTypeOK, NEW t \in Requests, Leaves(t)  PROVE ScansTyped'
BY DEF JobsTypeOK, ScansTyped, Leaves, Goes, JobSteps
\* So does one that begins to scan.
LEMMA BeginsTyped ==
    ASSUME JobsTypeOK, NEW t \in Requests, NEW step \in JobSteps, BeginScan(t, step)  PROVE ScansTyped'
BY DEF JobsTypeOK, ScansTyped, BeginScan, Goes, Present

\* A request takes the lock if there is none, or turns to recovery.
LEMMA StartKeeps ==
    ASSUME StoreInv, NEW t \in Admins, Start(t), UNCHANGED deployment  PROVE StoreKept
<1> USE UpdateAssumption DEF StoreInv, JobsTypeOK, JobsBelong, Requests, JobSteps, Working, HasAJob,
        Admitting, files, scans, Goes, Start, Acquired, BeginScan, Present, Locks, Active, Loaded
<1>1. JobsTypeOK'
  <2>1. CASE lock = NoLock  BY <2>1
  <2>2. CASE lock # NoLock
    <3>1. BeginScan(t, "recovering") /\ UNCHANGED files  BY <2>2
    <3>2. ScansTyped'  BY <3>1, BeginsTyped
    <3> QED  BY <3>1, <3>2 DEF ScansTyped
  <2> QED  BY <2>1, <2>2
<1>2. JobsBelong'  OBVIOUS
<1>3. undercut => undercut'  OBVIOUS
<1>4. ASSUME ~undercut, ~undercut'  PROVE AdmittedOne'  BY <1>4 DEF AdmittedOne, NoLock
<1>5. ASSUME ~undercut, ~undercut'  PROVE WorkIsSeen'  BY <1>5 DEF WorkIsSeen
<1>6. ASSUME ~undercut, ~undercut'  PROVE OneJob'  BY <1>6 DEF OneJob
<1> QED  BY <1>1, <1>2, <1>3, <1>4, <1>5, <1>6 DEF StoreKept

\* The lock is filled, and the scan under it begins.
LEMMA FillKeeps ==
    ASSUME StoreInv, NEW t \in Admins, FillLock(t), UNCHANGED deployment  PROVE StoreKept
<1> USE UpdateAssumption DEF StoreInv, JobsTypeOK, JobsBelong, Requests, JobSteps, Working, HasAJob,
        Admitting, files, scans, Goes, FillLock, BeginScan, Present, Locks, Active, Loaded, NoFile,
        ActiveStatuses
<1>1. JobsTypeOK'
  <2>1. ScansTyped'  BY BeginsTyped
  <2>2. lock' \in Locks \cup {NoLock}  BY DEF NoLock
  <2> QED  BY <2>1, <2>2 DEF ScansTyped
<1>2. JobsBelong'  OBVIOUS
<1>3. undercut => undercut'  OBVIOUS
<1>4. ASSUME ~undercut, ~undercut'  PROVE AdmittedOne'  BY <1>4 DEF AdmittedOne, NoLock
<1>5. ASSUME ~undercut, ~undercut'  PROVE WorkIsSeen'  BY <1>5 DEF WorkIsSeen
<1>6. ASSUME ~undercut, ~undercut'  PROVE OneJob'  BY <1>6 DEF OneJob
<1> QED  BY <1>1, <1>2, <1>3, <1>4, <1>5, <1>6 DEF StoreKept

\* The scan is over: what it has not seen active is not, and the lock has been there all the time.
LEMMA CheckedKeeps ==
    ASSUME StoreInv, NEW t \in Admins, Checked(t), UNCHANGED deployment  PROVE StoreKept
<1> USE UpdateAssumption DEF StoreInv, JobsTypeOK, JobsBelong, Requests, JobSteps, Working, HasAJob,
        Admitting, files, scans, Goes, Checked, Scanned, Found, Unlink, Leaves, Active, Loaded
<1>1. JobsTypeOK'
  <2>1. CASE Found(t)
    <3>1. Leaves(t) /\ Unlink(t)  BY <2>1
    <3>2. ScansTyped'  BY <3>1, LeavesTyped
    <3> QED  BY <3>1, <3>2 DEF ScansTyped
  <2>2. CASE ~Found(t)  BY <2>2
  <2> QED  BY <2>1, <2>2
<1>2. JobsBelong'  OBVIOUS
<1>3. undercut => undercut'  OBVIOUS
<1>4. ASSUME ~undercut, ~undercut'  PROVE AdmittedOne'  BY <1>4 DEF AdmittedOne, NoLock
<1>5. ASSUME ~undercut, ~undercut'  PROVE WorkIsSeen'  BY <1>5 DEF WorkIsSeen
<1>6. ASSUME ~undercut, ~undercut'  PROVE OneJob'  BY <1>6 DEF OneJob
<1> QED  BY <1>1, <1>2, <1>3, <1>4, <1>5, <1>6 DEF StoreKept

\* A job is created when none is active.
LEMMA CreateKeeps ==
    ASSUME StoreInv, NEW t \in Admins, CreateJob(t), UNCHANGED deployment  PROVE StoreKept
<1> USE UpdateAssumption DEF StoreInv, JobsTypeOK, JobsBelong, Requests, JobSteps, Working, HasAJob,
        Admitting, files, scans, Goes, CreateJob, Present, Records, Statuses, NoFile, Active, Loaded,
        ActiveStatuses
<1>1. JobsTypeOK'  OBVIOUS
<1>2. JobsBelong'  OBVIOUS
<1>3. undercut => undercut'  OBVIOUS
<1>4. ASSUME ~undercut, ~undercut'  PROVE AdmittedOne'  BY <1>4 DEF AdmittedOne
<1>5. ASSUME ~undercut, ~undercut'  PROVE WorkIsSeen'  BY <1>5 DEF WorkIsSeen
<1>6. ASSUME ~undercut, ~undercut'  PROVE OneJob'  BY <1>6 DEF OneJob, AdmittedOne
<1> QED  BY <1>1, <1>2, <1>3, <1>4, <1>5, <1>6 DEF StoreKept

\* Its creation fails.
LEMMA CreateFailsKeeps ==
    ASSUME StoreInv, NEW t \in Admins, CreateFails(t), UNCHANGED deployment  PROVE StoreKept
<1> USE UpdateAssumption DEF StoreInv, JobsTypeOK, JobsBelong, Requests, JobSteps, Working, HasAJob,
        Admitting, files, scans, Goes, CreateFails, Unlink, Leaves, Active, Loaded
<1>1. JobsTypeOK'  OBVIOUS
<1>2. JobsBelong'  OBVIOUS
<1>3. undercut => undercut'  OBVIOUS
<1>4. ASSUME ~undercut, ~undercut'  PROVE AdmittedOne'  BY <1>4 DEF AdmittedOne, NoLock
<1>5. ASSUME ~undercut, ~undercut'  PROVE WorkIsSeen'  BY <1>5 DEF WorkIsSeen
<1>6. ASSUME ~undercut, ~undercut'  PROVE OneJob'  BY <1>6 DEF OneJob
<1> QED  BY <1>1, <1>2, <1>3, <1>4, <1>5, <1>6 DEF StoreKept

\* The lock names the job.
LEMMA RecordKeeps ==
    ASSUME StoreInv, NEW t \in Admins, RecordJob(t), UNCHANGED deployment  PROVE StoreKept
<1> USE UpdateAssumption DEF StoreInv, JobsTypeOK, JobsBelong, Requests, JobSteps, Working, HasAJob,
        Admitting, files, scans, Goes, RecordJob, Recorded, Locks, Active, Loaded
<1>1. JobsTypeOK'  OBVIOUS
<1>2. JobsBelong'  OBVIOUS
<1>3. undercut => undercut'  OBVIOUS
<1>4. ASSUME ~undercut, ~undercut'  PROVE AdmittedOne'  BY <1>4 DEF AdmittedOne, NoLock
<1>5. ASSUME ~undercut, ~undercut'  PROVE WorkIsSeen'  BY <1>5 DEF WorkIsSeen
<1>6. ASSUME ~undercut, ~undercut'  PROVE OneJob'  BY <1>6 DEF OneJob
<1> QED  BY <1>1, <1>2, <1>3, <1>4, <1>5, <1>6 DEF StoreKept

\* Its record fails: the job stays, and the lock goes.
LEMMA RecordFailsKeeps ==
    ASSUME StoreInv, NEW t \in Admins, RecordFails(t), UNCHANGED deployment  PROVE StoreKept
<1> USE UpdateAssumption DEF StoreInv, JobsTypeOK, JobsBelong, Requests, JobSteps, Working, HasAJob,
        Admitting, files, scans, Goes, RecordFails, Unlink, Leaves, Active, Loaded
<1>1. JobsTypeOK'  OBVIOUS
<1>2. JobsBelong'  OBVIOUS
<1>3. undercut => undercut'  OBVIOUS
<1>4. ASSUME ~undercut, ~undercut'  PROVE AdmittedOne'  BY <1>4 DEF AdmittedOne, NoLock
<1>5. ASSUME ~undercut, ~undercut'  PROVE WorkIsSeen'  BY <1>5 DEF WorkIsSeen
<1>6. ASSUME ~undercut, ~undercut'  PROVE OneJob'  BY <1>6 DEF OneJob
<1> QED  BY <1>1, <1>2, <1>3, <1>4, <1>5, <1>6 DEF StoreKept

\* A stale job is failed: nobody worked on it, or it is undercut.
LEMMA RecoverKeeps ==
    ASSUME StoreInv, NEW t \in Admins, RecoverOne(t), UNCHANGED deployment  PROVE StoreKept
<1> USE UpdateAssumption DEF StoreInv, JobsTypeOK, JobsBelong, Requests, JobSteps, Working, HasAJob,
        Admitting, files, scans, Goes, RecoverOne, Stale, WorkedOn, Records, Statuses, NoFile, Active,
        Loaded, ActiveStatuses
<1>1. JobsTypeOK'  OBVIOUS
<1>2. JobsBelong'  OBVIOUS
<1>3. undercut => undercut'  OBVIOUS
<1>4. ASSUME ~undercut, ~undercut'  PROVE AdmittedOne'  BY <1>4 DEF AdmittedOne
<1>5. ASSUME ~undercut, ~undercut'  PROVE WorkIsSeen'
  <2>1. PICK j \in todo[t] : /\ job' = IF Stale(j) THEN [job EXCEPT ![j] = [status |-> "failed", at |-> now]]
                                                   ELSE job
                             /\ undercut' = (undercut \/ (Stale(j) /\ WorkedOn(j)))
    OBVIOUS
  <2>2. ASSUME NEW i \in Jobs, WorkedOn(i)  PROVE job'[i] = job[i]  BY <1>5, <2>1, <2>2
  <2>3. ASSUME NEW s \in Admins, where'[s] \in Working \cup {"finishing"}, helper'[mine'[s]] = NoFile
        PROVE  Active(mine[s])'
    <3>1. mine[s] \in Jobs /\ WorkedOn(mine[s])  BY <2>3
    <3>2. Active(mine[s])  BY <1>5, <2>3 DEF WorkIsSeen
    <3> QED  BY <2>2, <2>3, <3>1, <3>2
  <2>4. ASSUME NEW i \in helping', helper'[i] = NoFile  PROVE Active(i)'
    <3>1. i \in Jobs /\ WorkedOn(i) /\ Active(i)  BY <1>5, <2>4 DEF WorkIsSeen
    <3> QED  BY <2>2, <2>4, <3>1
  <2> QED  BY <2>3, <2>4 DEF WorkIsSeen
<1>6. ASSUME ~undercut, ~undercut'  PROVE OneJob'  BY <1>6 DEF OneJob
<1> QED  BY <1>1, <1>2, <1>3, <1>4, <1>5, <1>6 DEF StoreKept

\* Recovery looks again.
LEMMA RecoveredKeeps ==
    ASSUME StoreInv, NEW t \in Admins, Recovered(t), UNCHANGED deployment  PROVE StoreKept
<1> USE UpdateAssumption DEF StoreInv, JobsTypeOK, JobsBelong, Requests, JobSteps, Working, HasAJob,
        Admitting, files, scans, Goes, Recovered, Scanned, BeginScan, Present, Active, Loaded
<1>1. JobsTypeOK'  OBVIOUS
<1>2. JobsBelong'  OBVIOUS
<1>3. undercut => undercut'  OBVIOUS
<1>4. ASSUME ~undercut, ~undercut'  PROVE AdmittedOne'  BY <1>4 DEF AdmittedOne
<1>5. ASSUME ~undercut, ~undercut'  PROVE WorkIsSeen'  BY <1>5 DEF WorkIsSeen
<1>6. ASSUME ~undercut, ~undercut'  PROVE OneJob'  BY <1>6 DEF OneJob
<1> QED  BY <1>1, <1>2, <1>3, <1>4, <1>5, <1>6 DEF StoreKept

\* It sees an active job, or turns to the lock.
LEMMA RecheckedKeeps ==
    ASSUME StoreInv, NEW t \in Admins, Rechecked(t), UNCHANGED deployment  PROVE StoreKept
<1> USE UpdateAssumption DEF StoreInv, JobsTypeOK, JobsBelong, Requests, JobSteps, Working, HasAJob,
        Admitting, files, scans, Goes, Rechecked, Leaves, Scanned, Active, Loaded
<1>1. JobsTypeOK'
  <2>1. CASE seen[t]
    <3>1. Leaves(t)  BY <2>1
    <3>2. ScansTyped'  BY <3>1, LeavesTyped
    <3> QED  BY <3>1, <3>2 DEF ScansTyped
  <2>2. CASE ~seen[t]  BY <2>2
  <2> QED  BY <2>1, <2>2
<1>2. JobsBelong'  OBVIOUS
<1>3. undercut => undercut'  OBVIOUS
<1>4. ASSUME ~undercut, ~undercut'  PROVE AdmittedOne'  BY <1>4 DEF AdmittedOne
<1>5. ASSUME ~undercut, ~undercut'  PROVE WorkIsSeen'  BY <1>5 DEF WorkIsSeen
<1>6. ASSUME ~undercut, ~undercut'  PROVE OneJob'  BY <1>6 DEF OneJob
<1> QED  BY <1>1, <1>2, <1>3, <1>4, <1>5, <1>6 DEF StoreKept

\* It reads the lock.
LEMMA ReadLockKeeps ==
    ASSUME StoreInv, NEW t \in Admins, ReadLock(t), UNCHANGED deployment  PROVE StoreKept
<1> USE UpdateAssumption DEF StoreInv, JobsTypeOK, JobsBelong, Requests, JobSteps, Working, HasAJob,
        Admitting, files, scans, Goes, ReadLock, Active, Loaded
<1>1. JobsTypeOK'  OBVIOUS
<1>2. JobsBelong'  OBVIOUS
<1>3. undercut => undercut'  OBVIOUS
<1>4. ASSUME ~undercut, ~undercut'  PROVE AdmittedOne'  BY <1>4 DEF AdmittedOne
<1>5. ASSUME ~undercut, ~undercut'  PROVE WorkIsSeen'  BY <1>5 DEF WorkIsSeen
<1>6. ASSUME ~undercut, ~undercut'  PROVE OneJob'  BY <1>6 DEF OneJob
<1> QED  BY <1>1, <1>2, <1>3, <1>4, <1>5, <1>6 DEF StoreKept

\* It removes the lock it takes for abandoned: not that of a request that is creating its job, or it
\* is undercut.
LEMMA JudgeKeeps ==
    ASSUME StoreInv, NEW t \in Admins, Judge(t), UNCHANGED deployment  PROVE StoreKept
<1> USE UpdateAssumption DEF StoreInv, JobsTypeOK, JobsBelong, Requests, JobSteps, Working, HasAJob,
        Admitting, files, scans, Goes, Judge, Unlink, Leaves, Active, Loaded
<1>1. JobsTypeOK'
  <2>1. CASE Removable(t)  BY <2>1
  <2>2. CASE ~Removable(t)
    <3>1. Leaves(t) /\ UNCHANGED files  BY <2>2
    <3>2. ScansTyped'  BY <3>1, LeavesTyped
    <3> QED  BY <3>1, <3>2 DEF ScansTyped
  <2> QED  BY <2>1, <2>2
<1>2. JobsBelong'  OBVIOUS
<1>3. undercut => undercut'  OBVIOUS
<1>4. ASSUME ~undercut, ~undercut'  PROVE AdmittedOne'
  <2>1. CASE Removable(t)
    <3>1. ASSUME NEW s \in Admins, where'[s] \in Admitting  PROVE FALSE
      <4>1. s # t /\ where[s] \in Admitting  BY <2>1, <3>1
      <4>2. lock.by = s  BY <1>4, <4>1 DEF AdmittedOne
      <4> QED  BY <1>4, <2>1, <4>1, <4>2
    <3> QED  BY <3>1 DEF AdmittedOne
  <2>2. CASE ~Removable(t)  BY <2>2, <1>4 DEF AdmittedOne, NoLock
  <2> QED  BY <2>1, <2>2
<1>5. ASSUME ~undercut, ~undercut'  PROVE WorkIsSeen'
  <2>1. CASE Removable(t)  BY <2>1, <1>5 DEF WorkIsSeen
  <2>2. CASE ~Removable(t)  BY <2>2, <1>5 DEF WorkIsSeen
  <2> QED  BY <2>1, <2>2
<1>6. ASSUME ~undercut, ~undercut'  PROVE OneJob'
  <2>1. CASE Removable(t)  BY <2>1, <1>6 DEF OneJob
  <2>2. CASE ~Removable(t)  BY <2>2, <1>6 DEF OneJob
  <2> QED  BY <2>1, <2>2
<1> QED  BY <1>1, <1>2, <1>3, <1>4, <1>5, <1>6 DEF StoreKept

\* It takes the lock, or gives up.
LEMMA AgainKeeps ==
    ASSUME StoreInv, NEW t \in Admins, AcquireAgain(t), UNCHANGED deployment  PROVE StoreKept
<1> USE UpdateAssumption DEF StoreInv, JobsTypeOK, JobsBelong, Requests, JobSteps, Working, HasAJob,
        Admitting, files, scans, Goes, AcquireAgain, Acquired, Leaves, Locks, Active, Loaded
<1>1. JobsTypeOK'
  <2>1. CASE lock = NoLock  BY <2>1
  <2>2. CASE lock # NoLock
    <3>1. Leaves(t) /\ UNCHANGED files  BY <2>2
    <3>2. ScansTyped'  BY <3>1, LeavesTyped
    <3> QED  BY <3>1, <3>2 DEF ScansTyped
  <2> QED  BY <2>1, <2>2
<1>2. JobsBelong'  OBVIOUS
<1>3. undercut => undercut'  OBVIOUS
<1>4. ASSUME ~undercut, ~undercut'  PROVE AdmittedOne'  BY <1>4 DEF AdmittedOne, NoLock
<1>5. ASSUME ~undercut, ~undercut'  PROVE WorkIsSeen'  BY <1>5 DEF WorkIsSeen
<1>6. ASSUME ~undercut, ~undercut'  PROVE OneJob'  BY <1>6 DEF OneJob
<1> QED  BY <1>1, <1>2, <1>3, <1>4, <1>5, <1>6 DEF StoreKept

\* The job, active already, is marked running.
LEMMA MarkKeeps ==
    ASSUME StoreInv, NEW t \in Admins, MarkRunning(t), UNCHANGED deployment  PROVE StoreKept
<1> USE UpdateAssumption DEF StoreInv, JobsTypeOK, JobsBelong, Requests, JobSteps, Working, HasAJob,
        Admitting, files, scans, Goes, MarkRunning, WriteJob, Records, Statuses, NoFile, Active, Loaded,
        ActiveStatuses
<1>1. JobsTypeOK'  OBVIOUS
<1>2. JobsBelong'  OBVIOUS
<1>3. undercut => undercut'  OBVIOUS
<1>4. ASSUME ~undercut, ~undercut'  PROVE AdmittedOne'  BY <1>4 DEF AdmittedOne, WorkIsSeen
<1>5. ASSUME ~undercut, ~undercut'  PROVE WorkIsSeen'  BY <1>5 DEF WorkIsSeen
<1>6. ASSUME ~undercut, ~undercut'  PROVE OneJob'  BY <1>6 DEF OneJob, WorkIsSeen
<1> QED  BY <1>1, <1>2, <1>3, <1>4, <1>5, <1>6 DEF StoreKept

\* A scan reads one job.
LEMMA ReadOneKeeps ==
    ASSUME StoreInv, NEW t \in Requests, ReadOne(t), UNCHANGED deployment  PROVE StoreKept
<1> USE UpdateAssumption DEF StoreInv, JobsTypeOK, JobsBelong, Requests, JobSteps, Working, HasAJob,
        Admitting, files, scans, Goes, ReadOne, Active, Loaded
<1>1. JobsTypeOK'  OBVIOUS
<1>2. JobsBelong'  OBVIOUS
<1>3. undercut => undercut'  OBVIOUS
<1>4. ASSUME ~undercut, ~undercut'  PROVE AdmittedOne'
  <2>1. PICK j \in todo[t] : /\ todo' = [todo EXCEPT ![t] = @ \ {j}]
                             /\ seen' = [seen EXCEPT ![t] = @ \/ Active(j)]
    OBVIOUS
  <2>2. ASSUME NEW s \in Admins, where'[s] = "checking", NEW i \in Jobs, Active(i)'
        PROVE  i \in todo'[s] \/ seen'[s]
    <3>1. Active(i) /\ (i \in todo[s] \/ seen[s])  BY <1>4, <2>2 DEF AdmittedOne
    <3>2. CASE s # t  BY <2>1, <3>1, <3>2
    <3>3. CASE s = t /\ i = j  BY <2>1, <3>1, <3>3, Zenon
    <3>4. CASE s = t /\ i # j  BY <2>1, <3>1, <3>4
    <3> QED  BY <3>2, <3>3, <3>4
  <2> QED  BY <1>4, <2>2 DEF AdmittedOne
<1>5. ASSUME ~undercut, ~undercut'  PROVE WorkIsSeen'  BY <1>5 DEF WorkIsSeen
<1>6. ASSUME ~undercut, ~undercut'  PROVE OneJob'  BY <1>6 DEF OneJob
<1> QED  BY <1>1, <1>2, <1>3, <1>4, <1>5, <1>6 DEF StoreKept

\* The job is over.
LEMMA PerformedKeeps ==
    ASSUME StoreInv, NEW t \in Admins, NEW status \in {"succeeded", "failed"}, Performed(t, status),
           UNCHANGED deployment
    PROVE  StoreKept
<1> USE UpdateAssumption DEF StoreInv, JobsTypeOK, JobsBelong, Requests, JobSteps, Working, HasAJob,
        Admitting, files, scans, Goes, Performed, WriteJob, Records, Statuses, NoFile, Active, Loaded,
        ActiveStatuses
<1>1. JobsTypeOK'  OBVIOUS
<1>2. JobsBelong'  OBVIOUS
<1>3. undercut => undercut'  OBVIOUS
<1>4. ASSUME ~undercut, ~undercut'  PROVE AdmittedOne'  BY <1>4 DEF AdmittedOne
<1>5. ASSUME ~undercut, ~undercut'  PROVE WorkIsSeen'  BY <1>5 DEF WorkIsSeen
<1>6. ASSUME ~undercut, ~undercut'  PROVE OneJob'  BY <1>6 DEF OneJob
<1> QED  BY <1>1, <1>2, <1>3, <1>4, <1>5, <1>6 DEF StoreKept

\* The job goes on in a helper.
LEMMA HandsOverKeeps ==
    ASSUME StoreInv, NEW t \in Admins, HandsOver(t), UNCHANGED deployment  PROVE StoreKept
<1> USE UpdateAssumption DEF StoreInv, JobsTypeOK, JobsBelong, Requests, JobSteps, Working, HasAJob,
        Admitting, files, scans, Goes, HandsOver, Active, Loaded
<1>1. JobsTypeOK'  OBVIOUS
<1>2. JobsBelong'  OBVIOUS
<1>3. undercut => undercut'  OBVIOUS
<1>4. ASSUME ~undercut, ~undercut'  PROVE AdmittedOne'  BY <1>4 DEF AdmittedOne
<1>5. ASSUME ~undercut, ~undercut'  PROVE WorkIsSeen'  BY <1>5 DEF WorkIsSeen
<1>6. ASSUME ~undercut, ~undercut'  PROVE OneJob'  BY <1>6 DEF OneJob
<1> QED  BY <1>1, <1>2, <1>3, <1>4, <1>5, <1>6 DEF StoreKept

\* The job that a helper works on is written once more, and stays what it was.
LEMMA FinishKeeps ==
    ASSUME StoreInv, NEW t \in Admins, Finish(t), UNCHANGED deployment  PROVE StoreKept
<1> USE UpdateAssumption DEF StoreInv, JobsTypeOK, JobsBelong, Requests, JobSteps, Working, HasAJob,
        Admitting, files, scans, Goes, Finish, WriteJob, Leaves, Records, Statuses, NoFile, Active, Loaded,
        ActiveStatuses
<1>1. JobsTypeOK'  OBVIOUS
<1>2. JobsBelong'  OBVIOUS
<1>3. undercut => undercut'  OBVIOUS
<1>4. ASSUME ~undercut, ~undercut'  PROVE AdmittedOne'
  BY <1>4 DEF AdmittedOne, WorkIsSeen, NoLock
<1>5. ASSUME ~undercut, ~undercut'  PROVE WorkIsSeen'  BY <1>5 DEF WorkIsSeen
<1>6. ASSUME ~undercut, ~undercut'  PROVE OneJob'  BY <1>6 DEF OneJob, WorkIsSeen
<1> QED  BY <1>1, <1>2, <1>3, <1>4, <1>5, <1>6 DEF StoreKept

\* The end of the request.
LEMMA UnlockKeeps ==
    ASSUME StoreInv, NEW t \in Admins, UnlockFinished(t), UNCHANGED deployment  PROVE StoreKept
<1> USE UpdateAssumption DEF StoreInv, JobsTypeOK, JobsBelong, Requests, JobSteps, Working, HasAJob,
        Admitting, files, scans, Goes, UnlockFinished, Unlink, Leaves, Active, Loaded
<1>1. JobsTypeOK'  OBVIOUS
<1>2. JobsBelong'  OBVIOUS
<1>3. undercut => undercut'  OBVIOUS
<1>4. ASSUME ~undercut, ~undercut'  PROVE AdmittedOne'  BY <1>4 DEF AdmittedOne, NoLock
<1>5. ASSUME ~undercut, ~undercut'  PROVE WorkIsSeen'  BY <1>5 DEF WorkIsSeen
<1>6. ASSUME ~undercut, ~undercut'  PROVE OneJob'  BY <1>6 DEF OneJob
<1> QED  BY <1>1, <1>2, <1>3, <1>4, <1>5, <1>6 DEF StoreKept

\* The helper writes its status.
LEMMA ReportsKeeps ==
    ASSUME StoreInv, NEW j \in Jobs, HelperReports(j), UNCHANGED deployment  PROVE StoreKept
<1> USE UpdateAssumption DEF StoreInv, JobsTypeOK, JobsBelong, Requests, JobSteps, Working, HasAJob,
        Admitting, files, scans, Goes, HelperReports, Records, Statuses, NoFile, Active, Loaded,
        ActiveStatuses
<1>1. JobsTypeOK'  OBVIOUS
<1>2. JobsBelong'  OBVIOUS
<1>3. undercut => undercut'  OBVIOUS
<1>4. ASSUME ~undercut, ~undercut'  PROVE AdmittedOne'  BY <1>4 DEF AdmittedOne, WorkIsSeen
<1>5. ASSUME ~undercut, ~undercut'  PROVE WorkIsSeen'  BY <1>5 DEF WorkIsSeen
<1>6. ASSUME ~undercut, ~undercut'  PROVE OneJob'  BY <1>6 DEF OneJob, WorkIsSeen
<1> QED  BY <1>1, <1>2, <1>3, <1>4, <1>5, <1>6 DEF StoreKept

\* The helper dies.
LEMMA HelperDiesKeeps ==
    ASSUME StoreInv, NEW j \in Jobs, HelperDies(j), UNCHANGED deployment  PROVE StoreKept
<1> USE UpdateAssumption DEF StoreInv, JobsTypeOK, JobsBelong, Requests, JobSteps, Working, HasAJob,
        Admitting, files, scans, Goes, HelperDies, Active, Loaded
<1>1. JobsTypeOK'  OBVIOUS
<1>2. JobsBelong'  OBVIOUS
<1>3. undercut => undercut'  OBVIOUS
<1>4. ASSUME ~undercut, ~undercut'  PROVE AdmittedOne'  BY <1>4 DEF AdmittedOne
<1>5. ASSUME ~undercut, ~undercut'  PROVE WorkIsSeen'  BY <1>5 DEF WorkIsSeen
<1>6. ASSUME ~undercut, ~undercut'  PROVE OneJob'  BY <1>6 DEF OneJob
<1> QED  BY <1>1, <1>2, <1>3, <1>4, <1>5, <1>6 DEF StoreKept

\* A page lists the jobs.
LEMMA PollKeeps ==
    ASSUME StoreInv, NEW p \in Pollers, Poll(p), UNCHANGED deployment  PROVE StoreKept
<1> USE UpdateAssumption DEF StoreInv, JobsTypeOK, JobsBelong, Requests, JobSteps, Working, HasAJob,
        Admitting, files, scans, Goes, Poll, BeginScan, Present, Active, Loaded
<1>1. JobsTypeOK'  OBVIOUS
<1>2. JobsBelong'  OBVIOUS
<1>3. undercut => undercut'  OBVIOUS
<1>4. ASSUME ~undercut, ~undercut'  PROVE AdmittedOne'  BY <1>4 DEF AdmittedOne
<1>5. ASSUME ~undercut, ~undercut'  PROVE WorkIsSeen'  BY <1>5 DEF WorkIsSeen
<1>6. ASSUME ~undercut, ~undercut'  PROVE OneJob'  BY <1>6 DEF OneJob
<1> QED  BY <1>1, <1>2, <1>3, <1>4, <1>5, <1>6 DEF StoreKept

\* It has seen them.
LEMMA PolledKeeps ==
    ASSUME StoreInv, NEW p \in Pollers, Polled(p), UNCHANGED deployment  PROVE StoreKept
<1> USE UpdateAssumption DEF StoreInv, JobsTypeOK, JobsBelong, Requests, JobSteps, Working, HasAJob,
        Admitting, files, scans, Goes, Polled, Scanned, Leaves, Active, Loaded
<1>1. JobsTypeOK'
  <2>1. CASE seen[p]
    <3>1. Leaves(p)  BY <2>1
    <3>2. ScansTyped'  BY <3>1, LeavesTyped
    <3> QED  BY <3>1, <3>2 DEF ScansTyped
  <2>2. CASE ~seen[p]  BY <2>2
  <2> QED  BY <2>1, <2>2
<1>2. JobsBelong'  OBVIOUS
<1>3. undercut => undercut'  OBVIOUS
<1>4. ASSUME ~undercut, ~undercut'  PROVE AdmittedOne'  BY <1>4 DEF AdmittedOne
<1>5. ASSUME ~undercut, ~undercut'  PROVE WorkIsSeen'  BY <1>5 DEF WorkIsSeen
<1>6. ASSUME ~undercut, ~undercut'  PROVE OneJob'  BY <1>6 DEF OneJob
<1> QED  BY <1>1, <1>2, <1>3, <1>4, <1>5, <1>6 DEF StoreKept

\* It removes the lock when it saw no active job.
LEMMA DropKeeps ==
    ASSUME StoreInv, NEW p \in Pollers, Drop(p), UNCHANGED deployment  PROVE StoreKept
<1> USE UpdateAssumption DEF StoreInv, JobsTypeOK, JobsBelong, Requests, JobSteps, Working, HasAJob,
        Admitting, files, scans, Goes, Drop, Unlink, Leaves, Active, Loaded
<1>1. JobsTypeOK'  OBVIOUS
<1>2. JobsBelong'  OBVIOUS
<1>3. undercut => undercut'  OBVIOUS
<1>4. ASSUME ~undercut, ~undercut'  PROVE AdmittedOne'  BY <1>4 DEF AdmittedOne, NoLock
<1>5. ASSUME ~undercut, ~undercut'  PROVE WorkIsSeen'  BY <1>5 DEF WorkIsSeen
<1>6. ASSUME ~undercut, ~undercut'  PROVE OneJob'  BY <1>6 DEF OneJob
<1> QED  BY <1>1, <1>2, <1>3, <1>4, <1>5, <1>6 DEF StoreKept

\* The clock.
LEMMA TickKeeps ==
    ASSUME StoreInv, Tick, UNCHANGED deployment  PROVE StoreKept
<1> USE UpdateAssumption DEF StoreInv, JobsTypeOK, JobsBelong, Requests, JobSteps, Working, HasAJob,
        Admitting, files, scans, Goes, Tick, Locks, Records, NoFile, Active, Loaded
<1>1. JobsTypeOK'  OBVIOUS
<1>2. JobsBelong'  OBVIOUS
<1>3. undercut => undercut'  OBVIOUS
<1>4. ASSUME ~undercut, ~undercut'  PROVE AdmittedOne'  BY <1>4 DEF AdmittedOne, NoLock
<1>5. ASSUME ~undercut, ~undercut'  PROVE WorkIsSeen'  BY <1>5 DEF WorkIsSeen
<1>6. ASSUME ~undercut, ~undercut'  PROVE OneJob'  BY <1>6 DEF OneJob
<1> QED  BY <1>1, <1>2, <1>3, <1>4, <1>5, <1>6 DEF StoreKept

\* At the beginning there are no jobs, and no lock.
LEMMA StoreBegins == JobsInit => StoreInv
<1> SUFFICES ASSUME JobsInit  PROVE StoreInv  OBVIOUS
<1> USE UpdateAssumption DEF JobsInit, Requests
<1>1. JobsTypeOK
  <2>1. now \in 0 .. MaxTime  OBVIOUS
  <2>2. where \in [Requests -> JobSteps] /\ seen \in [Requests -> BOOLEAN]  BY DEF JobSteps
  <2> QED  BY <2>1, <2>2 DEF JobsTypeOK
<1>2. JobsBelong  BY DEF JobsBelong, Working, HasAJob
<1>3. AdmittedOne  BY DEF AdmittedOne, Admitting
<1>4. \A j \in Jobs : ~Active(j)  BY DEF Active, Loaded, NoFile, ActiveStatuses
<1> QED  BY <1>1, <1>2, <1>3, <1>4 DEF StoreInv, WorkIsSeen, OneJob, Working

\* The service dies, or is restarted: its threads are gone, the files and the helpers stay.
LEMMA ThreadsGoneKeep ==
    ASSUME StoreInv, ThreadsGone, UNCHANGED deployment, crashed' \in BOOLEAN  PROVE StoreKept
<1> USE UpdateAssumption DEF StoreInv, JobsTypeOK, JobsBelong, Requests, JobSteps, Working, HasAJob,
        Admitting, files, ThreadsGone, Active, Loaded
<1>1. JobsTypeOK' /\ JobsBelong'  OBVIOUS
<1>2. undercut' = undercut  OBVIOUS
<1>3. ASSUME ~undercut  PROVE AdmittedOne'  BY <1>3 DEF AdmittedOne
<1>4. ASSUME ~undercut  PROVE WorkIsSeen'  BY <1>4 DEF WorkIsSeen
<1>5. ASSUME ~undercut  PROVE OneJob'  BY <1>5 DEF OneJob
<1> QED  BY <1>1, <1>2, <1>3, <1>4, <1>5 DEF StoreKept

\* A request's steps before and after what an update does on disk.
LEMMA RequestsKeep ==
    ASSUME StoreInv, NEW t \in Admins, BeforeUpdate(t) \/ Perform(t) \/ AfterUpdate(t), UNCHANGED deployment
    PROVE  StoreKept
<1>1. ASSUME ReadOne(t)  PROVE StoreKept  BY <1>1, ReadOneKeeps DEF Requests
<1> QED
  BY <1>1, StartKeeps, FillKeeps, CheckedKeeps, CreateKeeps, CreateFailsKeeps, RecordKeeps, RecordFailsKeeps,
     RecoverKeeps, RecoveredKeeps, RecheckedKeeps, ReadLockKeeps, JudgeKeeps, AgainKeeps, MarkKeeps, PerformedKeeps,
     HandsOverKeeps, FinishKeeps, UnlockKeeps DEF BeforeUpdate, Perform, AfterUpdate

\* The steps of pages and helpers.
LEMMA WatchersKeep ==
    ASSUME StoreInv, (\E p \in Pollers : PollerStep(p)) \/ (\E j \in Jobs : HelperStep(j))
    PROVE  StoreKept
<1>1. ASSUME NEW p \in Pollers, PollerStep(p)  PROVE StoreKept
  <2>1. ASSUME ReadOne(p), UNCHANGED deployment  PROVE StoreKept  BY <2>1, ReadOneKeeps DEF Requests
  <2> QED  BY <1>1, <2>1, PollKeeps, PolledKeeps, DropKeeps DEF PollerStep
<1>2. ASSUME NEW j \in Jobs, HelperStep(j)  PROVE StoreKept
  BY <1>2, ReportsKeeps, HelperDiesKeeps DEF HelperStep
<1> QED  BY <1>1, <1>2

\* Nothing happens to the store.
LEMMA StoreStutters ==
    ASSUME StoreInv, UNCHANGED jobVars  PROVE StoreKept
BY DEF StoreInv, JobsTypeOK, JobsBelong, AdmittedOne, WorkIsSeen, OneJob, Admitting, Active, Loaded,
    jobVars, files, scans, StoreKept

\* One active job is at most one.
LEMMA OneIsAtMostOne == OneJob => AtMostOneActive
<1> SUFFICES ASSUME OneJob  PROVE Cardinality(ActiveJobs) <= 1  BY DEF AtMostOneActive
<1>1. \A i, j \in ActiveJobs : i = j  BY DEF OneJob, ActiveJobs, Present
<1>2. CASE ActiveJobs = {}  BY <1>2, FS_EmptySet
<1>3. CASE ActiveJobs # {}
  <2>1. PICK i : i \in ActiveJobs  BY <1>3
  <2>2. ActiveJobs = {i}  BY <1>1, <2>1
  <2>3. Cardinality({i}) = 1  BY FS_Singleton
  <2> QED  BY <2>2, <2>3
<1> QED  BY <1>2, <1>3

\* The invariant of the store is inductive, whoever polls, dies or recovers when.
THEOREM StoreAlways == JobsSpec => []StoreInv
<1>1. ASSUME StoreInv, [JobsNext]_jobVars  PROVE StoreInv'
  <2> USE DEF StoreKept
  <2>1. CASE UNCHANGED jobVars  BY <1>1, <2>1, StoreStutters
  <2>2. ASSUME NEW t \in Admins, AdminStep(t)  PROVE StoreInv'  BY <1>1, <2>2, RequestsKeep DEF AdminStep
  <2>3. CASE (\E p \in Pollers : PollerStep(p)) \/ (\E j \in Jobs : HelperStep(j))
    BY <1>1, <2>3, WatchersKeep
  <2>4. CASE UNCHANGED deployment /\ ServiceDies  BY <1>1, <2>4, ThreadsGoneKeep DEF ServiceDies
  <2>5. CASE UNCHANGED deployment /\ Tick  BY <1>1, <2>5, TickKeeps
  <2> QED  BY <1>1, <2>1, <2>2, <2>3, <2>4, <2>5 DEF JobsNext
<1> QED  BY <1>1, StoreBegins, PTL DEF JobsSpec

\* For any number of administrators and pages: the store never holds two active jobs, until a lock is
\* removed from under a request that has looked and not yet created its job, or a job that is worked on is
\* failed as stale.
THEOREM StoreAdmitsOneJob == JobsSpec => []AdmitsOneActive
<1>1. StoreInv => AdmitsOneActive  BY OneIsAtMostOne DEF StoreInv, AdmitsOneActive
<1> QED  BY <1>1, StoreAlways, PTL

-----------------------------------------------------------------------------
(* The update that the job stands for *)

\* What a request awaits from the thread that changes the links.
OutcomesFollow ==
    /\ acting \subseteq Admins
    /\ outcome \in [Admins -> {"none", "working", "succeeded", "failed"}]
    /\ \A t \in Admins : outcome[t] # "none" => Binary /\ where[t] = "performing"
    /\ \A t \in Admins : Updating(t) => outcome[t] = "working"

RunInv == StoreInv /\ OutcomesFollow /\ TypeOK /\ (~undercut => SwitchInv)

\* At the beginning nobody updates.
LEMMA RunBegins == RunInit => RunInv
<1> SUFFICES ASSUME RunInit  PROVE RunInv  OBVIOUS
<1>1. StoreInv /\ SwitchInv  BY StoreBegins, SwitchInit DEF RunInit
<1>2. OutcomesFollow
  BY RunAssumption DEF RunInit, Init, OutcomesFollow, Updating, UpdateSteps
<1> QED  BY <1>1, <1>2 DEF RunInv, SwitchInv

\* Two requests perform their jobs at a time only after somebody has undercut the store.
LEMMA PerformAlone ==
    ASSUME StoreInv, ~undercut, NEW s \in Admins, NEW t \in Admins,
           where[s] = "performing", where[t] = "performing"
    PROVE  s = t
<1>1. mine[s] \in Jobs /\ mine[t] \in Jobs
  BY UpdateAssumption DEF StoreInv, JobsTypeOK, JobsBelong, Requests, HasAJob, Working
<1>2. Active(mine[s]) /\ Active(mine[t])
  BY DEF StoreInv, JobsBelong, WorkIsSeen, Requests, Working
<1>3. mine[s] = mine[t]  BY <1>1, <1>2 DEF StoreInv, OneJob
<1> QED  BY <1>1, <1>3, UpdateAssumption DEF StoreInv, JobsBelong, Requests

\* So an update begins when no other one is under way.
LEMMA BeginsAlone ==
    ASSUME RunInv, ~undercut, NEW t \in Admins, Performs(t, "none")
    PROVE  \A s \in Threads : ~Updating(s)
BY PerformAlone, RunAssumption DEF RunInv, OutcomesFollow, Performs

\* Nothing happens on disk.
LEMMA SwitchStutters ==
    ASSUME UNCHANGED vars  PROVE (TypeOK => TypeOK') /\ (SwitchInv => SwitchInv')
BY DEF vars, links, process, locals, SwitchInv, TypeOK, Updating, Complete, Unlinked, SourcesComplete,
    UpdateIsPrivate

\* A request's other steps are not those of one that performs its update, and are its own.
LEMMA OthersPerform ==
    ASSUME JobsTypeOK, NEW t \in Admins, BeforeUpdate(t) \/ AfterUpdate(t)
    PROVE  where[t] # "performing" /\ \A s \in Admins \ {t} : where'[s] = where[s]
<1> USE DEF JobsTypeOK, Requests, Goes, Leaves, BeginScan, Scanned
<1>1. CASE AfterUpdate(t)  BY <1>1 DEF AfterUpdate, Finish, UnlockFinished
<1>2. CASE Start(t) \/ FillLock(t) \/ Checked(t) \/ CreateJob(t) \/ CreateFails(t) \/ RecordJob(t)
  BY <1>2 DEF Start, FillLock, Checked, CreateJob, CreateFails, RecordJob
<1>3. CASE RecoverOne(t) \/ Recovered(t) \/ Rechecked(t) \/ ReadLock(t) \/ Judge(t) \/ AcquireAgain(t)
  BY <1>3 DEF RecoverOne, Recovered, Rechecked, ReadLock, Judge, AcquireAgain
<1>4. CASE MarkRunning(t) \/ ReadOne(t) \/ RecordFails(t)
  BY <1>4 DEF MarkRunning, ReadOne, RecordFails
<1> QED  BY <1>1, <1>2, <1>3, <1>4 DEF BeforeUpdate


\* What the administrators do but for the links.
LEMMA RequestKeepsRun ==
    ASSUME RunInv, NEW t \in acting, Handles(t) \/ Rejects(t) \/ Reports(t), UNCHANGED acting
    PROVE  RunInv'
<1> USE DEF OutcomesFollow, Updating, Performs, Becomes, Binary
<1>1. t \in Admins /\ StoreInv /\ OutcomesFollow /\ TypeOK /\ JobsTypeOK  BY DEF RunInv, StoreInv
<1>2. UNCHANGED vars  BY DEF Handles, Rejects, Reports
<1>3. TypeOK' /\ (SwitchInv => SwitchInv') /\ pc' = pc  BY <1>1, <1>2, SwitchStutters DEF vars
<1>4. StoreKept /\ OutcomesFollow' => RunInv'  BY <1>3 DEF RunInv, StoreKept
<1>5. CASE Handles(t) /\ (BeforeUpdate(t) \/ AfterUpdate(t))
  <2>1. StoreKept  BY <1>1, <1>5, RequestsKeep DEF Handles
  <2>2. OutcomesFollow'  BY <1>1, <1>3, <1>5, OthersPerform DEF Handles
  <2> QED  BY <1>4, <2>1, <2>2
<1>6. CASE Handles(t) /\ ~Binary /\ (Performed(t, "failed") \/ HandsOver(t))
  <2>1. StoreKept  BY <1>1, <1>6, RequestsKeep DEF Handles, Perform
  <2>2. OutcomesFollow'  BY <1>1, <1>3, <1>6 DEF Handles
  <2> QED  BY <1>4, <2>1, <2>2
<1>7. CASE Rejects(t)
  <2>1. StoreKept  BY <1>1, <1>7, StoreStutters DEF Rejects
  <2>2. OutcomesFollow'  BY <1>1, <1>3, <1>7 DEF Rejects, jobVars
  <2> QED  BY <1>4, <2>1, <2>2
<1>8. CASE Reports(t)
  <2>1. StoreKept  BY <1>1, <1>8, PerformedKeeps DEF Reports
  <2>2. OutcomesFollow'  BY <1>1, <1>3, <1>8 DEF Reports, Performed, Goes, JobsTypeOK, Requests
  <2> QED  BY <1>4, <2>1, <2>2
<1> QED  BY <1>5, <1>6, <1>7, <1>8 DEF Handles

\* A step of perform_update by the thread a request waits for.
UpdateWorks(t) == Activates(t) \/ Works(t)

\* Such a step is a step of an update, alone until somebody undercuts the store.
LEMMA WorksOnLinks ==
    ASSUME RunInv, NEW t \in acting, UpdateWorks(t)
    PROVE  /\ t \in Admins /\ t \in Threads /\ UpdateStep(t) /\ UNCHANGED jobVars
           /\ ~undercut => (BeginUpdate(t) => \A s \in Threads : ~Updating(s))
<1>1. t \in Admins /\ t \in Threads  BY RunAssumption DEF RunInv, OutcomesFollow
<1>2. CASE Activates(t)
  BY <1>1, <1>2, BeginsAlone DEF Activates, UpdateStep
<1>3. CASE Works(t)
  <2>1. UpdateStep(t) /\ UNCHANGED jobVars  BY <1>3 DEF Works, UpdateStep
  <2>2. ~BeginUpdate(t)
    BY <1>1, <1>3 DEF Works, BeginUpdate, Begins, At, Go, MoveFiles, ClearTmp, LinkCurrent, LinkPrevious,
        SwapPrevious, SwapCurrent, AbortUpdate, UpdateRaises, Raises
  <2> QED  BY <1>1, <2>1, <2>2
<1> QED  BY <1>2, <1>3 DEF UpdateWorks

\* The steps of an update on disk.
LEMMA UpdateKeepsRun ==
    ASSUME RunInv, NEW t \in acting, UpdateWorks(t), UNCHANGED acting
    PROVE  RunInv'
<1>1. t \in Admins /\ t \in Threads /\ UpdateStep(t) /\ UNCHANGED jobVars  BY WorksOnLinks
<1>2. StoreKept  BY <1>1, StoreStutters DEF RunInv
<1>3. TypeOK'  BY <1>1, ThreadKeepsTypes DEF RunInv
<1>4. ASSUME ~undercut  PROVE SwitchInv'  BY <1>1, <1>4, WorksOnLinks, UpdateKeepsInv DEF RunInv
<1>5. OutcomesFollow'
  <2> USE RunAssumption DEF OutcomesFollow, Updating, Performs, Becomes, Binary, TypeOK, UpdateSteps, At, Go
  <2>1. OutcomesFollow /\ TypeOK  BY DEF RunInv
  <2>2. deployment' = deployment /\ where' = where  BY <1>1 DEF jobVars
  <2>3. CASE Activates(t)  BY <1>1, <2>1, <2>2, <2>3 DEF Activates, BeginUpdate, Begins
  <2>4. CASE Performs(t, "working") /\ UNCHANGED outcome
             /\ (MoveFiles(t) \/ ClearTmp(t) \/ LinkCurrent(t) \/ LinkPrevious(t) \/ SwapPrevious(t))
    <3>1. \A s \in Threads \ {t} : pc'[s] = pc[s]
      BY <1>1, <2>1, <2>4 DEF MoveFiles, ClearTmp, LinkCurrent, LinkPrevious, SwapPrevious
    <3> QED  BY <1>1, <2>1, <2>2, <2>4, <3>1
  <2>5. CASE Performs(t, "working") /\ SwapCurrent(t) /\ Becomes(t, "succeeded")
    BY <1>1, <2>1, <2>2, <2>5 DEF SwapCurrent, Over
  <2>6. CASE Performs(t, "working") /\ AbortUpdate(t) /\ Becomes(t, "failed")
    BY <1>1, <2>1, <2>2, <2>6 DEF AbortUpdate, Over
  <2> QED  BY <2>3, <2>4, <2>5, <2>6 DEF UpdateWorks, Works
<1>6. undercut' = undercut  BY <1>1 DEF jobVars, files
<1> QED  BY <1>2, <1>3, <1>4, <1>5, <1>6 DEF RunInv, StoreKept

\* The steps of a rollback.
LEMMA RollbackKeepsRun ==
    ASSUME RunInv, NEW t \in acting, RollsBack(t), UNCHANGED acting
    PROVE  RunInv'
<1>1. t \in Admins /\ t \in Threads /\ RollbackStep(t) /\ UNCHANGED jobVars
  BY RunAssumption DEF RunInv, OutcomesFollow, RollsBack
<1>2. StoreKept  BY <1>1, StoreStutters DEF RunInv
<1>3. TypeOK'  BY <1>1, ThreadKeepsTypes DEF RunInv
<1>4. ASSUME ~undercut  PROVE SwitchInv'  BY <1>1, <1>4, RollbackKeepsInv DEF RunInv
<1>5. OutcomesFollow'
  <2>1. \A s \in Threads : pc'[s] \in UpdateSteps => pc[s] \in UpdateSteps
    <3> USE DEF At, Go, Begins, Over, RunInv, TypeOK, UpdateSteps
    <3>1. CASE BeginRollback(t) \/ ReadCurrent(t) \/ RbClear(t) \/ RbLink(t) \/ RbSwap(t)
      BY <1>1, <3>1 DEF BeginRollback, ReadCurrent, RbClear, RbLink, RbSwap
    <3>2. CASE RbLinkBack(t) \/ RbSwapBack(t) \/ RollbackFails(t) \/ RollbackFailsHalfWay(t)
      BY <1>1, <3>2 DEF RbLinkBack, RbSwapBack, RollbackFails, RollbackFailsHalfWay
    <3> QED  BY <1>1, <3>1, <3>2 DEF RollbackStep
  <2> QED  BY <1>1, <2>1, RunAssumption DEF RunInv, OutcomesFollow, RollsBack, Updating, Binary, jobVars
<1>6. undercut' = undercut  BY <1>1 DEF jobVars, files
<1> QED  BY <1>2, <1>3, <1>4, <1>5, <1>6 DEF RunInv, StoreKept

\* The process is gone, with its threads, and starts again.
LEMMA AnewKeepsRun ==
    ASSUME RunInv, Restarts \/ Dies, UNCHANGED acting
    PROVE  RunInv'
<1>1. ThreadsGone /\ Anew /\ (StartAgain \/ (UNCHANGED vars /\ ~Binary))
  <2>1. CASE Restarts  BY <2>1 DEF Restarts, Restart
  <2>2. CASE Dies /\ Binary  BY <2>2 DEF Dies, Crash
  <2>3. CASE Dies /\ ~Binary  BY <2>3 DEF Dies, ServiceDies
  <2> QED  BY <2>1, <2>2, <2>3
<1>2. crashed' \in BOOLEAN
  <2>1. crashed \in BOOLEAN  BY DEF RunInv, StoreInv, JobsTypeOK
  <2>2. crashed' = TRUE \/ crashed' = crashed  BY DEF Restarts, Dies, ServiceDies
  <2>3. CASE crashed' = TRUE  BY <2>3
  <2>4. CASE crashed' = crashed  BY <2>1, <2>4
  <2> QED  BY <2>2, <2>3, <2>4
<1>3. StoreKept  BY <1>1, <1>2, ThreadsGoneKeep DEF RunInv, Anew
<1>4. TypeOK' /\ (SwitchInv => SwitchInv')
  BY <1>1, StartKeepsTypes, StartKeepsInv, SwitchStutters DEF RunInv
<1>5. OutcomesFollow'
  <2>1. CASE StartAgain
    BY <1>1, <2>1, RunAssumption DEF RunInv, OutcomesFollow, Anew, StartAgain, Updating, UpdateSteps
  <2>2. CASE UNCHANGED vars /\ ~Binary
    BY <1>1, <2>2, RunAssumption DEF RunInv, OutcomesFollow, Anew, Updating, Binary, vars
  <2> QED  BY <1>1, <2>1, <2>2
<1> QED  BY <1>3, <1>4, <1>5 DEF RunInv, StoreKept

\* Pages, helpers and the clock.
LEMMA WatchesKeepRun ==
    ASSUME RunInv, Watches, UNCHANGED acting
    PROVE  RunInv'
<1>1. UNCHANGED <<vars, outcome>> /\ ~Binary /\ UNCHANGED deployment
  BY DEF Watches, PollerStep, HelperStep
<1>2. StoreKept  BY WatchersKeep, TickKeeps DEF RunInv, Watches
<1>3. TypeOK' /\ (SwitchInv => SwitchInv')  BY <1>1, SwitchStutters DEF RunInv
<1>4. OutcomesFollow'  BY <1>1, RunAssumption DEF RunInv, OutcomesFollow, Updating, Binary, vars
<1> QED  BY <1>2, <1>3, <1>4 DEF RunInv, StoreKept

\* The invariant of an update from the button to the restart is inductive.
THEOREM RunAlways == RunSpec => []RunInv
<1>1. ASSUME RunInv, [RunNext]_runVars  PROVE RunInv'
  <2>1. CASE UNCHANGED runVars
    <3>1. StoreKept /\ TypeOK' /\ (SwitchInv => SwitchInv')
      BY <1>1, <2>1, StoreStutters, SwitchStutters DEF runVars, RunInv
    <3>2. OutcomesFollow'
      BY <1>1, <2>1 DEF runVars, jobVars, vars, RunInv, OutcomesFollow, Updating, Binary
    <3> QED  BY <1>1, <3>1, <3>2 DEF RunInv, StoreKept
  <2>2. ASSUME NEW t \in acting, RequestStep(t), UNCHANGED acting  PROVE RunInv'
    BY <1>1, <2>2, RequestKeepsRun, UpdateKeepsRun DEF RequestStep, UpdateWorks
  <2>3. ASSUME NEW t \in acting, RollsBack(t), UNCHANGED acting  PROVE RunInv'
    BY <1>1, <2>3, RollbackKeepsRun
  <2> QED  BY <1>1, <2>1, <2>2, <2>3, AnewKeepsRun, WatchesKeepRun DEF RunNext
<1> QED  BY <1>1, RunBegins, PTL DEF RunSpec

\* Type correctness of jobs, locks, links and releases.
THEOREM RunTypes == RunSpec => []RunTypeOK
<1>1. RunInv => RunTypeOK  BY DEF RunInv, StoreInv, RunTypeOK
<1> QED  BY <1>1, RunAlways, PTL

\* The store admits one job at a time to what is done on disk.
THEOREM RunAdmitsOneJob == RunSpec => []AdmitsOneActive
<1>1. RunInv => AdmitsOneActive  BY OneIsAtMostOne DEF RunInv, StoreInv, AdmitsOneActive
<1> QED  BY <1>1, RunAlways, PTL

\* Whatever the administrators start, wherever it fails, and whenever the service dies or is restarted,
\* systemd finds a complete release under current, and rollback one under previous: what the job store
\* promises is what the switch needs.
THEOREM LinksStay == RunSpec => []LinksStayRunnable
<1>1. SwitchInv => LinksRunnable
  BY ReleaseAssumption DEF SwitchInv, TypeOK, SourcesComplete, Complete, LinksRunnable
<1>2. RunInv => LinksStayRunnable  BY <1>1 DEF RunInv, LinksStayRunnable
<1> QED  BY <1>2, RunAlways, PTL

-----------------------------------------------------------------------------
(* The store in the place of the switch's own condition *)

\* An update that begins alone takes the steps of a switch that admits one update at a time.
LEMMA SameUpdate ==
    ASSUME NEW t \in Threads, UpdateStep(t), BeginUpdate(t) => \A s \in Threads : ~Updating(s)
    PROVE  OneUpdateSwitch!UpdateStep(t)
<1> USE DEF links, process, locals, OneUpdateSwitch!links, OneUpdateSwitch!process, OneUpdateSwitch!locals,
        At, Go, OneUpdateSwitch!At, OneUpdateSwitch!Go, Over, OneUpdateSwitch!Over, Updating
<1>1. ASSUME BeginUpdate(t)  PROVE OneUpdateSwitch!BeginUpdate(t)
  BY <1>1 DEF BeginUpdate, UpdateLayout, PendingLayout, Begins, UpdateSteps,
    OneUpdateSwitch!BeginUpdate, OneUpdateSwitch!UpdateLayout, OneUpdateSwitch!PendingLayout,
    OneUpdateSwitch!Begins, OneUpdateSwitch!UpdateSteps
<1>2. ASSUME MoveFiles(t)  PROVE OneUpdateSwitch!MoveFiles(t)
  BY <1>2 DEF MoveFiles, OneUpdateSwitch!MoveFiles
<1>3. ASSUME ClearTmp(t)  PROVE OneUpdateSwitch!ClearTmp(t)
  BY <1>3 DEF ClearTmp, OneUpdateSwitch!ClearTmp
<1>4. ASSUME LinkCurrent(t)  PROVE OneUpdateSwitch!LinkCurrent(t)
  BY <1>4 DEF LinkCurrent, OneUpdateSwitch!LinkCurrent
<1>5. ASSUME LinkPrevious(t)  PROVE OneUpdateSwitch!LinkPrevious(t)
  BY <1>5 DEF LinkPrevious, OldRelease, OneUpdateSwitch!LinkPrevious, OneUpdateSwitch!OldRelease
<1>6. ASSUME SwapPrevious(t)  PROVE OneUpdateSwitch!SwapPrevious(t)
  BY <1>6 DEF SwapPrevious, OneUpdateSwitch!SwapPrevious
<1>7. ASSUME SwapCurrent(t)  PROVE OneUpdateSwitch!SwapCurrent(t)
  BY <1>7 DEF SwapCurrent, OneUpdateSwitch!SwapCurrent
<1>8. ASSUME AbortUpdate(t)  PROVE OneUpdateSwitch!AbortUpdate(t)
  BY <1>8 DEF AbortUpdate, UpdateRaises, Raises, CleanedTmp, OneUpdateSwitch!AbortUpdate,
    OneUpdateSwitch!UpdateRaises, OneUpdateSwitch!Raises, OneUpdateSwitch!CleanedTmp
<1> QED
  BY <1>1, <1>2, <1>3, <1>4, <1>5, <1>6, <1>7, <1>8 DEF UpdateStep, OneUpdateSwitch!UpdateStep

\* So do rollbacks and new processes, whatever the store holds.
LEMMA SameRollback ==
    ASSUME NEW t \in Threads, RollbackStep(t)
    PROVE  OneUpdateSwitch!RollbackStep(t)
<1> USE DEF links, process, locals, OneUpdateSwitch!links, OneUpdateSwitch!process, OneUpdateSwitch!locals,
        At, Go, Over, Raises, OneUpdateSwitch!At, OneUpdateSwitch!Go, OneUpdateSwitch!Over,
        OneUpdateSwitch!Raises
<1>1. ASSUME BeginRollback(t)  PROVE OneUpdateSwitch!BeginRollback(t)
  BY <1>1 DEF BeginRollback, RollbackReady, PendingLayout, Begins, OneUpdateSwitch!BeginRollback,
    OneUpdateSwitch!RollbackReady, OneUpdateSwitch!PendingLayout, OneUpdateSwitch!Begins
<1>2. ASSUME ReadCurrent(t)  PROVE OneUpdateSwitch!ReadCurrent(t)
  BY <1>2 DEF ReadCurrent, OneUpdateSwitch!ReadCurrent
<1>3. ASSUME RbClear(t)  PROVE OneUpdateSwitch!RbClear(t)
  BY <1>3 DEF RbClear, OneUpdateSwitch!RbClear
<1>4. ASSUME RbLink(t)  PROVE OneUpdateSwitch!RbLink(t)
  BY <1>4 DEF RbLink, OneUpdateSwitch!RbLink
<1>5. ASSUME RbSwap(t)  PROVE OneUpdateSwitch!RbSwap(t)
  BY <1>5 DEF RbSwap, OneUpdateSwitch!RbSwap
<1>6. ASSUME RbLinkBack(t)  PROVE OneUpdateSwitch!RbLinkBack(t)
  BY <1>6 DEF RbLinkBack, OneUpdateSwitch!RbLinkBack
<1>7. ASSUME RbSwapBack(t)  PROVE OneUpdateSwitch!RbSwapBack(t)
  BY <1>7 DEF RbSwapBack, OneUpdateSwitch!RbSwapBack
<1>8. ASSUME RollbackFails(t)  PROVE OneUpdateSwitch!RollbackFails(t)
  BY <1>8 DEF RollbackFails, OneUpdateSwitch!RollbackFails
<1>9. ASSUME RollbackFailsHalfWay(t)  PROVE OneUpdateSwitch!RollbackFailsHalfWay(t)
  BY <1>9 DEF RollbackFailsHalfWay, OneUpdateSwitch!RollbackFailsHalfWay
<1> QED
  BY <1>1, <1>2, <1>3, <1>4, <1>5, <1>6, <1>7, <1>8, <1>9 DEF RollbackStep, OneUpdateSwitch!RollbackStep

\* A new process starts the same way.
LEMMA SameStart ==
    ASSUME Restart \/ Crash  PROVE OneUpdateSwitch!Restart \/ OneUpdateSwitch!Crash
BY DEF Restart, Crash, StartAgain, NoTmp, Names, PendingLayout, links,
    OneUpdateSwitch!Restart, OneUpdateSwitch!Crash, OneUpdateSwitch!StartAgain, OneUpdateSwitch!NoTmp,
    OneUpdateSwitch!Names, OneUpdateSwitch!PendingLayout, OneUpdateSwitch!links

\* Step by step, an update from the button to the restart implements the switch that is asked for one
\* update at a time, until the store is undercut: the store's lock stands for the switch's condition.
THEOREM StoreGuardsTheSwitch == RunSpec => StoreAdmitsOneUpdate
<1>1. RunInit => OneUpdateSwitch!Init
  BY DEF RunInit, Init, NoTmp, Names, OneUpdateSwitch!Init, OneUpdateSwitch!NoTmp, OneUpdateSwitch!Names
<1>2. ASSUME RunInv, [RunNext]_runVars  PROVE [~undercut => OneUpdateSwitch!Next]_vars
  <2>1. SUFFICES ASSUME ~undercut  PROVE OneUpdateSwitch!Next \/ UNCHANGED vars  OBVIOUS
  <2>2. acting \subseteq Threads  BY <1>2, RunAssumption DEF RunInv, OutcomesFollow
  <2>3. CASE UNCHANGED runVars  BY <2>3 DEF runVars
  <2>4. ASSUME NEW t \in acting, RequestStep(t)  PROVE OneUpdateSwitch!Next \/ UNCHANGED vars
    <3>1. CASE UpdateWorks(t)
      BY <1>2, <2>1, <2>2, <3>1, WorksOnLinks, SameUpdate DEF OneUpdateSwitch!Next
    <3>2. CASE Handles(t) \/ Rejects(t) \/ Reports(t)  BY <3>2 DEF Handles, Rejects, Reports
    <3> QED  BY <2>4, <3>1, <3>2 DEF RequestStep, UpdateWorks
  <2>5. ASSUME NEW t \in acting, RollsBack(t)  PROVE OneUpdateSwitch!Next
    BY <2>2, <2>5, SameRollback DEF RollsBack, OneUpdateSwitch!Next
  <2>6. CASE Restarts \/ Dies
    BY <2>6, SameStart DEF Restarts, Dies, OneUpdateSwitch!Next
  <2>7. CASE Watches  BY <2>7 DEF Watches
  <2> QED  BY <1>2, <2>3, <2>4, <2>5, <2>6, <2>7 DEF RunNext
<1> QED  BY <1>1, <1>2, RunAlways, PTL DEF RunSpec, StoreAdmitsOneUpdate

\* Every step of a run that changes links is one of an update or a rollback, or a new process.
LEMMA RunSwitches ==
    ASSUME RunInv, [RunNext]_runVars
    PROVE  \/ UNCHANGED vars
           \/ StartAgain
           \/ \E t \in Threads : UpdateStep(t) \/ RollbackStep(t)
<1>1. acting \subseteq Threads  BY RunAssumption DEF RunInv, OutcomesFollow
<1>2. ASSUME NEW t \in acting, RequestStep(t)
      PROVE  UNCHANGED vars \/ UpdateStep(t)
  BY <1>2, WorksOnLinks DEF RequestStep, UpdateWorks, Handles, Rejects, Reports
<1>3. ASSUME Restarts \/ Dies  PROVE UNCHANGED vars \/ StartAgain
  BY <1>3 DEF Restarts, Dies, Restart, Crash
<1> QED  BY <1>1, <1>2, <1>3 DEF RunNext, RollsBack, Watches, runVars

\* From the button to the restart: whatever was updated, rolled back, aborted or cut off, a restart stays
\* possible and a rollback undoes the last update, unless operations overlapped or a rollback failed half
\* way.  This does not need the store.
THEOREM UpdatesAreUndone == RunSpec => UpdateCanBeUndone
<1>1. ASSUME RunInv, UndoInv, [RunNext]_runVars  PROVE UndoInv' /\ [KeepsOld]_vars
  <2>1. TypeOK  BY <1>1 DEF RunInv
  <2>2. CASE UNCHANGED vars
    BY <1>1, <2>2 DEF vars, links, process, locals, UndoInv, OneAtATime, RestartAlwaysAllowed,
        PendingLayout, Undisturbed, Updating, At
  <2>3. CASE StartAgain  BY <1>1, <2>1, <2>3, StartUndoable, StepKeepsOld
  <2>4. ASSUME NEW t \in Threads, UpdateStep(t) \/ RollbackStep(t)  PROVE UndoInv' /\ KeepsOld
    BY <1>1, <2>1, <2>4, UpdateUndoable, RollbackUndoable, StepKeepsOld
  <2> QED  BY <1>1, <2>2, <2>3, <2>4, RunSwitches
<1>2. RunInit => UndoInv  BY UndoInit DEF RunInit
<1>3. UndoInv => RestartAllowed  BY DEF UndoInv, RestartAllowed
<1>4. RunSpec => [](UndoInv /\ RunInv)  BY <1>1, <1>2, RunAlways, PTL DEF RunSpec
<1>5. RunSpec => [][RestartAllowed']_vars  BY <1>3, <1>4, PTL
<1>6. RunSpec => UpdateKeepsOld  BY <1>1, <1>4, PTL DEF RunSpec, UpdateKeepsOld, KeepsOld
<1> QED  BY <1>5, <1>6 DEF UpdateCanBeUndone

=============================================================================
