----------------------------- MODULE UpdateJobs -----------------------------
(***************************************************************************)
(* The store of update jobs (services/update_service.py) and the request   *)
(* that uses it (_run_update of api/update.py).  Every call runs in a      *)
(* worker thread, and its only synchronisation is the file .active.lock,   *)
(* created with O_EXCL, filled afterwards, and removed by whoever finds no *)
(* active job.  Each step below is one file-system call, or the reading of *)
(* one job directory.  A Docker update goes on in a helper container that  *)
(* writes status.json; _load_job lets it override job.json.                *)
(***************************************************************************)
EXTENDS Integers, FiniteSets

CONSTANTS
    Admins,       \* browser tabs that start updates, one worker thread each
    Pollers,      \* browser tabs that show the list of jobs
    Jobs,         \* job ids that may ever be created
    Deployments,  \* what performs the update: this process, or a helper container
    MayDie,       \* what may die: the service, once, and the helpers
    JobStale,     \* ACTIVE_JOB_STALE_SECONDS
    OrphanStale,  \* ACTIVE_LOCK_ORPHAN_STALE_SECONDS
    CreateGrace,  \* ACTIVE_LOCK_CREATE_GRACE_SECONDS
    MaxTime,      \* bound of the clock
    NoId

ASSUME UpdateAssumption ==
    /\ Admins \cap Pollers = {}
    /\ IsFiniteSet(Jobs) /\ NoId \notin Jobs \cup Admins
    /\ Deployments \subseteq {"binary", "docker"} /\ MayDie \subseteq {"service", "helper"}
    /\ CreateGrace \in Nat /\ OrphanStale \in Nat /\ JobStale \in Nat \ {0}
    /\ MaxTime \in Nat

Requests == Admins \cup Pollers

VARIABLES
    deployment, \* deployment_mode of the settings
    now,
    lock,     \* .active.lock
    job,      \* job.json of each job
    helper,   \* status.json of each job
    helping,  \* jobs whose helper container is alive
    where, todo, seen,  \* where a thread is, the jobs its scan has left, whether it saw an active one
    noted,    \* the lock file a thread has read
    mine,     \* the job a thread created
    crashed,
    undercut  \* history: a lock was removed from under a request that was creating its job, or a job
              \* failed from under whoever works on it

files  == <<lock, job, helper, undercut>>
scans == <<todo, seen, noted, mine>>
jobVars == <<deployment, now, files, helping, where, scans, crashed>>

Statuses == {"pending", "running", "succeeded", "failed"}
ActiveStatuses == {"pending", "running"}

\* The lock file: empty once created, later a time, later also a job id.
Locks  == [by : Admins, text : {"empty", "json"}, job : Jobs \cup {NoId}, at : 0 .. MaxTime]
NoLock == [by |-> NoId, text |-> "none", job |-> NoId, at |-> 0]

NoFile  == [status |-> "none", at |-> 0]
Records == [status : Statuses, at : 0 .. MaxTime]

JobSteps == {"idle", "filling", "checking", "creating", "recording", "marking", "performing",
          "finishing", "unlocking", "recovering", "rechecking", "reading", "judging",
          "acquiring", "polling", "dropping"}

JobsTypeOK ==
    /\ deployment \in Deployments
    /\ now \in 0 .. MaxTime
    /\ lock \in Locks \cup {NoLock}
    /\ job \in [Jobs -> Records \cup {NoFile}]
    /\ helper \in [Jobs -> Records \cup {NoFile}]
    /\ helping \subseteq Jobs
    /\ where \in [Requests -> JobSteps]
    /\ todo \in [Requests -> SUBSET Jobs] /\ seen \in [Requests -> BOOLEAN]
    /\ noted \in [Requests -> Locks \cup {NoLock}]
    /\ mine \in [Requests -> Jobs \cup {NoId}]
    /\ crashed \in BOOLEAN /\ undercut \in BOOLEAN

JobsInit ==
    /\ deployment \in Deployments
    /\ now = 0
    /\ lock = NoLock
    /\ job = [j \in Jobs |-> NoFile] /\ helper = [j \in Jobs |-> NoFile]
    /\ helping = {}
    /\ where = [t \in Requests |-> "idle"]
    /\ todo = [t \in Requests |-> {}] /\ seen = [t \in Requests |-> FALSE]
    /\ noted = [t \in Requests |-> NoLock]
    /\ mine = [t \in Requests |-> NoId]
    /\ crashed = FALSE /\ undercut = FALSE

-----------------------------------------------------------------------------
(* Reading *)

Present == {j \in Jobs : job[j] # NoFile}

\* _load_job: status.json overrides job.json.
Loaded(j) == IF helper[j] # NoFile THEN helper[j] ELSE job[j]
Active(j) == Loaded(j).status \in ActiveStatuses
ActiveJobs == {j \in Present : Active(j)}

Goes(t, step) == where' = [where EXCEPT ![t] = step]

\* The request is over, or the listing: what it has read means nothing any more.
Leaves(t) ==
    /\ Goes(t, "idle")
    /\ todo' = [todo EXCEPT ![t] = {}] /\ seen' = [seen EXCEPT ![t] = FALSE]
    /\ noted' = [noted EXCEPT ![t] = NoLock] /\ mine' = [mine EXCEPT ![t] = NoId]

\* A scan over the job directories begins.
BeginScan(t, step) ==
    /\ Goes(t, step)
    /\ todo' = [todo EXCEPT ![t] = Present]
    /\ seen' = [seen EXCEPT ![t] = FALSE]
    /\ UNCHANGED <<noted, mine>>

\* One directory of the scan is read.
ReadOne(t) ==
    /\ where[t] \in {"checking", "rechecking", "polling"}
    /\ \E j \in todo[t] :
        /\ todo' = [todo EXCEPT ![t] = @ \ {j}]
        /\ seen' = [seen EXCEPT ![t] = @ \/ Active(j)]
    /\ UNCHANGED <<now, files, helping, where, noted, mine, crashed>>

Scanned(t, step) == where[t] = step /\ todo[t] = {}

\* _release_active_lock: whoever's lock it is by now.
Admitting == {"filling", "checking", "creating"}
Unlink(t) ==
    /\ lock' = NoLock /\ UNCHANGED <<job, helper>>
    /\ undercut' = (undercut \/ \E s \in Admins \ {t} : lock.by = s /\ where[s] \in Admitting)

-----------------------------------------------------------------------------
(* create_if_idle *)

\* _acquire_active_lock: O_CREAT | O_EXCL
AcquiredAnyway(t) == lock' = [by |-> t, text |-> "empty", job |-> NoId, at |-> now]
Acquired(t) ==
    /\ lock = NoLock
    /\ lock' = [by |-> t, text |-> "empty", job |-> NoId, at |-> now]

Start(t) ==
    /\ where[t] = "idle"
    /\ \/ Acquired(t) /\ Goes(t, "filling") /\ UNCHANGED <<job, helper, undercut, scans>>
       \/ lock # NoLock /\ BeginScan(t, "recovering") /\ UNCHANGED files
    /\ UNCHANGED <<now, helping, crashed>>

\* The descriptor still names the file it created, linked or not.
FillLock(t) ==
    /\ where[t] = "filling"
    /\ lock' = IF lock.by = t THEN [lock EXCEPT !.text = "json"] ELSE lock
    /\ BeginScan(t, "checking")
    /\ UNCHANGED <<now, job, helper, undercut, helping, crashed>>

\* has_active_job under the lock: give up, or go on to create.
Found_Never(t) == FALSE    \* mutant: the lock alone admits a job
Found(t) == seen[t]
Checked(t) ==
    /\ Scanned(t, "checking")
    /\ IF Found(t) THEN Unlink(t) /\ Leaves(t)
                   ELSE Goes(t, "creating") /\ UNCHANGED <<files, scans>>
    /\ UNCHANGED <<now, helping, crashed>>

\* _create_unlocked; when it raises the lock is removed.
CreateJob(t) ==
    /\ where[t] = "creating"
    /\ \E j \in Jobs \ Present :
        /\ job' = [job EXCEPT ![j] = [status |-> "pending", at |-> now]]
        /\ mine' = [mine EXCEPT ![t] = j]
    /\ Goes(t, "recording")
    /\ UNCHANGED <<now, lock, helper, undercut, helping, todo, seen, noted, crashed>>
CreateFails(t) ==
    /\ where[t] = "creating"
    /\ Unlink(t) /\ Leaves(t)
    /\ UNCHANGED <<now, helping, crashed>>

\* _record_active_lock_job truncates the file of that name, if there is one.
Recorded_Creates(t) == [lock EXCEPT !.text = "json", !.job = mine[t], !.at = now]  \* mutant: with O_CREAT
Recorded(t) == IF lock = NoLock THEN NoLock
               ELSE [lock EXCEPT !.text = "json", !.job = mine[t], !.at = now]

RecordJob(t) ==
    /\ where[t] = "recording"
    /\ lock' = Recorded(t)
    /\ Goes(t, "marking")
    /\ UNCHANGED <<now, job, helper, undercut, helping, scans, crashed>>

\* When the lock file cannot be opened or written it is removed, but the job is there by now.
RecordFails(t) ==
    /\ where[t] = "recording"
    /\ Unlink(t) /\ Leaves(t)
    /\ UNCHANGED <<now, helping, crashed>>

-----------------------------------------------------------------------------
(* _recover_stale_active_lock *)

\* mutant: a job that never got to run is not recovered
Stale_OnlyRunning(j) == Loaded(j).status = "running" /\ now - Loaded(j).at >= JobStale
Stale(j) == Active(j) /\ now - Loaded(j).at >= JobStale

\* Its request, or its helper, is still there.
WorkedOn(j) == j \in helping \/ \E t \in Admins : mine[t] = j

\* One job of _recover_stale_active_jobs_unlocked: job.json is rewritten,
\* status.json is not.
RecoverOne(t) ==
    /\ where[t] = "recovering"
    /\ \E j \in todo[t] :
        /\ todo' = [todo EXCEPT ![t] = @ \ {j}]
        /\ job' = IF Stale(j)
                  THEN [job EXCEPT ![j] = [status |-> "failed", at |-> now]] ELSE job
        /\ undercut' = (undercut \/ (Stale(j) /\ WorkedOn(j)))
    /\ UNCHANGED <<now, lock, helper, helping, where, seen, noted, mine, crashed>>

Recovered(t) ==
    /\ Scanned(t, "recovering")
    /\ BeginScan(t, "rechecking")
    /\ UNCHANGED <<now, files, helping, crashed>>

Rechecked(t) ==
    /\ Scanned(t, "rechecking")
    /\ IF seen[t] THEN Leaves(t) ELSE Goes(t, "reading") /\ UNCHANGED scans
    /\ UNCHANGED <<now, files, helping, crashed>>

ReadLock(t) ==
    /\ where[t] = "reading"
    /\ noted' = [noted EXCEPT ![t] = lock]
    /\ Goes(t, "judging")
    /\ UNCHANGED <<now, files, helping, todo, seen, mine, crashed>>

\* The lock that was read belongs to a job, or is old enough.  A lock that was
\* empty carries no time: the age is then that of the file there is now.
Removable_NeverEmpty(t) == noted[t] # NoLock /\ noted[t].text = "json"
    /\ (noted[t].job # NoId \/ now - noted[t].at >= OrphanStale)   \* mutant: an empty lock stays
Removable(t) ==
    LET read == noted[t] IN
    /\ read # NoLock
    /\ \/ read.job # NoId
       \/ read.text = "json" /\ now - read.at >= OrphanStale
       \/ read.text = "empty" /\ lock # NoLock /\ now - lock.at >= CreateGrace

Judge(t) ==
    /\ where[t] = "judging"
    /\ IF Removable(t) THEN Unlink(t) /\ Goes(t, "acquiring") /\ UNCHANGED scans
                       ELSE UNCHANGED files /\ Leaves(t)
    /\ UNCHANGED <<now, helping, crashed>>

AcquireAgain(t) ==
    /\ where[t] = "acquiring"
    /\ \/ Acquired(t) /\ Goes(t, "filling") /\ noted' = [noted EXCEPT ![t] = NoLock]
          /\ UNCHANGED <<job, helper, undercut, todo, seen, mine>>
       \/ lock # NoLock /\ Leaves(t) /\ UNCHANGED files
    /\ UNCHANGED <<now, helping, crashed>>

-----------------------------------------------------------------------------
(* _run_update after the job exists *)

WriteJob(t, status) == job' = [job EXCEPT ![mine[t]] = [status |-> status, at |-> now]]

\* update(job, status="running")
MarkRunning(t) ==
    /\ where[t] = "marking"
    /\ WriteJob(t, "running") /\ Goes(t, "performing")
    /\ UNCHANGED <<now, lock, helper, undercut, helping, scans, crashed>>

\* An update in this process is over, or raised; one by a helper container is handed over to it.
Performed(t, status) ==
    /\ where[t] = "performing"
    /\ WriteJob(t, status) /\ Goes(t, "unlocking")
    /\ UNCHANGED <<now, lock, helper, undercut, helping, scans, crashed>>
HandsOver(t) ==
    /\ where[t] = "performing" /\ deployment = "docker"
    /\ helping' = helping \cup {mine[t]} /\ Goes(t, "finishing")
    /\ UNCHANGED <<now, files, scans, crashed>>
Perform(t) ==
    \/ deployment = "binary" /\ Performed(t, "succeeded")
    \/ Performed(t, "failed")
    \/ HandsOver(t)

\* update(job, status="running", async_update=True)
Finish(t) ==
    /\ where[t] = "finishing"
    /\ WriteJob(t, "running") /\ Leaves(t)
    /\ UNCHANGED <<now, lock, helper, undercut, helping, crashed>>

\* The end of update() with a final status.
UnlockFinished(t) ==
    /\ where[t] = "unlocking"
    /\ Unlink(t) /\ Leaves(t)
    /\ UNCHANGED <<now, helping, crashed>>

\* The helper's script: running, then failed or succeeded.
HelperReports(j) ==
    /\ j \in helping
    /\ \/ helper[j] = NoFile /\ helper' = [helper EXCEPT ![j] = [status |-> "running", at |-> now]]
          /\ UNCHANGED helping
       \/ helper[j] # NoFile
          /\ \E s \in {"failed", "succeeded"} : helper' = [helper EXCEPT ![j] = [status |-> s, at |-> now]]
          /\ helping' = helping \ {j}
    /\ UNCHANGED <<now, lock, job, undercut, where, scans, crashed>>

\* The helper container is killed, with the host for instance.
HelperDies(j) ==
    /\ "helper" \in MayDie /\ j \in helping
    /\ helping' = helping \ {j}
    /\ UNCHANGED <<now, files, where, scans, crashed>>

-----------------------------------------------------------------------------
(* list_recent, and get for a job that is over *)

Poll(p) ==
    /\ where[p] = "idle" /\ Present # {}
    /\ BeginScan(p, "polling")
    /\ UNCHANGED <<now, files, helping, crashed>>

Polled(p) ==
    /\ Scanned(p, "polling")
    /\ IF seen[p] THEN Leaves(p) ELSE Goes(p, "dropping") /\ UNCHANGED scans
    /\ UNCHANGED <<now, files, helping, crashed>>

Drop(p) ==
    /\ where[p] = "dropping"
    /\ Unlink(p) /\ Leaves(p)
    /\ UNCHANGED <<now, helping, crashed>>

-----------------------------------------------------------------------------

\* The threads of the process are gone; files and helpers stay.
ThreadsGone ==
    /\ where' = [t \in Requests |-> "idle"]
    /\ todo' = [t \in Requests |-> {}] /\ seen' = [t \in Requests |-> FALSE]
    /\ noted' = [t \in Requests |-> NoLock] /\ mine' = [t \in Requests |-> NoId]
    /\ UNCHANGED <<now, files, helping>>
ServiceDies == "service" \in MayDie /\ ~crashed /\ crashed' = TRUE /\ ThreadsGone

Tick ==
    /\ now < MaxTime
    /\ now' = now + 1
    /\ UNCHANGED <<files, helping, where, scans, crashed>>

\* A request from the lock to the job that runs, and from the final status on.
BeforeUpdate(t) ==
    \/ Start(t) \/ FillLock(t) \/ Checked(t) \/ CreateJob(t) \/ CreateFails(t) \/ RecordJob(t)
    \/ RecordFails(t) \/ RecoverOne(t) \/ Recovered(t) \/ Rechecked(t) \/ ReadLock(t) \/ Judge(t) \/ AcquireAgain(t)
    \/ MarkRunning(t) \/ ReadOne(t)
AfterUpdate(t) == Finish(t) \/ UnlockFinished(t)
AdminStep(t) == UNCHANGED deployment /\ (BeforeUpdate(t) \/ Perform(t) \/ AfterUpdate(t))
PollerStep(p) == UNCHANGED deployment /\ (Poll(p) \/ ReadOne(p) \/ Polled(p) \/ Drop(p))
HelperStep(j) == UNCHANGED deployment /\ (HelperReports(j) \/ HelperDies(j))

JobsNext ==
    \/ \E t \in Admins : AdminStep(t)
    \/ \E p \in Pollers : PollerStep(p)
    \/ \E j \in Jobs : HelperStep(j)
    \/ UNCHANGED deployment /\ (ServiceDies \/ Tick)

JobsSpec == JobsInit /\ [][JobsNext]_jobVars

\* Threads run, administrators try again, the clock goes on, and a helper that
\* is alive reports.
Fairness ==
    /\ \A t \in Admins : WF_jobVars(AdminStep(t))
    /\ \A j \in Jobs : WF_jobVars(UNCHANGED deployment /\ HelperReports(j))
    /\ WF_jobVars(UNCHANGED deployment /\ Tick)
FairJobsSpec == JobsSpec /\ Fairness

-----------------------------------------------------------------------------
(* Properties *)

\* create_if_idle admits one active job at a time
\* (test_update_job_store_rejects_concurrent_active_job_creation, and the 409
\* "an update job is already running" of api/update.py).
AtMostOneActive == Cardinality(ActiveJobs) <= 1

\* What the code achieves: so it is for any number of administrators and pages, whoever waits where, and after
\* crashes, until a lock is removed from under a request between its scan and its job (finding 1 of the
\* README), or recovery fails a job that somebody still works on, who then revives it.
AdmitsOneActive == ~undercut => AtMostOneActive

Orphaned(j) == j \in ActiveJobs /\ ~WorkedOn(j)

\* An active job that nobody works on, because the service or its helper died, becomes stale and is failed by
\* a later attempt to start an update (test_update_job_store_recovers_stale_active_job), as long as a lock lies
\* there.  Without one, create_if_idle acquires the lock, finds the job, removes the lock and refuses, before it
\* gets to the recovery: a job whose lock was removed, because it could not be recorded or by a listing, blocks
\* updates for ever.  So does the job of a helper that died having written status.json, which goes on to
\* override what recovery writes.
OrphanedJobsEnd ==
    \A j \in Jobs :
        Orphaned(j) /\ lock # NoLock /\ helper[j] = NoFile /\ Loaded(j).at + JobStale <= MaxTime
            ~> ~Orphaned(j) \/ lock = NoLock

\* A lock whose creator died before or while it filled it is removed by a later
\* attempt, unless an update is active.
OrphanedLocksEnd ==
    lock # NoLock /\ ActiveJobs = {} /\ lock.at + OrphanStale <= MaxTime /\ lock.at + CreateGrace <= MaxTime
        ~> lock = NoLock \/ ActiveJobs # {}

\* What a service that died leaves behind does not block updates for ever, but for the two cases above.
OrphansEnd == OrphanedJobsEnd /\ OrphanedLocksEnd
=============================================================================
