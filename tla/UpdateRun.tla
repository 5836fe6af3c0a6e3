----------------------------- MODULE UpdateRun -----------------------------
(***************************************************************************)
(* An update from the administrator's button to the restart: the request   *)
(* and its job (UpdateJobs) with what perform_update does on disk          *)
(* (ReleaseSwitch), in one worker thread after the other.  Rollbacks and   *)
(* restarts come from other requests, which no job store holds back.       *)
(*                                                                         *)
(* An update of this process is performed call by call.  That of a helper  *)
(* container leaves the releases alone; with it, pages list the jobs of    *)
(* one administrator (of two, see UpdatePolled.cfg), and the clock goes.   *)
(***************************************************************************)
EXTENDS UpdateJobs, ReleaseSwitch

ASSUME RunAssumption == Admins = Threads

VARIABLES
    acting,  \* the administrators who update
    outcome  \* of the perform_update a request waits for

runVars == <<jobVars, vars, acting, outcome>>

RunInit ==
    /\ JobsInit /\ Init
    /\ IF deployment = "binary" THEN acting = Admins ELSE acting \in {{t} : t \in Admins}
    /\ outcome = [t \in Admins |-> "none"]

Binary == deployment = "binary"
Performs(t, result) == Binary /\ where[t] = "performing" /\ outcome[t] = result
Becomes(t, result) == outcome' = [outcome EXCEPT ![t] = result]

-----------------------------------------------------------------------------
(* perform_update *)

\* The layout is not what it should be, the download or the archive is not: nothing was changed.
Rejects(t) ==
    /\ Performs(t, "none") /\ Becomes(t, "failed")
    /\ UNCHANGED <<jobVars, vars>>

Activates(t) ==
    /\ Performs(t, "none") /\ Becomes(t, "working")
    /\ BeginUpdate(t) /\ UNCHANGED jobVars

Works(t) ==
    /\ Performs(t, "working") /\ UNCHANGED jobVars
    /\ \/ /\ MoveFiles(t) \/ ClearTmp(t) \/ LinkCurrent(t) \/ LinkPrevious(t) \/ SwapPrevious(t)
          /\ UNCHANGED outcome
       \/ SwapCurrent(t) /\ Becomes(t, "succeeded")
       \/ AbortUpdate(t) /\ Becomes(t, "failed")

\* The request goes on, in another worker thread, and writes what became of it.
Reports(t) ==
    /\ Binary /\ outcome[t] \in {"succeeded", "failed"}
    /\ Performed(t, outcome[t]) /\ Becomes(t, "none")
    /\ UNCHANGED <<deployment, vars>>

-----------------------------------------------------------------------------
\* The steps of a request but for those of perform_update.
Handles(t) ==
    /\ At(t, "idle")
    /\ BeforeUpdate(t) \/ AfterUpdate(t) \/ (~Binary /\ (Performed(t, "failed") \/ HandsOver(t)))
    /\ UNCHANGED <<deployment, vars, outcome>>

RequestStep(t) == Handles(t) \/ Rejects(t) \/ Activates(t) \/ Works(t) \/ Reports(t)

RollsBack(t) == Binary /\ where[t] = "idle" /\ RollbackStep(t) /\ UNCHANGED <<jobVars, outcome>>

\* The process ends, with all its threads, and starts again.
Anew == outcome' = [t \in Admins |-> "none"] /\ UNCHANGED deployment
Restarts == Binary /\ Restart /\ ThreadsGone /\ Anew /\ UNCHANGED crashed
Dies ==
    /\ Anew
    /\ \/ Binary /\ Crash /\ ThreadsGone /\ UNCHANGED crashed
       \/ ~Binary /\ ServiceDies /\ UNCHANGED vars

Watches ==
    /\ ~Binary /\ UNCHANGED <<vars, outcome>>
    /\ \/ \E p \in Pollers : PollerStep(p)
       \/ \E j \in Jobs : HelperStep(j)
       \/ Tick /\ UNCHANGED deployment

RunNext ==
    /\ UNCHANGED acting
    /\ \/ \E t \in acting : RequestStep(t) \/ RollsBack(t)
       \/ Restarts \/ Dies \/ Watches

RunSpec == RunInit /\ [][RunNext]_runVars

-----------------------------------------------------------------------------
(* Properties *)

\* The job store is all that keeps two updates from changing the links at a time (create_if_idle; nothing
\* in update_executor.py does).  Until somebody undercuts it, requests, rollbacks and restarts do on disk
\* what a switch does that is asked for one update at a time.
OneUpdateSwitch == INSTANCE ReleaseSwitch WITH OneUpdate <- TRUE
StoreAdmitsOneUpdate == OneUpdateSwitch!Init /\ [][~undercut => OneUpdateSwitch!Next]_vars

\* Until then, wherever any of them stops, current and previous name complete releases.
LinksStayRunnable == ~undercut => LinksRunnable

\* Jobs, locks, links and releases keep their types.
RunTypeOK == JobsTypeOK /\ TypeOK

\* Whatever was updated and rolled back, a restart and with it a rollback stay possible, and a rollback
\* undoes the update (unless operations overlapped or failed half way).
UpdateCanBeUndone == [][RestartAllowed']_vars /\ UpdateKeepsOld
=============================================================================
