--------------------------- MODULE ReleaseSwitch ---------------------------
(***************************************************************************)
(* What a binary update and a rollback do on disk                          *)
(* (BinaryUpdateExecutor of services/update_executor.py).  Releases are    *)
(* directories; the symlinks current and previous name two of them, and    *)
(* systemd runs the program that current names.  Links are replaced by     *)
(* renaming temporary links over them, whose names hold only the process   *)
(* id: threads of one process share them.  Updates and rollbacks run in    *)
(* worker threads; only updates are serialised, by the job store.          *)
(***************************************************************************)
EXTENDS Naturals

CONSTANTS
    Threads,    \* worker threads that update or roll back
    Releases,   \* names of release directories
    First,      \* the release that is installed and running at the beginning
    FailAt,     \* the steps whose file-system call may fail
    OneUpdate,  \* the job store admits one update at a time
    MayCrash,   \* the process may die in the middle of an operation
    None

UpdateSteps   == {"moving", "clearing", "linkingCurrent", "linkingPrevious",
                  "swappingPrevious", "swappingCurrent"}
RollbackSteps == {"reading", "rbClearing", "rbLinking", "rbSwapping",
                  "rbLinkingBack", "rbSwappingBack"}
Steps == UpdateSteps \cup RollbackSteps \cup {"idle"}

ASSUME ReleaseAssumption ==
    /\ First \in Releases /\ None \notin Releases
    /\ FailAt \subseteq Steps
    /\ OneUpdate \in BOOLEAN /\ MayCrash \in BOOLEAN

VARIABLES
    tree,       \* what each release directory holds
    current, previous,
    tmp,        \* .current-PID, .previous-PID, .current-rollback-PID, .previous-rollback-PID
    running,    \* the release the process runs from
    disturbed,  \* history: since the process started, operations overlapped or a rollback failed half way
    pc,
    new,        \* release_dir of an update
    old,        \* old_release_dir of an update, current_target of a rollback
    target      \* previous_target of a rollback

links == <<current, previous>>
locals == <<new, old, target>>
process == <<running, disturbed>>
vars == <<tree, links, tmp, process, pc, locals>>

Names == {"cur", "prev", "rbCur", "rbPrev"}
NoTmp == [n \in Names |-> None]

TypeOK ==
    /\ tree \in [Releases -> {"absent", "partial", "complete"}]
    /\ current \in Releases /\ previous \in Releases \cup {None}
    /\ tmp \in [Names -> Releases \cup {None}]
    /\ running \in Releases /\ disturbed \in BOOLEAN
    /\ pc \in [Threads -> Steps]
    /\ new \in [Threads -> Releases \cup {None}]
    /\ old \in [Threads -> Releases \cup {None}]
    /\ target \in [Threads -> Releases \cup {None}]

Init ==
    /\ tree = [r \in Releases |-> IF r = First THEN "complete" ELSE "absent"]
    /\ current = First /\ previous = None
    /\ tmp = NoTmp
    /\ running = First /\ disturbed = FALSE
    /\ pc = [t \in Threads |-> "idle"]
    /\ new = [t \in Threads |-> None]
    /\ old = [t \in Threads |-> None]
    /\ target = [t \in Threads |-> None]

-----------------------------------------------------------------------------

At(t, step) == pc[t] = step
Go(t, step) == pc' = [pc EXCEPT ![t] = step]

\* The operation is over, with success or with an exception.
Over(t) ==
    /\ Go(t, "idle")
    /\ new' = [new EXCEPT ![t] = None]
    /\ old' = [old EXCEPT ![t] = None]
    /\ target' = [target EXCEPT ![t] = None]

\* _release_layout, with and without allow_pending_current
PendingLayout == current = running \/ previous = running
UpdateLayout_Pending == PendingLayout    \* mutant: an update over an update
UpdateLayout == current = running

\* An operation begins: does another one still run?
Begins(t, step) ==
    /\ At(t, "idle") /\ Go(t, step)
    /\ disturbed' = (disturbed \/ \E s \in Threads \ {t} : ~At(s, "idle"))
    /\ UNCHANGED running

\* A step raises: its call fails, or (broken) finds the files changed.
Raises(t, step, broken) == At(t, step) /\ (broken \/ step \in FailAt)

-----------------------------------------------------------------------------
(* perform_update from the layout check on, and _activate_release_payload *)

BeginUpdate(t) ==
    /\ UpdateLayout
    /\ OneUpdate => \A s \in Threads : pc[s] \notin UpdateSteps
    /\ \E r \in Releases :
        /\ tree[r] = "absent"
        /\ tree' = [tree EXCEPT ![r] = "partial"]
        /\ new' = [new EXCEPT ![t] = r]
    /\ old' = [old EXCEPT ![t] = current]
    /\ Begins(t, "moving")
    /\ UNCHANGED <<links, tmp, target>>

\* The three files are moved, and the tree is validated.
MoveFiles(t) ==
    /\ At(t, "moving")
    /\ tree' = [tree EXCEPT ![new[t]] = "complete"]
    /\ Go(t, "clearing")
    /\ UNCHANGED <<links, tmp, process, locals>>

ClearTmp(t) ==
    /\ At(t, "clearing")
    /\ tmp' = [tmp EXCEPT !["cur"] = None, !["prev"] = None]
    /\ Go(t, "linkingCurrent")
    /\ UNCHANGED <<tree, links, process, locals>>

LinkCurrent(t) ==
    /\ At(t, "linkingCurrent") /\ tmp["cur"] = None
    /\ tmp' = [tmp EXCEPT !["cur"] = new[t]]
    /\ Go(t, "linkingPrevious")
    /\ UNCHANGED <<tree, links, process, locals>>

OldRelease_New(t) == new[t]    \* mutant: both links name the new release
OldRelease(t) == old[t]
LinkPrevious(t) ==
    /\ At(t, "linkingPrevious") /\ tmp["prev"] = None
    /\ tmp' = [tmp EXCEPT !["prev"] = OldRelease(t)]
    /\ Go(t, "swappingPrevious")
    /\ UNCHANGED <<tree, links, process, locals>>

SwapPrevious(t) ==
    /\ At(t, "swappingPrevious") /\ tmp["prev"] # None
    /\ previous' = tmp["prev"]
    /\ tmp' = [tmp EXCEPT !["prev"] = None]
    /\ Go(t, "swappingCurrent")
    /\ UNCHANGED <<tree, current, process, locals>>

SwapCurrent(t) ==
    /\ At(t, "swappingCurrent") /\ tmp["cur"] # None
    /\ current' = tmp["cur"]
    /\ tmp' = [tmp EXCEPT !["cur"] = None]
    /\ Over(t)
    /\ UNCHANGED <<tree, previous, process>>

UpdateRaises(t) ==
    \/ Raises(t, "moving", FALSE)
    \/ Raises(t, "clearing", FALSE)
    \/ Raises(t, "linkingCurrent", tmp["cur"] # None)
    \/ Raises(t, "linkingPrevious", tmp["prev"] # None)
    \/ Raises(t, "swappingPrevious", tmp["prev"] = None)
    \/ Raises(t, "swappingCurrent", tmp["cur"] = None)

\* except: the temporary links and the release directory are removed.
CleanedTmp == [tmp EXCEPT !["cur"] = None, !["prev"] = None]
AbortUpdate(t) ==
    /\ UpdateRaises(t)
    /\ tmp' = CleanedTmp
    /\ tree' = [tree EXCEPT ![new[t]] = "absent"]
    /\ Over(t)
    /\ UNCHANGED <<links, process>>

-----------------------------------------------------------------------------
(* rollback *)

RollbackReady == PendingLayout /\ previous # None

\* previous is read, and its tree validated.
BeginRollback(t) ==
    /\ RollbackReady
    /\ tree[previous] = "complete"
    /\ target' = [target EXCEPT ![t] = previous]
    /\ Begins(t, "reading")
    /\ UNCHANGED <<tree, links, tmp, new, old>>

ReadCurrent(t) ==
    /\ At(t, "reading")
    /\ old' = [old EXCEPT ![t] = current]
    /\ Go(t, "rbClearing")
    /\ UNCHANGED <<tree, links, tmp, process, new, target>>

RbClear(t) ==
    /\ At(t, "rbClearing")
    /\ tmp' = [tmp EXCEPT !["rbCur"] = None, !["rbPrev"] = None]
    /\ Go(t, "rbLinking")
    /\ UNCHANGED <<tree, links, process, locals>>

RbLink(t) ==
    /\ At(t, "rbLinking") /\ tmp["rbCur"] = None
    /\ tmp' = [tmp EXCEPT !["rbCur"] = target[t]]
    /\ Go(t, "rbSwapping")
    /\ UNCHANGED <<tree, links, process, locals>>

\* mutant: a link that another rollback has renamed already is taken for there
RbSwap_Blind(t) ==
    /\ At(t, "rbSwapping")
    /\ current' = tmp["rbCur"]
    /\ tmp' = [tmp EXCEPT !["rbCur"] = None]
    /\ Go(t, "rbLinkingBack")
    /\ UNCHANGED <<tree, previous, process, locals>>
RbSwap(t) ==
    /\ At(t, "rbSwapping") /\ tmp["rbCur"] # None
    /\ current' = tmp["rbCur"]
    /\ tmp' = [tmp EXCEPT !["rbCur"] = None]
    /\ Go(t, "rbLinkingBack")
    /\ UNCHANGED <<tree, previous, process, locals>>

RbLinkBack(t) ==
    /\ At(t, "rbLinkingBack") /\ tmp["rbPrev"] = None
    /\ tmp' = [tmp EXCEPT !["rbPrev"] = old[t]]
    /\ Go(t, "rbSwappingBack")
    /\ UNCHANGED <<tree, links, process, locals>>

\* The rename, and the finally that follows it.
RbSwapBack(t) ==
    /\ At(t, "rbSwappingBack") /\ tmp["rbPrev"] # None
    /\ previous' = tmp["rbPrev"]
    /\ tmp' = [tmp EXCEPT !["rbCur"] = None, !["rbPrev"] = None]
    /\ Over(t)
    /\ UNCHANGED <<tree, current, process>>

\* Before the try: nothing is cleaned up.
RollbackFails(t) ==
    /\ \/ Raises(t, "rbClearing", FALSE)
       \/ Raises(t, "rbLinking", tmp["rbCur"] # None)
       \/ Raises(t, "rbSwapping", tmp["rbCur"] = None)
    /\ Over(t)
    /\ UNCHANGED <<tree, links, tmp, process>>

\* Inside it: current stays on the release it was moved to.
RollbackFailsHalfWay(t) ==
    /\ \/ Raises(t, "rbLinkingBack", tmp["rbPrev"] # None)
       \/ Raises(t, "rbSwappingBack", tmp["rbPrev"] = None)
    /\ tmp' = [tmp EXCEPT !["rbCur"] = None, !["rbPrev"] = None]
    /\ Over(t)
    /\ disturbed' = TRUE
    /\ UNCHANGED <<tree, links, running>>

-----------------------------------------------------------------------------

\* The process is gone, whatever its threads did; systemd starts what current
\* names.  A new process has new names for its temporary links.
StartAgain ==
    /\ running' = current /\ disturbed' = FALSE
    /\ tmp' = NoTmp
    /\ pc' = [t \in Threads |-> "idle"]
    /\ new' = [t \in Threads |-> None]
    /\ old' = [t \in Threads |-> None]
    /\ target' = [t \in Threads |-> None]
    /\ UNCHANGED <<tree, links>>

\* restart_system: the preflight, then exit, whatever other threads are at.
Restart == PendingLayout /\ StartAgain

Crash == MayCrash /\ StartAgain

UpdateStep(t) ==
    \/ BeginUpdate(t) \/ MoveFiles(t) \/ ClearTmp(t) \/ LinkCurrent(t) \/ LinkPrevious(t)
    \/ SwapPrevious(t) \/ SwapCurrent(t) \/ AbortUpdate(t)

RollbackStep(t) ==
    \/ BeginRollback(t) \/ ReadCurrent(t) \/ RbClear(t) \/ RbLink(t) \/ RbSwap(t)
    \/ RbLinkBack(t) \/ RbSwapBack(t) \/ RollbackFails(t) \/ RollbackFailsHalfWay(t)

Next == (\E t \in Threads : UpdateStep(t) \/ RollbackStep(t)) \/ Restart \/ Crash

Spec == Init /\ [][Next]_vars

-----------------------------------------------------------------------------
(* Properties *)

\* Wherever an update or a rollback stops, current and previous name complete
\* releases: the program can be started and the rollback can be made
\* (test_perform_update_restores_backup_when_replacement_fails).
LinksRunnable ==
    /\ tree[current] = "complete"
    /\ previous # None => tree[previous] = "complete"

\* Once every operation is over, the running release is under one of the two
\* links, which is what the preflight of restart and of rollback asks for: an
\* administrator who is told that a restart is required can restart.
RestartAlwaysAllowed == (\A t \in Threads : At(t, "idle")) => PendingLayout

\* What the code achieves: so it is after any sequence of updates, rollbacks,
\* failed updates, crashes and restarts, unless operations overlapped or a
\* rollback failed between its two renames.
RestartAllowed == ~disturbed => RestartAlwaysAllowed

\* An update that completes, with no other operation around, leaves previous on
\* the release that current named just before, so that a rollback undoes it.
UpdateKeepsOld ==
    [][\A t \in Threads :
        ~disturbed /\ At(t, "swappingCurrent") /\ current' # current => previous' = current]_vars
=============================================================================
