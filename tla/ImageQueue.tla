----------------------------- MODULE ImageQueue -----------------------------
(***************************************************************************)
(* The queue of the image page (web/src/app/image): the conversations in   *)
(* memory, the loop that drains them, the batch that requests the images   *)
(* of a turn, the history in the browser's store, and the session that the *)
(* queue works for.                                                        *)
(*                                                                         *)
(* JavaScript runs one continuation at a time: a step of the model is what *)
(* runs between two awaits.  The runtime of a session outlives the page;   *)
(* the page mounts and unmounts with the route, and every mount has a      *)
(* conversationsRef of its own, which the closures of that mount read.     *)
(* What is modelled is one browser tab and the runtime of one session key. *)
(***************************************************************************)
EXTENDS Integers, FiniteSets, Sequences

CONSTANTS
    MaxConvs,  \* bound of the conversations begun
    MaxTurns,  \* bound of the submissions, one turn each
    Images,    \* images of a turn
    Singles,   \* turns submitted for one image
    Workers,   \* workers of runBoundedImageBatch
    Loops,     \* calls of drainConversationQueues that may be running at once
    MaxListed, \* bound of the conversations in the list
    MaxMounts, \* bound of the times that the page is opened
    Hazards,   \* the disturbances that may happen, each at most once
    MaxEvents, \* bound of the submissions and disturbances together
    None

ASSUME QueueAssumption ==
    /\ MaxConvs \in Nat /\ MaxTurns \in Nat
    /\ Images \subseteq Nat /\ 1 \in Images /\ Workers \subseteq Nat /\ Workers # {} /\ Loops # {}
    /\ MaxMounts \in Nat \ {0} /\ MaxEvents \in Nat /\ MaxListed \in Nat
    /\ Hazards \subseteq {"leave", "hasty", "delete", "clear", "signout", "logout", "failure", "reload"}
    /\ None \notin Nat \cup Loops

Convs == 1 .. MaxConvs
Turns == 1 .. MaxTurns

VARIABLES
    list,      \* the runtime's conversations
    ref,       \* conversationsRef of each mount
    page,      \* the mount on screen, whether its drain effect is due, how many mounts there were
    load,      \* loadHistory of the mount on screen
    live,      \* isActive
    draining,  \* drainInProgress
    active,    \* activeConversationQueueIds
    control,   \* abortControllers: the loop whose signal a conversation's controller holds
    aborted,   \* loops whose signal is aborted
    loop, worker,
    stored, gone,   \* the items and the deleted ids in the browser's store
    writes,    \* the write queue of the store
    mine,      \* the stored session is the one of this page
    asked,     \* requests sent for each image of a turn
    used,      \* conversation ids and turn ids handed out
    happened   \* disturbances so far

memory  == <<list, ref, page>>
runtime == <<live, draining, control, aborted>>
disk    == <<stored, gone>>
vars == <<memory, load, runtime, active, loop, worker, disk, writes, mine, asked, used, happened>>

-----------------------------------------------------------------------------
(* Conversations and turns.  A version stands for updatedAt. *)

Mounts == 1 .. MaxMounts
ImageStatus == {"loading", "success", "error"}
Count(t) == IF t \in Singles THEN {1} ELSE Images
Turn ==
    UNION {[id : {t}, status : {"queued", "generating", "success", "error"}, img : [Count(t) -> ImageStatus]] : t \in Turns}
Unfinished(turn) == turn.status \in {"queued", "generating"}

Has(conv, t) == conv # None /\ \E k \in DOMAIN conv.turns : conv.turns[k].id = t
TurnOf(conv, t) == conv.turns[CHOOSE k \in DOMAIN conv.turns : conv.turns[k].id = t]
HasQueued(conv) == conv # None /\ \E k \in DOMAIN conv.turns : conv.turns[k].status = "queued"
FirstQueued(conv) ==
    conv.turns[CHOOSE k \in DOMAIN conv.turns :
        /\ conv.turns[k].status = "queued"
        /\ \A i \in 1 .. k - 1 : conv.turns[i].status # "queued"]

Edited(conv, t, Edit(_)) ==
    [ver   |-> conv.ver + 1,
     turns |-> [k \in DOMAIN conv.turns |->
                  IF conv.turns[k].id = t THEN Edit(conv.turns[k]) ELSE conv.turns[k]]]

GeneratingAsRunning(turn) == [turn EXCEPT !.status = "running"]
Generating(turn) == [turn EXCEPT !.status = "generating"]
WithoutAnyImage(turn) == [i \in DOMAIN turn.img |-> "error"]
Without(turn) == [i \in DOMAIN turn.img |-> IF turn.img[i] = "loading" THEN "error" ELSE turn.img[i]]
Failed(turn) == [turn EXCEPT !.status = "error", !.img = Without(turn)]
Cancelled(turn) == IF Unfinished(turn) THEN Failed(turn) ELSE turn

\* A turn with an image that failed, or with none that succeeded, has failed.
Outcome(img) == IF \A i \in DOMAIN img : img[i] = "success" THEN "success" ELSE "error"
Finished(turn) == [turn EXCEPT !.status = Outcome(Without(turn)), !.img = Without(turn)]

Over(conv, Edit(_)) ==
    IF conv = None \/ \A k \in DOMAIN conv.turns : ~Unfinished(conv.turns[k]) THEN conv
    ELSE [ver |-> conv.ver + 1, turns |-> [k \in DOMAIN conv.turns |-> Edit(conv.turns[k])]]

\* markAbortedImageQueueRunsFailed, recoverConversationHistory.
MarkAborted(conv) == Over(conv, Cancelled)
RecoverByRequeueing(turn) == [turn EXCEPT !.status = IF @ = "generating" THEN "queued" ELSE @]
Recover(turn) == IF Unfinished(turn) THEN Finished(turn) ELSE turn
Recovered(items) == [c \in Convs |-> Over(items[c], Recover)]

NoItems == [c \in Convs |-> None]
VisibleThoughGone == stored
Visible == [c \in Convs |-> IF c \in gone THEN None ELSE stored[c]]
Newest(old, new) == IF old = None \/ new.ver >= old.ver THEN new ELSE old

-----------------------------------------------------------------------------
(* The runtime. *)

Off == [pc |-> "off", mount |-> 0, conv |-> None, turn |-> None, left |-> {},
        asking |-> FALSE, interrupted |-> FALSE, broken |-> FALSE, thrown |-> FALSE]
Resting == [pc |-> "done", img |-> None, out |-> "none", ver |-> 0, asking |-> "no"]

Init ==
    /\ list = NoItems /\ ref = [m \in Mounts |-> NoItems]
    /\ page = [mount |-> 0, due |-> FALSE, opened |-> 0]
    /\ load = [pc |-> "off", items |-> NoItems]
    /\ live = TRUE /\ draining = FALSE /\ active = {}
    /\ control = [c \in Convs |-> None] /\ aborted = {}
    /\ loop = [l \in Loops |-> Off]
    /\ worker = [l \in Loops |-> [w \in Workers |-> Resting]]
    /\ stored = NoItems /\ gone = {} /\ writes = <<>>
    /\ mine = TRUE
    /\ asked = [t \in Turns |-> [i \in Images |-> 0]]
    /\ used = [convs |-> 0, turns |-> 0] /\ happened = {}

\* What a loop does without waiting for anything comes before every other step.
Waits == \A l \in Loops : loop[l].pc \notin {"pick", "ended"}

\* A disturbance happens once; there is a bound to submissions and disturbances.
Events == used.turns + Cardinality(happened)
Hazard(h) ==
    /\ h \in Hazards \ happened /\ Events < MaxEvents
    /\ happened' = happened \cup {h}

\* A change of the conversations reaches the ref of the closure that makes it, and the mount on screen.
Show(m, items) ==
    /\ list' = items
    /\ ref' = [k \in Mounts |-> IF k \in {m, page.mount} THEN items ELSE ref[k]]
    /\ page' = [page EXCEPT !.due = page.mount # 0]
Put(m, c, conv) == Show(m, [list EXCEPT ![c] = conv])

\* The runtime is given up: every controller aborts.
Held == {control[c] : c \in Convs} \ {None}
Deactivate ==
    /\ live' = FALSE /\ draining' = FALSE
    /\ aborted' = aborted \cup Held /\ control' = [c \in Convs |-> None]

\* isCurrentImageQueueOwner: isActive is read before the stored session is, and a session
\* that has changed gives the runtime up.
Owns(l) == loop[l].asking /\ mine
Evict(asking) == IF asking /\ ~mine THEN Deactivate ELSE UNCHANGED runtime

At(l, pc) == loop' = [loop EXCEPT ![l].pc = pc, ![l].asking = live]
SaveOfTheSnapshot(c, conv, by) ==
    Append(writes, [op |-> "save", conv |-> c,
                    items |-> [NoItems EXCEPT ![c] = IF list[c] = None THEN conv ELSE list[c]], by |-> by])
Save(c, conv, by) == Append(writes, [op |-> "save", conv |-> c, items |-> [NoItems EXCEPT ![c] = conv], by |-> by])

-----------------------------------------------------------------------------
(* drainConversationQueues and runConversationQueue. *)

\* A call while another drains returns at once.
TryDrain(m) ==
    IF draining THEN UNCHANGED <<draining, loop>>
    ELSE LET l == CHOOSE x \in Loops : loop[x].pc = "off" IN
           /\ \E x \in Loops : loop[x].pc = "off"
           /\ draining' = TRUE
           /\ loop' = [loop EXCEPT ![l] = [Off EXCEPT !.pc = "pick", !.mount = m]]

DrainEffect ==
    /\ Waits /\ page.mount # 0 /\ page.due
    /\ page' = [page EXCEPT !.due = FALSE]
    /\ TryDrain(page.mount)
    /\ UNCHANGED <<list, ref, load, live, control, aborted, active, worker, disk, writes, mine, asked, used, happened>>

Eligible(c) == c \notin active /\ HasQueued(list[c])

\* The loop goes on until nothing is queued; only then may another one start.
LoopPick(l) ==
    /\ loop[l].pc = "pick"
    /\ \/ /\ live
          /\ \E c \in Convs :
               /\ Eligible(c)
               /\ loop' = [loop EXCEPT ![l].pc = "enter", ![l].conv = c, ![l].asking = live]
          /\ UNCHANGED draining
       \/ /\ ~live \/ \A c \in Convs : ~Eligible(c)
          /\ loop' = [loop EXCEPT ![l] = Off]
          /\ draining' = FALSE
    /\ UNCHANGED <<memory, load, live, control, aborted, active, worker, disk, writes, mine, asked, used, happened>>

StartableThoughActive(l) == HasQueued(ref[loop[l].mount][loop[l].conv])
Startable(l) ==
    /\ loop[l].conv \notin active
    /\ HasQueued(ref[loop[l].mount][loop[l].conv])

\* The owner has been checked: the turn to run is the first one queued in the closure's ref.
LoopEnter(l) ==
    LET c == loop[l].conv
        turn == FirstQueued(ref[loop[l].mount][c])
    IN
    /\ Waits /\ loop[l].pc = "enter" /\ Owns(l) /\ Startable(l)
    /\ control' = [control EXCEPT ![c] = l] /\ aborted' = aborted \ {l}
    /\ active' = active \cup {c}
    /\ loop' = [loop EXCEPT ![l].pc = IF list[c] = None THEN "ended" ELSE "starting",
                            ![l].turn = turn.id,
                            ![l].left = {i \in DOMAIN turn.img : turn.img[i] = "loading"},
                            ![l].interrupted = FALSE, ![l].broken = FALSE, ![l].thrown = FALSE]
    /\ IF list[c] = None THEN UNCHANGED <<memory, writes>>
       ELSE LET conv == Edited(list[c], turn.id, Generating) IN
            /\ Put(loop[l].mount, c, conv)
            /\ writes' = Save(c, conv, [kind |-> "loop", l |-> l])
    /\ UNCHANGED <<load, live, draining, worker, disk, mine, asked, used, happened>>

LoopTurnedAway(l) ==
    /\ Waits /\ loop[l].pc = "enter" /\ ~(Owns(l) /\ Startable(l))
    /\ Evict(loop[l].asking)
    /\ loop' = [loop EXCEPT ![l].pc = "pick"]
    /\ UNCHANGED <<memory, load, active, worker, disk, writes, mine, asked, used, happened>>

\* What shouldContinue finds at once; the rest of canContinueImageBatch waits for the store.
Asking(l) == IF l \in aborted THEN "aborted" ELSE IF live THEN "yes" ELSE "no"
Continues(l, w) ==
    /\ worker[l][w].asking = "yes" /\ mine
    /\ Has(ref[loop[l].mount][loop[l].conv], loop[l].turn)

\* The store answers in order: a loop that is waiting to enter has its answer first.
LoopBatch(l) ==
    /\ Waits /\ loop[l].pc = "started" /\ Owns(l)
    /\ \A k \in Loops : loop[k].pc # "enter"
    /\ loop' = [loop EXCEPT ![l].pc = "batch"]
    /\ worker' = [worker EXCEPT ![l] = [w \in Workers |-> [Resting EXCEPT !.pc = "ask", !.asking = Asking(l)]]]
    /\ UNCHANGED <<memory, load, runtime, active, disk, writes, mine, asked, used, happened>>

\* A check of the owner that fails ends the run and leaves the turn as it is.
LoopDisowned(l) ==
    /\ Waits /\ loop[l].pc \in {"started", "final", "failing"} /\ ~Owns(l)
    /\ Evict(loop[l].asking)
    /\ loop' = [loop EXCEPT ![l].pc = "ended"]
    /\ UNCHANGED <<memory, load, active, worker, disk, writes, mine, asked, used, happened>>

\* All workers are done: a batch that was interrupted leaves the turn, an aborted one cancels it
\* in memory only.
LoopJoin(l) ==
    LET c == loop[l].conv IN
    /\ Waits /\ loop[l].pc = "batch" /\ \A w \in Workers : worker[l][w].pc = "done"
    /\ IF loop[l].thrown THEN At(l, "failing") /\ UNCHANGED memory
       ELSE IF l \in aborted
            THEN /\ loop' = [loop EXCEPT ![l].pc = "ended"]
                 /\ IF list[c] = None THEN UNCHANGED memory
                    ELSE Put(loop[l].mount, c, Edited(list[c], loop[l].turn, Cancelled))
       ELSE IF loop[l].interrupted THEN loop' = [loop EXCEPT ![l].pc = "ended"] /\ UNCHANGED memory
       ELSE At(l, "final") /\ UNCHANGED memory
    /\ UNCHANGED <<load, runtime, active, worker, disk, writes, mine, asked, used, happened>>

\* The turn is given its final status, or the status of an error, and saved.
SettleTurn(l, pc, next, Edit(_)) ==
    LET c == loop[l].conv IN
    /\ Waits /\ loop[l].pc = pc /\ Owns(l)
    /\ IF list[c] = None
       THEN /\ IF pc = "final" THEN At(l, "quota")
               ELSE loop' = [loop EXCEPT ![l].pc = "ended", ![l].thrown = FALSE]
            /\ UNCHANGED <<memory, writes>>
       ELSE LET conv == Edited(list[c], loop[l].turn, Edit) IN
            /\ Put(loop[l].mount, c, conv)
            /\ writes' = Save(c, conv, [kind |-> "loop", l |-> l])
            /\ loop' = [loop EXCEPT ![l].pc = next, ![l].thrown = FALSE]
    /\ UNCHANGED <<load, runtime, active, worker, disk, mine, asked, used, happened>>
LoopFinal(l) == SettleTurn(l, "final", "finishing", Finished)
LoopFail(l)  == SettleTurn(l, "failing", "failed", Failed)

\* loadQuota: the turn is over, the conversation is still in use.
LoopQuota(l) ==
    /\ Waits /\ loop[l].pc = "quota"
    /\ Evict(loop[l].asking)
    /\ loop' = [loop EXCEPT ![l].pc = "ended"]
    /\ UNCHANGED <<memory, load, active, worker, disk, writes, mine, asked, used, happened>>

\* finally: an error thrown in the catch also ends the loop.
LoopEndKeepingActive(l) ==
    /\ loop[l].pc = "ended"
    /\ control' = [control EXCEPT ![loop[l].conv] = IF @ = l THEN None ELSE @]
    /\ loop' = [loop EXCEPT ![l] = IF loop[l].thrown THEN Off
                                   ELSE [Off EXCEPT !.pc = "pick", !.mount = loop[l].mount]]
    /\ draining' = (draining /\ ~loop[l].thrown)
    /\ aborted' = aborted \ {l}
    /\ UNCHANGED <<memory, load, live, active, worker, disk, writes, mine, asked, used, happened>>
LoopEnd(l) ==
    LET c == loop[l].conv IN
    /\ loop[l].pc = "ended"
    /\ control' = [control EXCEPT ![c] = IF @ = l THEN None ELSE @]
    /\ active' = active \ {c}
    /\ loop' = [loop EXCEPT ![l] = IF loop[l].thrown THEN Off
                                   ELSE [Off EXCEPT !.pc = "pick", !.mount = loop[l].mount]]
    /\ draining' = (draining /\ ~loop[l].thrown)
    /\ aborted' = aborted \ {l}
    /\ UNCHANGED <<memory, load, live, worker, disk, writes, mine, asked, used, happened>>

-----------------------------------------------------------------------------
(* runBoundedImageBatch: workers take the images of the turn one after     *)
(* the other.                                                              *)

Step(l, w, pc) == worker' = [worker EXCEPT ![l][w] = [@ EXCEPT !.pc = pc, !.asking = Asking(l)]]
Interrupt(l) == loop' = [loop EXCEPT ![l].interrupted = TRUE]

\* The next image is requested.  Workers differ by nothing: of those that ask, the first goes first.
WorkerTake(l, w) ==
    /\ Waits /\ worker[l][w].pc = "ask" /\ Continues(l, w)
    /\ \A v \in Workers : v < w => worker[l][v].pc # "ask"
    /\ IF loop[l].left = {}
       THEN /\ worker' = [worker EXCEPT ![l][w] = Resting]
            /\ UNCHANGED <<loop, asked>>
       ELSE LET i == CHOOSE x \in loop[l].left : \A y \in loop[l].left : x <= y IN
            /\ loop' = [loop EXCEPT ![l].left = @ \ {i}]
            /\ worker' = [worker EXCEPT ![l][w] = [Resting EXCEPT !.pc = "request", !.img = i]]
            /\ asked' = [asked EXCEPT ![loop[l].turn][i] = @ + 1]
    /\ UNCHANGED <<memory, load, runtime, active, disk, writes, mine, used, happened>>

\* A worker that may not go on stops; one that holds an answer drops it.
WorkerStop(l, w) ==
    /\ Waits /\ worker[l][w].pc \in {"ask", "answered"} /\ ~Continues(l, w)
    /\ Interrupt(l)
    /\ Evict(worker[l][w].asking = "yes")
    /\ worker' = [worker EXCEPT ![l][w] = IF @.pc = "ask" THEN Resting
                                          ELSE [Resting EXCEPT !.pc = "ask", !.asking = Asking(l)]]
    /\ UNCHANGED <<memory, load, active, disk, writes, mine, asked, used, happened>>

\* An image, an error, or the error of an aborted request.
WorkerAnswered(l, w) ==
    /\ Waits /\ worker[l][w].pc = "request"
    /\ \E out \in {"success", "error"} :
         worker' = [worker EXCEPT ![l][w] = [@ EXCEPT !.pc = "answered", !.out = out, !.asking = Asking(l)]]
    /\ UNCHANGED <<memory, load, runtime, active, loop, disk, writes, mine, asked, used, happened>>

\* updatePendingImage: only an image that is still loading, of a turn that is not over, is changed.
Pending(l, w) ==
    LET conv == list[loop[l].conv] IN
    /\ Has(conv, loop[l].turn)
    /\ Unfinished(TurnOf(conv, loop[l].turn))
    /\ TurnOf(conv, loop[l].turn).img[worker[l][w].img] = "loading"

WorkerPut(l, w) ==
    LET c == loop[l].conv
        SetImage(turn) == [turn EXCEPT !.img[worker[l][w].img] = worker[l][w].out]
        conv == Edited(list[c], loop[l].turn, SetImage)
    IN
    /\ Waits /\ worker[l][w].pc = "answered" /\ Continues(l, w) /\ Pending(l, w)
    /\ Put(loop[l].mount, c, conv)
    /\ worker' = [worker EXCEPT ![l][w].pc = "chained", ![l][w].ver = conv.ver]
    /\ UNCHANGED <<load, runtime, active, loop, disk, writes, mine, asked, used, happened>>

WorkerLate(l, w) ==
    /\ Waits /\ worker[l][w].pc = "answered" /\ Continues(l, w) /\ ~Pending(l, w)
    /\ Interrupt(l)
    /\ Step(l, w, "ask")
    /\ UNCHANGED <<memory, load, runtime, active, disk, writes, mine, asked, used, happened>>

\* The saves of a batch form a chain; one whose conversation has been replaced since is skipped.
WorkerSave(l, w) ==
    LET c == loop[l].conv IN
    /\ Waits /\ worker[l][w].pc = "chained" /\ ~loop[l].broken
    /\ \A v \in Workers : worker[l][v].pc # "saving"
    /\ IF list[c] # None /\ list[c].ver = worker[l][w].ver
       THEN /\ writes' = Save(c, list[c], [kind |-> "worker", l |-> l, w |-> w])
            /\ worker' = [worker EXCEPT ![l][w].pc = "saving"]
       ELSE Step(l, w, "ask") /\ UNCHANGED writes
    /\ UNCHANGED <<memory, load, runtime, active, loop, disk, mine, asked, used, happened>>

\* A save that failed breaks the chain.  The image that was to be saved is no longer loading: the
\* error of an image that had succeeded finds nothing to change, the other one fails the worker.
SaveFailed(l, w) ==
    IF worker[l][w].out = "success"
    THEN /\ loop' = [loop EXCEPT ![l].broken = TRUE, ![l].interrupted = TRUE]
         /\ Step(l, w, "ask")
    ELSE /\ loop' = [loop EXCEPT ![l].broken = TRUE, ![l].thrown = TRUE]
         /\ worker' = [worker EXCEPT ![l][w] = Resting]

WorkerChainBroken(l, w) ==
    /\ Waits /\ worker[l][w].pc = "chained" /\ loop[l].broken
    /\ SaveFailed(l, w)
    /\ UNCHANGED <<memory, load, runtime, active, disk, writes, mine, asked, used, happened>>

-----------------------------------------------------------------------------
(* The history in the browser's store: operations are queued, and each     *)
(* reads what is stored before it writes.                                  *)

Merged(c, new) ==
    IF c \in gone THEN None ELSE IF new = None THEN stored[c] ELSE Newest(stored[c], new)

Ok(w) ==
    CASE w.op \in {"save", "all"} ->
           /\ stored' = [c \in Convs |-> Merged(c, w.items[c])]
           /\ UNCHANGED gone
      [] w.op = "delete" ->
           /\ gone' = gone \cup {w.conv}
           /\ stored' = [stored EXCEPT ![w.conv] = None]
      [] w.op = "clear" ->
           /\ gone' = gone \cup {c \in Convs : stored[c] # None}
           /\ stored' = NoItems

\* An operation fails before its first write, or between the deleted ids and the items.
BrokenItemsFirst(w) ==
    /\ UNCHANGED gone
    /\ stored' = IF w.op = "delete" THEN [stored EXCEPT ![w.conv] = None]
                 ELSE IF w.op = "clear" THEN NoItems ELSE stored
Broken(w) ==
    /\ UNCHANGED stored
    /\ \/ UNCHANGED gone
       \/ w.op = "delete" /\ gone' = gone \cup {w.conv}
       \/ w.op = "clear" /\ gone' = gone \cup {c \in Convs : stored[c] # None}

\* What runs when the operation is over: the run or the worker goes on, a submission drains,
\* history that was recovered is shown, conversations whose deletion failed come back.
Resume(by, ok) ==
    CASE by.kind = "loop" ->
           /\ LET pc == loop[by.l].pc IN
              IF pc = "failed"
              THEN loop' = [loop EXCEPT ![by.l].pc = "ended", ![by.l].thrown = ~ok]
              ELSE At(by.l, IF ~ok THEN "failing" ELSE IF pc = "starting" THEN "started" ELSE "quota")
           /\ UNCHANGED <<memory, load, draining, worker>>
      [] by.kind = "worker" ->
           /\ IF ok THEN Step(by.l, by.w, "ask") /\ UNCHANGED loop ELSE SaveFailed(by.l, by.w)
           /\ UNCHANGED <<memory, load, draining>>
      [] by.kind = "submit" ->
           /\ IF ok THEN TryDrain(by.m) ELSE UNCHANGED <<draining, loop>>
           /\ UNCHANGED <<memory, load, worker>>
      [] by.kind = "load" ->
           /\ IF by.m = page.mount
              THEN /\ load' = [load EXCEPT !.pc = "off"]
                   /\ IF ok THEN Show(by.m, load.items) ELSE UNCHANGED memory
              ELSE UNCHANGED <<memory, load>>
           /\ UNCHANGED <<draining, loop, worker>>
      [] by.kind = "delete" ->
           /\ IF ok THEN UNCHANGED memory ELSE Put(by.m, by.conv, MarkAborted(by.before))
           /\ UNCHANGED <<load, draining, loop, worker>>
      [] by.kind = "clear" ->
           /\ IF ok THEN UNCHANGED memory ELSE Show(by.m, [c \in Convs |-> MarkAborted(by.before[c])])
           /\ UNCHANGED <<load, draining, loop, worker>>

WriteDone ==
    /\ Waits /\ writes # <<>>
    /\ Ok(Head(writes)) /\ Resume(Head(writes).by, TRUE)
    /\ writes' = Tail(writes)
    /\ UNCHANGED <<live, control, aborted, active, mine, asked, used, happened>>

WriteFailed ==
    /\ Waits /\ writes # <<>> /\ Hazard("failure")
    /\ Broken(Head(writes)) /\ Resume(Head(writes).by, FALSE)
    /\ writes' = Tail(writes)
    /\ UNCHANGED <<live, control, aborted, active, mine, asked, used>>

-----------------------------------------------------------------------------
(* The page: it opens and closes with the route, and the user submits and  *)
(* deletes.                                                                *)

LiveWork ==
    /\ live
    /\ \/ control # [c \in Convs |-> None] \/ active # {} \/ draining
       \/ \E c \in Convs : list[c] # None /\ \E k \in DOMAIN list[c].turns : Unfinished(list[c].turns[k])

\* The runtime is taken up again; the ref of the new mount starts with its conversations.
Open ==
    LET m == page.opened + 1 IN
    /\ Waits /\ page.mount = 0 /\ m \in Mounts /\ mine
    /\ page' = [mount |-> m, due |-> TRUE, opened |-> m]
    /\ ref' = [ref EXCEPT ![m] = list]
    /\ live' = TRUE
    /\ load' = IF list = NoItems THEN [pc |-> "reading", items |-> NoItems] ELSE [pc |-> "off", items |-> NoItems]
    /\ UNCHANGED <<list, draining, control, aborted, active, loop, worker, disk, writes, mine, asked, used, happened>>

\* loadHistory, when the runtime has no conversations: unfinished turns are failed and saved,
\* unless the runtime has come to work meanwhile.
LoadHistory ==
    LET items == IF LiveWork THEN Visible ELSE Recovered(Visible) IN
    /\ Waits /\ load.pc = "reading"
    /\ IF items = Visible
       THEN /\ Show(page.mount, items)
            /\ load' = [pc |-> "off", items |-> NoItems]
            /\ UNCHANGED writes
       ELSE /\ load' = [pc |-> "saving", items |-> items]
            /\ writes' = Append(writes, [op |-> "all", conv |-> None, items |-> items,
                                         by |-> [kind |-> "load", m |-> page.mount]])
            /\ UNCHANGED memory
    /\ UNCHANGED <<runtime, active, loop, worker, disk, mine, asked, used, happened>>

\* The page is left; its runtime, its requests and its closures go on.
Leave ==
    /\ Waits /\ page.mount # 0 /\ Hazard("leave")
    /\ page' = [page EXCEPT !.mount = 0, !.due = FALSE]
    /\ load' = [pc |-> "off", items |-> NoItems]
    /\ UNCHANGED <<list, ref, runtime, active, loop, worker, disk, writes, mine, asked, used>>

\* The composer and the button that clears do not wait for the history to be read.
Settled == load.pc = "off" /\ UNCHANGED happened
Hasty == load.pc # "off" /\ Hazard("hasty")

\* handleSubmit: a turn is added to the selected conversation, or to a new one.
Submit(c) ==
    LET t == used.turns + 1
        turn == [id |-> t, status |-> "queued", img |-> [i \in Count(t) |-> "loading"]]
        conv == IF list[c] = None THEN [ver |-> 1, turns |-> <<turn>>]
                ELSE [ver |-> list[c].ver + 1, turns |-> Append(list[c].turns, turn)]
    IN
    /\ Waits /\ page.mount # 0 /\ (Settled \/ Hasty) /\ t \in Turns /\ Events < MaxEvents
    /\ \/ list[c] # None /\ used' = [used EXCEPT !.turns = t]
       \/ /\ c = used.convs + 1 /\ Cardinality({x \in Convs : list[x] # None}) < MaxListed
          /\ used' = [convs |-> c, turns |-> t]
    /\ Put(page.mount, c, conv)
    /\ writes' = Save(c, conv, [kind |-> "submit", m |-> page.mount])
    /\ UNCHANGED <<load, runtime, active, loop, worker, disk, mine, asked>>

\* handleDeleteConversation: the request is aborted and the conversation hidden before it is deleted.
Delete(c) ==
    /\ Waits /\ page.mount # 0 /\ load.pc = "off" /\ list[c] # None /\ Hazard("delete")
    /\ aborted' = aborted \cup ({control[c]} \ {None})
    /\ control' = [control EXCEPT ![c] = None]
    /\ Put(page.mount, c, None)
    /\ writes' = Append(writes, [op |-> "delete", conv |-> c, items |-> NoItems,
                                 by |-> [kind |-> "delete", m |-> page.mount, conv |-> c, before |-> list[c]]])
    /\ UNCHANGED <<load, live, draining, active, loop, worker, disk, mine, asked, used>>

Clear ==
    /\ Waits /\ page.mount # 0 /\ load.pc = "off" /\ list # NoItems /\ Hazard("clear")
    /\ aborted' = aborted \cup Held /\ control' = [c \in Convs |-> None]
    /\ Show(page.mount, NoItems)
    /\ writes' = Append(writes, [op |-> "clear", conv |-> None, items |-> NoItems,
                                 by |-> [kind |-> "clear", m |-> page.mount, before |-> list]])
    /\ UNCHANGED <<load, live, draining, active, loop, worker, disk, mine, asked, used>>

-----------------------------------------------------------------------------
(* The session. *)

\* Another tab signs out, or signs somebody else in.
SignOut ==
    /\ Waits /\ mine /\ Hazard("signout")
    /\ mine' = FALSE
    /\ UNCHANGED <<memory, load, runtime, active, loop, worker, disk, writes, asked, used>>

\* The broadcast of that, the focus or the visibility of this tab.
Notice ==
    /\ Waits /\ ~mine /\ live
    /\ Deactivate
    /\ UNCHANGED <<memory, load, active, loop, worker, disk, writes, mine, asked, used, happened>>

\* handleLogout of this tab, up to the route to the login page.
LogOut ==
    /\ Waits /\ mine /\ Hazard("logout")
    /\ Deactivate /\ mine' = FALSE
    /\ page' = [page EXCEPT !.mount = 0, !.due = FALSE]
    /\ load' = [pc |-> "off", items |-> NoItems]
    /\ UNCHANGED <<list, ref, active, loop, worker, disk, writes, asked, used>>

\* The same key signs in again, which an administrator's does; no check of the owner, which has
\* three seconds, still waits then.
SignIn ==
    /\ Waits /\ ~mine
    /\ \A l \in Loops : loop[l].pc \notin {"enter", "started", "final", "failing"}
    /\ mine' = TRUE
    /\ UNCHANGED <<memory, load, runtime, active, loop, worker, disk, writes, asked, used, happened>>

\* The tab is reloaded or crashes, perhaps within a deletion: only what is stored remains.
Reload ==
    /\ Waits /\ Hazard("reload")
    /\ list' = NoItems /\ ref' = [m \in Mounts |-> NoItems]
    /\ page' = [page EXCEPT !.mount = 0, !.due = FALSE]
    /\ load' = [pc |-> "off", items |-> NoItems]
    /\ live' = TRUE /\ draining' = FALSE /\ active' = {}
    /\ control' = [c \in Convs |-> None] /\ aborted' = {}
    /\ loop' = [l \in Loops |-> Off]
    /\ worker' = [l \in Loops |-> [w \in Workers |-> Resting]]
    /\ writes' = <<>>
    /\ IF writes = <<>> THEN UNCHANGED disk ELSE Broken(Head(writes))
    /\ UNCHANGED <<mine, asked, used>>

-----------------------------------------------------------------------------
LoopStep(l) ==
    \/ LoopEnter(l) \/ LoopTurnedAway(l) \/ LoopBatch(l) \/ LoopDisowned(l)
    \/ LoopJoin(l) \/ LoopFinal(l) \/ LoopFail(l) \/ LoopQuota(l)
WorkerStep(l, w) ==
    \/ WorkerTake(l, w) \/ WorkerStop(l, w) \/ WorkerAnswered(l, w) \/ WorkerPut(l, w)
    \/ WorkerLate(l, w) \/ WorkerSave(l, w) \/ WorkerChainBroken(l, w)

Continue == \E l \in Loops : LoopPick(l) \/ LoopEnd(l)

Progress ==
    \/ \E l \in Loops : LoopStep(l) \/ \E w \in Workers : WorkerStep(l, w)
    \/ WriteDone \/ DrainEffect \/ LoadHistory
User ==
    \/ Open \/ Leave \/ LogOut \/ SignIn
    \/ \E c \in Convs : Delete(c) \/ Submit(c)
    \/ Clear
Next == Continue \/ Progress \/ User \/ WriteFailed \/ SignOut \/ Notice \/ Reload

Spec == Init /\ [][Next]_vars

\* The event loop does not rest while a continuation is due; requests and the store answer in the end.
BusySpec == Spec /\ WF_vars(Continue \/ Progress)

\* Every continuation runs in the end, and the user who leaves the page comes back to it.
FairSpec ==
    /\ Spec
    /\ WF_vars(Continue)
    /\ \A l \in Loops :
         /\ WF_vars(LoopStep(l))
         /\ \A w \in Workers : WF_vars(WorkerStep(l, w))
    /\ WF_vars(WriteDone) /\ WF_vars(DrainEffect)
    /\ WF_vars(LoadHistory) /\ WF_vars(Open)

-----------------------------------------------------------------------------
Conversation == [ver : Nat, turns : Seq(Turn)]
ASSUME NoneIsNoConversation == None \notin Conversation
LoopPcs == {"off", "pick", "enter", "starting", "started", "batch", "final", "finishing",
            "failing", "failed", "quota", "ended"}

TypeOK ==
    /\ \A c \in Convs : list[c] \in Conversation \cup {None} /\ stored[c] \in Conversation \cup {None}
    /\ ref \in [Mounts -> [Convs -> Conversation \cup {None}]]
    /\ page \in [mount : 0 .. MaxMounts, due : BOOLEAN, opened : 0 .. MaxMounts]
    /\ load.pc \in {"off", "reading", "saving"}
    /\ live \in BOOLEAN /\ draining \in BOOLEAN /\ mine \in BOOLEAN
    /\ active \subseteq Convs /\ gone \subseteq Convs /\ aborted \subseteq Loops
    /\ control \in [Convs -> Loops \cup {None}]
    /\ \A l \in Loops : loop[l].pc \in LoopPcs
    /\ asked \in [Turns -> [Images -> Nat]]
    /\ used \in [convs : 0 .. MaxConvs, turns : 0 .. MaxTurns] /\ happened \subseteq Hazards

\* A page that is left and opened again before a deletion is written reads what is being deleted.
ReadBeforeDeletion == happened \cap {"leave", "logout"} # {} /\ happened \cap {"delete", "clear"} # {}

\* The user waits for the history and does not both leave the page and delete; and signs out nowhere.
Patient == "hasty" \notin happened /\ ~ReadBeforeDeletion
Lasting == happened \cap {"signout", "logout"} = {}
OneSession == Patient /\ Lasting

\* Every image costs coins when it is requested: in one session no image of a turn is requested twice,
\* whatever loop, mount or reload comes upon the turn again.  A loop that outlives its session may find an
\* older turn still queued in its ref, and request it again.
AskedOnce == \A t \in Turns, i \in Images : asked[t][i] <= 1
RequestedOnce == OneSession => AskedOnce

\* Two loops, as there are after a session has come back, never run the same conversation.
Running(l) == loop[l].pc \notin {"off", "pick", "enter"}
OneRunEach == \A k, l \in Loops : k # l /\ Running(k) /\ Running(l) => loop[k].conv # loop[l].conv

\* A conversation that was deleted stays deleted, in memory and in the store: no save that was
\* on its way, no late image and no recovery brings it back, and a deletion that a crash cut in
\* two shows in the history of the next load.
DeletedStayGone ==
    \A c \in gone :
        /\ happened \cap {"reload", "failure"} = {} => stored[c] = None
        /\ happened \cap {"failure", "hasty"} = {} /\ ~ReadBeforeDeletion => list[c] = None

\* What is shown when nothing is under way is what a reload would show, unless a save failed or
\* a run was aborted by the end of its session.
Quiet == writes = <<>> /\ load.pc = "off" /\ \A l \in Loops : loop[l].pc = "off"
ShownIsStored ==
    Quiet /\ happened \cap {"hasty", "failure", "signout", "logout"} = {} /\ ~ReadBeforeDeletion =>
        \A c \in Convs : list[c] # None => stored[c] = list[c]

\* No late answer overwrites a result or a cancellation: in one session a turn that is over stays over, and
\* an image that is no longer loading stays as it is.
TurnsStayOver ==
    \A c \in Convs : list[c] # None /\ list'[c] # None =>
      \A k \in DOMAIN list[c].turns :
        LET turn == list[c].turns[k] IN
        /\ Has(list'[c], turn.id)
        /\ Unfinished(TurnOf(list'[c], turn.id)) => Unfinished(turn)
        /\ \A i \in DOMAIN turn.img : turn.img[i] # "loading" => TurnOf(list'[c], turn.id).img[i] = turn.img[i]
OverStaysOver == [][OneSession => TurnsStayOver]_vars

\* What is stored is not lost: a stored conversation keeps its turns and its finished images until the user
\* deletes it, in however many sessions, for a user who waits for the history and does not both leave the
\* page and delete.  (A page that is left while a deletion is written shows what is being deleted when it is
\* opened again, and a deletion that then fails brings an older copy back.)
StoreKeeps ==
    \A c \in Convs : stored[c] # None /\ c \notin gone' =>
      /\ stored'[c] # None
      /\ \A k \in DOMAIN stored[c].turns :
           LET turn == stored[c].turns[k] IN
           /\ Has(stored'[c], turn.id)
           /\ \A i \in DOMAIN turn.img : turn.img[i] # "loading" => TurnOf(stored'[c], turn.id).img[i] = turn.img[i]
StoredIsKept == [][Patient => StoreKeeps]_vars

\* A turn that is queued is run to its end, or deleted, as long as the page stays open, the
\* session lasts and the store works.
Undisturbed == happened \cap {"leave", "hasty", "signout", "logout", "failure", "reload"} = {}
Waiting(t) == \E c \in Convs : Has(list[c], t) /\ Unfinished(TurnOf(list[c], t))
Ended(t) == \E c \in Convs : Has(list[c], t) /\ ~Unfinished(TurnOf(list[c], t))
Removed(t) == happened \cap {"delete", "clear"} # {} /\ ~\E c \in Convs : Has(list[c], t)
QueuedTurnsEnd == \A t \in Turns : Waiting(t) ~> (Ended(t) \/ Removed(t) \/ ~Undisturbed)

\* ... and while the user looks at other pages and comes back.
KeptAlive == happened \subseteq {"leave", "delete", "clear"}
UnmountsKeepTurnsAlive == \A t \in Turns : Waiting(t) ~> (Ended(t) \/ Removed(t) \/ ~KeptAlive)
=============================================================================
