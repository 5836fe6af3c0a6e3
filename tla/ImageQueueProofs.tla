-------------------------- MODULE ImageQueueProofs --------------------------
(***************************************************************************)
(* Proofs about what the image queue keeps, for any number of              *)
(* conversations, turns, images, workers, loops and mounts.  The           *)
(* invariants rest on those of ImageProofs and on one another:             *)
(*                                                                         *)
(*   DeletionsInv, StoreForgets  what was deleted does not come back       *)
(*   SteadyInv  what is shown is stored, or on its way to the store        *)
(*   OnceInv    what is queued where a loop reads was not requested        *)
(*   SoundInv   a conversation has each id of a turn once, handed out      *)
(*   RecoveryInv what a load recovers is what its saves write              *)
(*   FollowInv  what is written later has what was written before          *)
(*   QueuedInv  what is queued where a loop reads is unfinished            *)
(***************************************************************************)
EXTENDS ImageProofs

-----------------------------------------------------------------------------
(* As long as no write fails, what was deleted is not in memory, and what  *)
(* is cleared was not written before.                                      *)

Orderly == Patient /\ "failure" \notin happened
GoneIsAway == \A c \in gone : list[c] = None /\ (load.pc # "off" => load.items[c] = None)
DeletedIsHidden == \A x \in InQueue : x.op = "delete" => list[x.conv] = None
ClearIsFirst(k) ==
    writes[k].op = "clear" =>
      \A c \in Convs : list[c] # None =>
        stored[c] = None /\ \A j \in 1 .. k - 1 : writes[j].items[c] = None
ClearsAreFirst == \A k \in DOMAIN writes : ClearIsFirst(k)
DeletionsInv == Orderly => GoneIsAway /\ DeletedIsHidden /\ ClearsAreFirst

\* Who deletes in order after a step did so before it.
LEMMA OrderlyBefore ==
  ASSUME Grows, Orderly'
  PROVE  Orderly
  BY PatientBefore DEF Grows, Orderly

\* Nothing is listed that was not, or what is listed is new: the deletions are as they were.
NothingComes == \A c \in Convs : list'[c] # None => list[c] # None

\* A step that lists only what is not deleted keeps deleted conversations away.
LEMMA DeletionsStay ==
  ASSUME TypeInv, TypeInv', GoneIsAway, DeletedIsHidden, ClearsAreFirst, UNCHANGED disk,
         \A c \in Convs : list'[c] # None =>
            \/ list[c] # None
            \/ c \notin gone /\ stored[c] = None /\ \A x \in InQueue : x.items[c] = None /\ (x.op = "delete" => x.conv # c),
         UNCHANGED load \/ load'.pc = "off" \/ load'.items = NoItems,
         UNCHANGED writes \/ \E x \in Writes : /\ writes' = Append(writes, x)
                                               /\ x.op = "clear" => list' = NoItems
                                               /\ x.op = "delete" => list'[x.conv] = None
  PROVE  GoneIsAway' /\ DeletedIsHidden' /\ ClearsAreFirst'
PROOF
  <1>1. GoneIsAway'
    BY DEF GoneIsAway, disk, NoItems, TypeInv, DiskT
  <1>2. \A x \in InQueue : x.op = "delete" => list'[x.conv] = None
    <2> SUFFICES ASSUME NEW x \in InQueue, x.op = "delete" PROVE list'[x.conv] = None
      OBVIOUS
    <2>1. x.conv \in Convs
      BY WriteIs DEF InQueue, TypeInv, PendingT
    <2> QED
      BY <2>1 DEF DeletedIsHidden
  <1>3. ASSUME NEW k \in DOMAIN writes, writes[k].op = "clear", NEW c \in Convs, list'[c] # None
        PROVE  stored'[c] = None /\ \A j \in 1 .. k - 1 : writes[j].items[c] = None
    <2>1. DOMAIN writes = 1 .. Len(writes) /\ Len(writes) \in Nat
      BY DEF TypeInv, PendingT
    <2>2. \A j \in 1 .. k - 1 : writes[j] \in InQueue
      BY <2>1 DEF InQueue
    <2>3. CASE list[c] # None
      BY <1>3, <2>3 DEF ClearsAreFirst, ClearIsFirst, disk
    <2>4. CASE stored[c] = None /\ \A x \in InQueue : x.items[c] = None
      BY <2>2, <2>4 DEF disk
    <2> QED
      BY <1>3, <2>3, <2>4
  <1>4. CASE UNCHANGED writes
    <2>1. ClearsAreFirst'
      BY <1>3, <1>4 DEF ClearsAreFirst, ClearIsFirst
    <2> QED
      BY <1>1, <1>2, <1>4, <2>1 DEF DeletedIsHidden, InQueue
  <1>5. ASSUME NEW x \in Writes, writes' = Append(writes, x), x.op = "clear" => list' = NoItems,
               x.op = "delete" => list'[x.conv] = None
        PROVE  DeletedIsHidden' /\ ClearsAreFirst'
    <2>1. /\ InQueue' = InQueue \cup {x}
          /\ DOMAIN writes = 1 .. Len(writes) /\ DOMAIN writes' = 1 .. Len(writes) + 1 /\ Len(writes) \in Nat
          /\ \A k \in DOMAIN writes : writes'[k] = writes[k]
          /\ writes'[Len(writes) + 1] = x
      BY <1>5, QueueGrows DEF TypeInv
    <2>2. DeletedIsHidden'
      BY <1>2, <1>5, <2>1 DEF DeletedIsHidden
    <2>3. ASSUME NEW k \in DOMAIN writes' PROVE ClearIsFirst(k)'
      <3>1. CASE k = Len(writes) + 1
        BY <1>5, <2>1, <3>1 DEF ClearIsFirst, NoItems
      <3>2. CASE k # Len(writes) + 1
        <4>1. k \in DOMAIN writes /\ writes'[k] = writes[k] /\ \A j \in 1 .. k - 1 : writes'[j] = writes[j]
          BY <2>1, <3>2
        <4> QED
          BY <1>3, <4>1 DEF ClearIsFirst
      <3> QED
        BY <3>1, <3>2
    <2> QED
      BY <2>2, <2>3 DEF ClearsAreFirst
  <1> QED
    BY <1>1, <1>4, <1>5

\* A step of a run brings nothing back that was deleted.
LEMMA RunKeepsDeletions ==
  ASSUME TypeInv, TypeInv', DeletionsInv, NEW l \in Loops, RunStep(l)
  PROVE  DeletionsInv'
PROOF
  <1> DEFINE c == loop[l].conv
  <1> SUFFICES ASSUME Orderly' PROVE GoneIsAway' /\ DeletedIsHidden' /\ ClearsAreFirst'
    BY DEF DeletionsInv
  <1>1. UNCHANGED Elsewhere /\ RunLeaves(l) /\ Grows
    BY RunStepLeaves, UsedAre DEF Elsewhere, Grows
  <1>2. UNCHANGED <<load, disk>> /\ GoneIsAway /\ DeletedIsHidden /\ ClearsAreFirst
    BY <1>1, OrderlyBefore DEF Elsewhere, DeletionsInv
  <1>3. NothingComes
    <2>1. UNCHANGED list \/ (c \in Convs /\ list[c] # None /\ list' = [list EXCEPT ![c] = list'[c]])
      BY <1>1, NoneIsNoConversation DEF RunLeaves, EditOf
    <2> QED
      BY <2>1 DEF TypeInv, MemoryT, ItemsT, NothingComes
  <1>4. UNCHANGED writes \/ \E x \in Writes : writes' = Append(writes, x) /\ x.op = "save"
    BY <1>1 DEF RunLeaves, SaveBy
  <1> QED
    BY <1>2, <1>3, <1>4, DeletionsStay DEF NothingComes

\* Neither does a step of the page or its user.
LEMMA PageKeepsDeletions ==
  ASSUME TypeInv, TypeInv', DeletionsInv, KnownInv,
         SitsStill \/ GoesAway \/ Open \/ Clear \/ \E c \in Convs : Submit(c) \/ Delete(c)
  PROVE  DeletionsInv'
PROOF
  <1> SUFFICES ASSUME Orderly' PROVE GoneIsAway' /\ DeletedIsHidden' /\ ClearsAreFirst'
    BY DEF DeletionsInv
  <1>1. CASE SitsStill
    <2>1. Unmoved /\ Grows
      BY <1>1, SitsStillIs DEF Unmoved
    <2> QED
      BY <2>1, OrderlyBefore, DeletionsStay DEF DeletionsInv, Unmoved, Unshown
  <1>2. CASE GoesAway
    <2>1. LeavesPage /\ Grows
      BY <1>2, GoesAwayIs DEF LeavesPage
    <2> QED
      BY <2>1, OrderlyBefore, DeletionsStay DEF DeletionsInv, LeavesPage
  <1>3. CASE Open
    <2>1. Grows /\ load'.items = NoItems /\ UNCHANGED <<list, disk, writes>>
      BY <1>3, UsedAre DEF Open, Grows
    <2> QED
      BY <2>1, OrderlyBefore, DeletionsStay DEF DeletionsInv
  <1>4. ASSUME NEW c \in Convs, Submit(c) PROVE GoneIsAway' /\ DeletedIsHidden' /\ ClearsAreFirst'
    <2>1. PICK x \in Writes : SubmitDoes(c, x)
      BY <1>4, SubmitSaves
    <2>2. list' = [list EXCEPT ![c] = WithTurn(c)] /\ Grows /\ UNCHANGED <<load, disk>>
          /\ writes' = Append(writes, x) /\ x.op = "save" /\ (list[c] # None \/ c = used.convs + 1)
      BY <2>1 DEF SubmitDoes, Shown
    <2>3. ASSUME c = used.convs + 1
          PROVE  c \notin gone /\ stored[c] = None /\ \A y \in InQueue : y.items[c] = None /\ (y.op = "delete" => y.conv # c)
      <3>1. ~(c <= used.convs)
        BY <2>3, UsedAre
      <3> QED
        BY <3>1 DEF KnownInv, KnownStored, KnownInQueue, WriteKnown, KnownTo
    <2>4. \A d \in Convs : list'[d] # None =>
             \/ list[d] # None
             \/ d \notin gone /\ stored[d] = None /\ \A y \in InQueue : y.items[d] = None /\ (y.op = "delete" => y.conv # d)
      BY <2>2, <2>3 DEF TypeInv, MemoryT, ItemsT
    <2> QED
      BY <2>2, <2>4, OrderlyBefore, DeletionsStay DEF DeletionsInv
  <1>5. ASSUME NEW c \in Convs, Delete(c) PROVE GoneIsAway' /\ DeletedIsHidden' /\ ClearsAreFirst'
    <2>1. PICK x \in Writes : DeleteDoes(c, x)
      BY <1>5, DeleteSaves
    <2>2. list' = [list EXCEPT ![c] = None] /\ list'[c] = None /\ Grows /\ UNCHANGED <<load, disk>>
          /\ writes' = Append(writes, x) /\ x.op = "delete" /\ x.conv = c
      BY <2>1 DEF DeleteDoes, Shown
    <2>3. NothingComes
      BY <2>2 DEF NothingComes, TypeInv, MemoryT, ItemsT
    <2> QED
      BY <2>2, <2>3, OrderlyBefore, DeletionsStay DEF DeletionsInv, NothingComes
  <1>6. CASE Clear
    <2>1. PICK x \in Writes : ClearDoes(x)
      BY <1>6, ClearSaves
    <2>2. list' = NoItems /\ Grows /\ UNCHANGED <<load, disk>> /\ writes' = Append(writes, x) /\ x.op = "clear"
      BY <2>1 DEF ClearDoes, Shown
    <2>3. NothingComes
      BY <2>2 DEF NothingComes, NoItems
    <2> QED
      BY <2>2, <2>3, OrderlyBefore, DeletionsStay DEF DeletionsInv, NothingComes
  <1> QED
    BY <1>1, <1>2, <1>3, <1>4, <1>5, <1>6

\* While the history is read or saved nothing is being deleted.
NoDeletions == \A x \in InQueue : x.op \notin {"delete", "clear"}

\* Nothing is deleted while the history of an orderly user is read.
LEMMA ReadInPeace ==
  ASSUME HistoryInv, Orderly, load.pc # "off"
  PROVE  NoDeletions
  BY DEF HistoryInv, Orderly, DeletesOnScreen, NoDeletions

\* Without deletions there is nothing to hide.
LEMMA PeaceIsEnough ==
  ASSUME TypeInv, NoDeletions
  PROVE  DeletedIsHidden /\ ClearsAreFirst
  BY DEF NoDeletions, DeletedIsHidden, ClearsAreFirst, ClearIsFirst, InQueue

\* LoadHistory brings nothing back that was deleted.
LEMMA LoadHistoryKeepsDeletions ==
  ASSUME TypeInv, TypeInv', HistoryInv, DeletionsInv, LoadHistory
  PROVE  DeletionsInv'
PROOF
  <1> SUFFICES ASSUME Orderly' PROVE GoneIsAway' /\ DeletedIsHidden' /\ ClearsAreFirst'
    BY DEF DeletionsInv
  <1>1. load.pc = "reading" /\ UNCHANGED <<disk, used, happened>> /\ Grows
    BY LoadHistoryIs, UsedAre DEF Grows
  <1>2. NoDeletions /\ GoneIsAway
    BY <1>1, OrderlyBefore, ReadInPeace DEF DeletionsInv
  <1>3. \A c \in gone : c \in Convs /\ Visible[c] = None /\ History[c] = None
    BY DEF TypeInv, DiskT, Visible, History, Recovered, Over
  <1>4. CASE HistoryShown
    <2>1. GoneIsAway'
      BY <1>1, <1>3, <1>4 DEF HistoryShown, Shown, GoneIsAway, disk
    <2>2. NoDeletions'
      BY <1>2, <1>4 DEF HistoryShown, NoDeletions, InQueue
    <2> QED
      BY <2>1, <2>2, PeaceIsEnough, PTL
  <1>5. ASSUME NEW x \in Writes, HistorySaved(x) PROVE GoneIsAway' /\ DeletedIsHidden' /\ ClearsAreFirst'
    <2>1. GoneIsAway'
      BY <1>1, <1>2, <1>3, <1>5 DEF HistorySaved, GoneIsAway, disk, memory
    <2>2. InQueue' = InQueue \cup {x} /\ x.op = "all"
      BY <1>5, QueueGrows DEF HistorySaved, TypeInv
    <2>3. NoDeletions'
      BY <1>2, <2>2 DEF NoDeletions
    <2> QED
      BY <2>1, <2>3, PeaceIsEnough, PTL
  <1> QED
    BY <1>4, <1>5, HistoryComes

\* The write that is over leaves the clears that follow it the first.
LEMMA ClearsStayFirst ==
  ASSUME TypeInv, ClearsAreFirst, UNCHANGED list, writes # <<>>, writes' = Tail(writes), Ok(Head(writes))
  PROVE  ClearsAreFirst'
PROOF
  <1> DEFINE x == Head(writes)
  <1>1. /\ x \in Writes /\ x = writes[1] /\ 1 \in DOMAIN writes
        /\ \A k \in DOMAIN writes' : k \in Nat /\ k + 1 \in DOMAIN writes /\ k + 1 > 1 /\ writes'[k] = writes[k + 1]
    BY HeadIs, QueueShrinks DEF TypeInv
  <1>2. DOMAIN writes' = 1 .. Len(writes) - 1 /\ Len(writes) \in Nat
    BY DEF TypeInv, PendingT
  <1>3. x.op \in {"save", "all", "delete", "clear"} /\ (x.op = "delete" => x.conv \in Convs)
    BY <1>1, WriteIs
  <1> SUFFICES ASSUME NEW k \in DOMAIN writes', writes'[k].op = "clear", NEW c \in Convs, list'[c] # None
               PROVE  stored'[c] = None /\ \A j \in 1 .. k - 1 : writes'[j].items[c] = None
    BY DEF ClearsAreFirst, ClearIsFirst
  <1>4. stored[c] = None /\ \A j \in 1 .. (k + 1) - 1 : writes[j].items[c] = None
    BY <1>1 DEF ClearsAreFirst, ClearIsFirst
  <1>5. x.items[c] = None
    <2>1. 1 \in 1 .. (k + 1) - 1
      BY <1>1
    <2> QED
      BY <1>1, <1>4, <2>1
  <1> HIDE DEF x
  <1>6. stored'[c] = None
    BY <1>3, <1>4, <1>5 DEF Ok, Merged, NoItems, x, TypeInv, DiskT, ItemsT
  <1>7. ASSUME NEW j \in 1 .. k - 1 PROVE writes'[j].items[c] = None
    <2>1. j \in DOMAIN writes' /\ j + 1 \in 1 .. (k + 1) - 1
      BY <1>1, <1>2
    <2> QED
      BY <1>1, <1>4, <2>1
  <1> QED
    BY <1>6, <1>7

\* Neither does a write that is over, in the order of the queue.
LEMMA WriteOverKeepsDeletions ==
  ASSUME TypeInv, TypeInv', MountsInv, HistoryInv, DeletionsInv, WriteDone \/ WriteFailed
  PROVE  DeletionsInv'
PROOF
  <1> SUFFICES ASSUME Orderly' PROVE GoneIsAway' /\ DeletedIsHidden' /\ ClearsAreFirst'
    BY DEF DeletionsInv
  <1> DEFINE x == Head(writes)
             b == x.by
  <1>1. PICK ok \in BOOLEAN : WriteEnds(ok)
    BY WriteEndsIs
  <1>2. ok /\ writes # <<>> /\ writes' = Tail(writes) /\ Grows /\ Resume(b, ok) /\ Ok(x)
    BY <1>1 DEF WriteEnds, Orderly
  <1>3. x \in Writes /\ b \in Bys /\ Awaited(b)
    BY <1>2, HeadIs DEF TypeInv
  <1>4. Brought(b, ok)
    BY <1>2, <1>3, ResumeBrings
  <1>5. InQueue' \subseteq InQueue /\ x \in InQueue /\ x = writes[1] /\ 1 \in DOMAIN writes
    BY <1>2, QueueShrinks DEF TypeInv
  <1>6. Orderly /\ GoneIsAway /\ DeletedIsHidden /\ ClearsAreFirst /\ WriteKind(x)
    BY <1>2, <1>5, OrderlyBefore DEF MountsInv, KindsInv, DeletionsInv
  <1> HIDE DEF x
  <1>7. CASE ForScreen(b)
    <2>1. load.pc = "saving"
      BY <1>5, <1>7 DEF MountsInv, OnceRead, ForScreen, LoadOf
    <2>2. NoDeletions
      BY <1>6, <2>1, ReadInPeace
    <2>3. NoDeletions'
      BY <1>5, <2>2 DEF NoDeletions
    <2>4. load'.pc = "off" /\ list' = load.items
      BY <1>2, <1>4, <1>7 DEF Brought, Shown
    <2>5. gone' = gone
      BY <1>2, <1>3, <1>5, <2>2, WriteIs DEF Ok, NoDeletions
    <2>6. GoneIsAway'
      BY <1>6, <2>1, <2>4, <2>5 DEF GoneIsAway
    <2> QED
      BY <2>3, <2>6, PeaceIsEnough, PTL
  <1>8. CASE ~ForScreen(b)
    <2>1. UNCHANGED <<list, load>>
      BY <1>2, <1>3, <1>4, <1>8, ByIs DEF Brought, Unshown
    <2>2. DeletedIsHidden'
      BY <1>5, <1>6, <2>1 DEF DeletedIsHidden
    <2>3. ClearsAreFirst'
      BY <1>2, <1>6, <2>1, ClearsStayFirst DEF x
    <2>4. GoneIsAway'
      <3>1. CASE x.op \in {"save", "all"}
        BY <1>2, <1>6, <2>1, <3>1 DEF Ok, GoneIsAway
      <3>2. CASE x.op \in {"delete", "clear"}
        <4>1. load.pc = "off"
          BY <1>5, <1>6, <3>2, ReadInPeace DEF NoDeletions
        <4>2. \A c \in gone' : list[c] = None
          <5>1. CASE x.op = "delete"
            BY <1>2, <1>5, <1>6, <5>1 DEF Ok, GoneIsAway, DeletedIsHidden
          <5>2. CASE x.op = "clear"
            BY <1>2, <1>5, <1>6, <5>2 DEF Ok, GoneIsAway, ClearsAreFirst, ClearIsFirst
          <5> QED
            BY <3>2, <5>1, <5>2
        <4> QED
          BY <2>1, <4>1, <4>2 DEF GoneIsAway
      <3> QED
        BY <1>3, <3>1, <3>2, WriteIs
    <2> QED
      BY <2>2, <2>3, <2>4
  <1> QED
    BY <1>7, <1>8

\* Nothing is on its way in a document that was just loaded.
LEMMA LoadedDeletions ==
  ASSUME gone \subseteq Convs
  PROVE  Loaded => DeletionsInv
PROOF
  <1> SUFFICES ASSUME Loaded PROVE DeletionsInv
    OBVIOUS
  <1>1. list = NoItems /\ load.pc = "off" /\ DOMAIN writes = {}
    BY DEF Loaded
  <1> QED
    BY <1>1 DEF DeletionsInv, GoneIsAway, DeletedIsHidden, ClearsAreFirst, InQueue, NoItems

\* Every step keeps deleted conversations away.
LEMMA StepKeepsDeletions ==
  TypeInv /\ TypeInv' /\ MountsInv /\ HistoryInv /\ KnownInv /\ DeletionsInv /\ [Next]_vars => DeletionsInv'
PROOF
  <1> SUFFICES ASSUME TypeInv, TypeInv', MountsInv, HistoryInv, KnownInv, DeletionsInv, [Next]_vars PROVE DeletionsInv'
    OBVIOUS
  <1>1. CASE SitsStill \/ GoesAway \/ Open \/ Clear \/ \E c \in Convs : Submit(c) \/ Delete(c)
    BY <1>1, PageKeepsDeletions
  <1>2. ASSUME NEW l \in Loops, RunStep(l) PROVE DeletionsInv'
    BY <1>2, RunKeepsDeletions
  <1>3. CASE Reload
    <2>1. Loaded' /\ gone' \subseteq Convs
      BY <1>3, ReloadLoads DEF TypeInv, DiskT
    <2>2. list' = NoItems /\ load'.pc = "off" /\ DOMAIN writes' = {}
      BY <2>1 DEF Loaded
    <2> QED
      BY <2>1, <2>2 DEF DeletionsInv, GoneIsAway, DeletedIsHidden, ClearsAreFirst, InQueue, NoItems
  <1> QED
    BY <1>1, <1>2, <1>3, StepCases, LoadHistoryKeepsDeletions, WriteOverKeepsDeletions

\* What the store says of what was deleted, unless a write was cut in two.
StoreForgets == happened \cap {"reload", "failure"} = {} => \A c \in gone : stored[c] = None

\* A conversation that the store has forgotten stays so.
LEMMA StepForgets == TypeInv /\ StoreForgets /\ [Next]_vars => StoreForgets'
PROOF
  <1> SUFFICES ASSUME TypeInv, StoreForgets, [Next]_vars PROVE StoreForgets'
    OBVIOUS
  <1>1. ASSUME UNCHANGED disk, happened \subseteq happened' PROVE StoreForgets'
    BY <1>1 DEF disk, StoreForgets
  <1>2. CASE SitsStill \/ GoesAway
    <2>1. UNCHANGED disk /\ Grows
      BY <1>2, SitsStillIs, GoesAwayIs DEF Unmoved, LeavesPage
    <2> QED
      BY <1>1, <2>1 DEF Grows
  <1>3. CASE Open \/ LoadHistory \/ Clear \/ \E c \in Convs : Submit(c) \/ Delete(c)
    <2>1. UNCHANGED disk /\ happened \subseteq happened'
      <3>1. CASE Open \/ LoadHistory
        BY <3>1, LoadHistoryIs DEF Open
      <3>2. CASE Clear
        BY <3>2 DEF Clear, Hazard
      <3>3. ASSUME NEW c \in Convs, Submit(c) PROVE UNCHANGED disk /\ happened \subseteq happened'
        BY <3>3, SubmitSaves DEF SubmitDoes, Grows
      <3>4. ASSUME NEW c \in Convs, Delete(c) PROVE UNCHANGED disk /\ happened \subseteq happened'
        BY <3>4 DEF Delete, Hazard
      <3> QED
        BY <1>3, <3>1, <3>2, <3>3, <3>4
    <2> QED
      BY <1>1, <2>1
  <1>4. ASSUME NEW l \in Loops, RunStep(l) PROVE StoreForgets'
    BY <1>1, <1>4, RunStepLeaves DEF Elsewhere
  <1>5. CASE WriteDone \/ WriteFailed
    <2>1. PICK ok \in BOOLEAN : WriteEnds(ok)
      BY <1>5, WriteEndsIs
    <2>2. CASE ~ok
      BY <2>1, <2>2 DEF WriteEnds, StoreForgets
    <2>3. CASE ok
      <3> DEFINE x == Head(writes)
      <3>1. x \in Writes /\ Ok(x) /\ happened' = happened
        BY <2>1, <2>3, HeadIs DEF WriteEnds, TypeInv
      <3>2. x.op \in {"save", "all", "delete", "clear"} /\ (x.op = "delete" => x.conv \in Convs)
        BY <3>1, WriteIs
      <3> HIDE DEF x
      <3>3. CASE x.op \in {"save", "all"}
        BY <3>1, <3>3 DEF Ok, StoreForgets, Merged, TypeInv, DiskT
      <3>4. CASE x.op = "delete"
        BY <3>1, <3>2, <3>4 DEF Ok, StoreForgets, TypeInv, DiskT, ItemsT
      <3>5. CASE x.op = "clear"
        BY <3>1, <3>5 DEF Ok, StoreForgets, NoItems, TypeInv, DiskT
      <3> QED
        BY <3>2, <3>3, <3>4, <3>5
    <2> QED
      BY <2>2, <2>3
  <1>6. CASE Reload
    BY <1>6 DEF Reload, Hazard, StoreForgets
  <1> QED
    BY <1>2, <1>3, <1>4, <1>5, <1>6, StepCases

\* What is held of the history, beside the types and the runs.
HeldInv == MountsInv /\ HistoryInv /\ KnownInv /\ DeletionsInv /\ StoreForgets

\* The invariants of the screen and the store hold initially.
LEMMA InitHolds == Init => HeldInv
PROOF
  <1> SUFFICES ASSUME Init PROVE HeldInv
    OBVIOUS
  <1>1. Loaded /\ stored = NoItems /\ gone = {} /\ InQueue = {}
    BY InitLoads DEF Init, InQueue
  <1>2. KnownInv
    BY <1>1, OffIs DEF Loaded, KnownInv, KnownTo, NoItems, KnownStored, KnownInQueue, KnownRuns, Busy
  <1> QED
    BY <1>1, <1>2, LoadedMounts, LoadedHistory, LoadedDeletions DEF HeldInv, StoreForgets

\* Every step keeps them.
LEMMA StepHolds == TypeInv /\ TypeInv' /\ HeldInv /\ [Next]_vars => HeldInv'
  BY StepKeepsMounts, StepKeepsHistory, StepKeepsKnown, StepKeepsDeletions, StepForgets DEF HeldInv

\* They hold always.
LEMMA HistoryIsHeld == Spec => [](TypeInv /\ RunsInv /\ HeldInv)
PROOF
  <1>1. Spec => [](TypeInv /\ RunsInv)
    BY RunsAreHeld
  <1>2. TypeInv /\ HeldInv /\ [Next]_vars => HeldInv'
    BY StepKeepsTypes, StepHolds
  <1> QED
    BY <1>1, <1>2, InitHolds, PTL DEF Spec

\* A conversation that was deleted stays deleted.
THEOREM DeletedIsGone == Spec => []DeletedStayGone
PROOF
  <1>1. TypeInv /\ HeldInv => DeletedStayGone
    BY DEF HeldInv, DeletedStayGone, StoreForgets, DeletionsInv, Orderly, Patient, GoneIsAway
  <1> QED
    BY <1>1, HistoryIsHeld, PTL
-----------------------------------------------------------------------------
(* What is shown and what is stored, in a session that lasts and as long   *)
(* as no write fails: a conversation in memory is in the store as it is,   *)
(* or its last version is on its way there.                                *)

Steady == Orderly /\ Lasting

InSession == live /\ mine /\ \A l \in Loops : ~loop[l].broken
AbortedAreHidden == \A l \in aborted : Running(l) /\ list[loop[l].conv] = None

LastSave(c, k) ==
    /\ k \in DOMAIN writes /\ writes[k].op \in {"save", "all"} /\ writes[k].items[c] # None
    /\ \A j \in DOMAIN writes : j > k => writes[j].items[c] = None
Untouched(c) == \A x \in InQueue : x.items[c] = None /\ x.op # "clear"
ChainedBy(c, l, w) == worker[l][w].pc = "chained" /\ loop[l].conv = c /\ worker[l][w].ver = list[c].ver
Chained(c) == \E l \in Loops, w \in Workers : ChainedBy(c, l, w)
InTheQueue(c) == \E k \in DOMAIN writes : LastSave(c, k) /\ writes[k].items[c] = list[c]
InTheStore(c) == Untouched(c) /\ stored[c] = list[c]
WillBeStored(c) == Chained(c) \/ InTheQueue(c) \/ InTheStore(c)

NotNewer(old, new) == old # None => old.ver <= new.ver
Newer(c) == NotNewer(stored[c], list[c]) /\ \A x \in InQueue : NotNewer(x.items[c], list[c])
ShownWillBeStored == \A c \in Convs : list[c] # None => Newer(c) /\ WillBeStored(c)

FreshHistory == Fresh => \A x \in InQueue : x.op = "all" /\ x.items = Recovered(Visible)
SavedHistory == load.pc = "saving" => load.items = Recovered(Visible)

SteadyParts == InSession /\ AbortedAreHidden /\ ShownWillBeStored /\ FreshHistory /\ SavedHistory
SteadyInv == Steady => SteadyParts

\* A document that is steady after a step was so before it.
LEMMA SteadyBefore ==
  ASSUME Grows, Steady'
  PROVE  Steady /\ Orderly /\ Patient /\ Orderly' /\ Patient'
  BY OrderlyBefore DEF Grows, Steady, Lasting, Orderly

\* What a run does to the session.
LEMMA RunKeepsSession ==
  ASSUME TypeInv, NEW l \in Loops, RunStep(l), mine
  PROVE  live' = live /\ aborted' \subseteq aborted /\ (LoopEnd(l) => l \notin aborted')
PROOF
  <1>1. \A a : Evict(a) => live' = live /\ aborted' = aborted
    BY DEF Evict, runtime
  <1>2. CASE LoopPick(l) \/ LoopEnter(l) \/ LoopEnd(l)
    <2>1. CASE LoopPick(l)
      BY <2>1 DEF LoopPick, LoopEnd
    <2>2. CASE LoopEnter(l)
      BY <2>2 DEF LoopEnter, LoopEnd
    <2>3. CASE LoopEnd(l)
      BY <2>3 DEF LoopEnd
    <2> QED
      BY <1>2, <2>1, <2>2, <2>3
  <1>3. ~LoopEnd(l) \/ LoopEnd(l)
    OBVIOUS
  <1>4. CASE LoopTurnedAway(l) \/ LoopBatch(l) \/ LoopDisowned(l) \/ LoopJoin(l) \/ LoopFinal(l) \/ LoopFail(l) \/ LoopQuota(l)
    <2>1. live' = live /\ aborted' = aborted
      BY <1>1, <1>4 DEF LoopTurnedAway, LoopBatch, LoopDisowned, LoopJoin, LoopFinal, LoopFail, SettleTurn, LoopQuota, runtime
    <2>2. loop[l].pc # "ended"
      BY <1>4 DEF LoopTurnedAway, LoopBatch, LoopDisowned, LoopJoin, LoopFinal, LoopFail, SettleTurn, LoopQuota
    <2> QED
      BY <2>1, <2>2 DEF LoopEnd
  <1>5. ASSUME NEW w \in Workers, WorkerStep(l, w)
        PROVE  live' = live /\ aborted' = aborted /\ ~LoopEnd(l)
    <2>1. live' = live /\ aborted' = aborted
      BY <1>1, <1>5 DEF WorkerStep, WorkerTake, WorkerStop, WorkerAnswered, WorkerPut, WorkerLate, WorkerSave, WorkerChainBroken, runtime
    <2>2. worker[l][w].pc # "done"
      BY <1>5 DEF WorkerStep, WorkerTake, WorkerStop, WorkerAnswered, WorkerPut, WorkerLate, WorkerSave, WorkerChainBroken
    <2>3. loop[l].pc = "batch"
      BY <2>2, InBatch
    <2> QED
      BY <2>1, <2>3 DEF LoopEnd
  <1> QED
    BY <1>2, <1>4, <1>5 DEF RunStep, MidRun

\* A worker leaves the chain when it saves, when the conversation was replaced, or when the chain is broken.
ChainStays(l) ==
    \A k \in Loops, w \in Workers : worker[k][w].pc = "chained" =>
      \/ worker'[k][w] = worker[k][w]
      \/ k = l /\ (Saves(l, w) \/ FindsReplaced(l, w) \/ loop[l].broken)

\* A step of a run leaves the chains of saves of other runs as they are.
LEMMA RunKeepsChain ==
  ASSUME TypeInv, NEW l \in Loops, RunStep(l)
  PROVE  ChainStays(l)
PROOF
  <1>0. Shape /\ \A k \in Loops, w \in Workers : worker[k][w].pc = "chained" => loop[k].pc = "batch"
    BY DEF TypeInv, WorkerT
  <1>1. CASE UNCHANGED worker
    BY <1>1 DEF ChainStays
  <1>2. CASE LoopBatch(l)
    <2>1. loop[l].pc = "started" /\ \A k \in Loops \ {l}, w \in Workers : worker'[k][w] = worker[k][w]
      BY <1>0, <1>2, BatchDoes DEF LoopBatch
    <2> QED
      BY <1>0, <2>1 DEF ChainStays
  <1>3. LoopPick(l) \/ LoopEnter(l) \/ LoopEnd(l) \/ LoopTurnedAway(l) \/ LoopDisowned(l) \/ LoopJoin(l)
        \/ LoopFinal(l) \/ LoopFail(l) \/ LoopQuota(l) => UNCHANGED worker
    BY DEF LoopPick, LoopEnter, LoopEnd, LoopTurnedAway, LoopDisowned, LoopJoin, LoopFinal, LoopFail, SettleTurn, LoopQuota
  <1>4. ASSUME NEW w \in Workers, WorkerStep(l, w) PROVE ChainStays(l)
    <2>1. OnlyWorker(l, w)
      BY <1>4, WorkerLeavesLoop
    <2>2. worker[l][w].pc = "chained" => Saves(l, w) \/ FindsReplaced(l, w) \/ loop[l].broken
      <3>1. CASE WorkerTake(l, w) \/ WorkerStop(l, w) \/ WorkerAnswered(l, w) \/ WorkerPut(l, w) \/ WorkerLate(l, w)
        BY <3>1 DEF WorkerTake, WorkerStop, WorkerAnswered, WorkerPut, WorkerLate
      <3>2. CASE WorkerSave(l, w)
        BY <3>2, SaveIs
      <3>3. CASE WorkerChainBroken(l, w)
        BY <3>3 DEF WorkerChainBroken
      <3> QED
        BY <1>4, <3>1, <3>2, <3>3 DEF WorkerStep
    <2> QED
      BY <2>1, <2>2 DEF OnlyWorker, ChainStays
  <1> QED
    BY <1>1, <1>2, <1>3, <1>4 DEF RunStep, MidRun

\* What a write that succeeded does to the runs.
LEMMA ResumeKeepsChain ==
  ASSUME TypeInv, NEW b \in Bys, Awaited(b), Resume(b, TRUE), \A k \in Loops : ~loop[k].broken
  PROVE  /\ \A k \in Loops, w \in Workers : worker[k][w].pc = "chained" => worker'[k][w] = worker[k][w]
         /\ \A k \in Loops : ~loop'[k].broken
PROOF
  <1>0. Shape
    BY DEF TypeInv
  <1>1. CASE b.kind = "loop"
    <2>0. /\ b.l \in Loops /\ UNCHANGED worker
          /\ \/ loop' = [loop EXCEPT ![b.l].pc = "ended", ![b.l].thrown = ~TRUE]
             \/ \E p \in {"failing", "started", "quota"} : At(b.l, p)
      BY <1>1, ByIs DEF Resume
    <2>1. OnlyLoop(b.l) /\ loop'[b.l].broken = loop[b.l].broken
      BY <1>0, <2>0, AtDoes, PcThrownDoes
    <2> QED
      BY <2>0, <2>1 DEF OnlyLoop
  <1>2. CASE b.kind = "worker"
    <2>1. b.l \in Loops /\ b.w \in Workers /\ Step(b.l, b.w, "ask") /\ UNCHANGED loop /\ worker[b.l][b.w].pc = "saving"
      BY <1>2, ByIs DEF Resume, Awaited
    <2>2. OnlyWorker(b.l, b.w)
      BY <1>0, <2>1, StepDoes
    <2> QED
      BY <2>1, <2>2 DEF OnlyWorker
  <1>3. CASE b.kind = "submit"
    <2>1. TryDrain(b.m) /\ UNCHANGED worker
      BY <1>3 DEF Resume
    <2> QED
      BY <1>0, <2>1, TryDrainBusy
  <1>4. CASE b.kind \in {"load", "delete", "clear"}
    BY <1>4 DEF Resume
  <1> QED
    BY <1>1, <1>2, <1>3, <1>4, ByIs

\* What a step keeps of the conversation c: versions only grow, and its last version stays on its way.
LEMMA NewerStays ==
  ASSUME TypeInv, TypeInv', NEW c \in Convs, list[c] # None, Newer(c), list'[c] # None, list'[c].ver >= list[c].ver,
         NotNewer(stored'[c], list[c]), \A x \in InQueue' : NotNewer(x.items[c], list'[c]) \/ x \in InQueue
  PROVE  Newer(c)'
PROOF
  <1>1. list[c].ver \in Nat /\ list'[c].ver \in Nat
    BY DEF TypeInv, MemoryT, ItemsT, Conversation
  <1>2. \A x \in Writes : x.items[c] # None => x.items[c].ver \in Nat
    BY WriteIs DEF ItemsT, Conversation
  <1>3. stored'[c] # None => stored'[c].ver \in Nat
    BY DEF TypeInv, DiskT, ItemsT, Conversation
  <1>4. InQueue \subseteq Writes
    BY DEF InQueue, TypeInv, PendingT
  <1>5. \A x \in InQueue : NotNewer(x.items[c], list'[c])
    BY <1>1, <1>2, <1>4 DEF Newer, NotNewer
  <1>6. NotNewer(stored'[c], list'[c])
    BY <1>1, <1>3 DEF NotNewer
  <1> QED
    BY <1>5, <1>6 DEF Newer

\* What is appended last with the conversation c is its last save.
LEMMA AppendedIsLast ==
  ASSUME TypeInv, NEW c \in Convs, NEW x \in Writes, writes' = Append(writes, x), x.op = "save",
         x.items[c] = list'[c], list'[c] # None
  PROVE  InTheQueue(c)'
PROOF
  <1>1. /\ DOMAIN writes' = 1 .. Len(writes) + 1 /\ Len(writes) \in Nat
        /\ writes'[Len(writes) + 1] = x
    BY QueueGrows DEF TypeInv
  <1>2. PICK k \in Nat : k = Len(writes) + 1
    BY <1>1
  <1>3. k \in DOMAIN writes' /\ writes'[k] = x /\ \A j \in DOMAIN writes' : ~(j > k)
    BY <1>1, <1>2
  <1>4. LastSave(c, k)'
    BY <1>3 DEF LastSave
  <1> QED
    BY <1>3, <1>4 DEF InTheQueue

\* What is appended without it leaves it as it is.
LEMMA OnItsWay ==
  ASSUME TypeInv, NEW c \in Convs, WillBeStored(c), list'[c] = list[c], stored'[c] = stored[c],
         UNCHANGED writes \/ \E x \in Writes : writes' = Append(writes, x) /\ x.items[c] = None /\ x.op # "clear",
         \A l \in Loops, w \in Workers : ChainedBy(c, l, w) => ChainedBy(c, l, w)'
  PROVE  WillBeStored(c)'
PROOF
  <1>1. Chained(c) => Chained(c)'
    BY DEF Chained
  <1>2. CASE UNCHANGED writes
    <2>1. InTheQueue(c) => InTheQueue(c)'
      BY <1>2 DEF InTheQueue, LastSave
    <2>2. InTheStore(c) => InTheStore(c)'
      BY <1>2 DEF InTheStore, Untouched, InQueue
    <2> QED
      BY <1>1, <2>1, <2>2 DEF WillBeStored
  <1>3. ASSUME NEW x \in Writes, writes' = Append(writes, x), x.items[c] = None, x.op # "clear"
        PROVE  WillBeStored(c)'
    <2>1. /\ InQueue' = InQueue \cup {x}
          /\ DOMAIN writes = 1 .. Len(writes) /\ DOMAIN writes' = 1 .. Len(writes) + 1 /\ Len(writes) \in Nat
          /\ \A k \in DOMAIN writes : writes'[k] = writes[k]
          /\ writes'[Len(writes) + 1] = x
      BY <1>3, QueueGrows DEF TypeInv
    <2>2. ASSUME NEW k \in DOMAIN writes, LastSave(c, k), writes[k].items[c] = list[c] PROVE InTheQueue(c)'
      <3>1. k \in DOMAIN writes' /\ writes'[k] = writes[k]
        BY <2>1
      <3>2. \A j \in DOMAIN writes' : j \in DOMAIN writes \/ writes'[j] = x
        BY <2>1
      <3>3. LastSave(c, k)'
        BY <1>3, <2>1, <2>2, <3>1, <3>2 DEF LastSave
      <3> QED
        BY <2>2, <3>1, <3>3 DEF InTheQueue
    <2>3. InTheStore(c) => InTheStore(c)'
      BY <1>3, <2>1 DEF InTheStore, Untouched
    <2> QED
      BY <1>1, <2>2, <2>3 DEF WillBeStored, InTheQueue
  <1> QED
    BY <1>2, <1>3

\* A queue that grew is another queue.
LEMMA AppendChanges ==
  ASSUME PendingT, NEW r
  PROVE  Append(writes, r) # writes
PROOF
  <1>1. PICK s \in Seq(Writes) : s = writes
    BY DEF PendingT
  <1>2. Len(Append(s, r)) = Len(s) + 1 /\ Len(s) \in Nat
    OBVIOUS
  <1> QED
    BY <1>1, <1>2

\* A run that changes its conversation without saving it leaves that to a worker.
LEMMA RunKeepsOnItsWay ==
  ASSUME TypeInv, TypeInv', NEW l \in Loops, RunStep(l), InSession, AbortedAreHidden, UNCHANGED <<writes, disk>>,
         NEW c \in Convs, c = loop[l].conv, list[c] # None, WillBeStored(c)
  PROVE  WillBeStored(c)'
PROOF
  <1>2. RunDoes(l) /\ RunMoves(l) /\ ChainStays(l) /\ (\A r : writes' # Append(writes, r))
    BY RunStepDoes, RunStepMoves, RunKeepsChain, AppendChanges DEF TypeInv
  <1>3. (\A w : ~Saves(l, w) /\ ~Stores(l, w)) /\ \A conv : ~Rewrites(l, conv) /\ ~Cancels(l, conv)
    <2>1. \A w : ~Saves(l, w) /\ ~Stores(l, w)
      BY <1>2 DEF Saves, Stores, Save
    <2>2. \A conv : ~Rewrites(l, conv)
      BY <1>2 DEF Rewrites, Save
    <2>3. \A conv : ~Cancels(l, conv)
      BY DEF Cancels, AbortedAreHidden
    <2> QED
      BY <2>1, <2>2, <2>3
  <1>4. ASSUME loop[l].pc = "batch" PROVE loop'[l].conv = c
    <2>1. MidRun(l)
      BY <1>4 DEF RunStep, LoopPick, LoopEnter, LoopEnd
    <2>2. SameRuns /\ Running(l)
      BY <1>4, <2>1, MidRunGoesOn DEF Running
    <2> QED
      BY <2>2 DEF SameRuns, SameRun
  <1>5. CASE list' = list
    <2>1. ASSUME NEW k \in Loops, NEW w \in Workers, ChainedBy(c, k, w) PROVE ChainedBy(c, k, w)'
      <3>1. worker[k][w].pc = "chained" /\ loop[k].pc = "batch"
        BY <2>1 DEF ChainedBy, TypeInv, WorkerT
      <3>2. worker'[k][w] = worker[k][w]
        <4>1. ~FindsReplaced(l, w) \/ k # l
          BY <2>1 DEF FindsReplaced, ChainedBy
        <4> QED
          BY <1>2, <1>3, <3>1, <4>1 DEF ChainStays, InSession
      <3>3. loop'[k].conv = loop[k].conv
        BY <1>2, <1>4, <3>1 DEF RunMoves, OnlyLoop
      <3> QED
        BY <1>5, <2>1, <3>2, <3>3 DEF ChainedBy
    <2>2. list'[c] = list[c] /\ stored'[c] = stored[c] /\ WillBeStored(c)
      BY <1>5 DEF disk
    <2> QED
      BY <2>1, <2>2, OnItsWay
  <1>6. CASE list' # list
    <2>1. PICK w \in Workers : Answers(l, w)
      BY <1>2, <1>3, <1>6 DEF RunDoes, Silent, memory
    <2>2. list' = [list EXCEPT ![c] = WithAnswer(l, w)] /\ loop' = loop
          /\ worker'[l][w].pc = "chained" /\ worker'[l][w].ver = WithAnswer(l, w).ver
      BY <2>1 DEF Answers, Put, Show
    <2>3. list'[c] = WithAnswer(l, w)
      BY <2>2 DEF TypeInv, MemoryT, ItemsT
    <2>4. ChainedBy(c, l, w)'
      BY <2>2, <2>3 DEF ChainedBy
    <2> QED
      BY <2>4 DEF Chained, WillBeStored
  <1> QED
    BY <1>5, <1>6

\* A step of a run of this session leaves every shown conversation stored, or on its way.
LEMMA RunKeepsShown ==
  ASSUME TypeInv, TypeInv', NEW l \in Loops, RunStep(l), InSession, AbortedAreHidden, ShownWillBeStored
  PROVE  ShownWillBeStored'
PROOF
  <1> DEFINE c == loop[l].conv
  <1>1. UNCHANGED disk /\ RunLeaves(l) /\ RunMoves(l)
    BY RunStepLeaves, RunStepMoves DEF Elsewhere
  <1> SUFFICES ASSUME NEW d \in Convs, list'[d] # None PROVE Newer(d)' /\ WillBeStored(d)'
    BY DEF ShownWillBeStored
  <1>2. list[d] # None /\ (list'[d] = list[d] \/ (d = c /\ list'[d].ver >= list[d].ver))
    <2>1. UNCHANGED list \/ (c \in Convs /\ list[c] # None /\ list' = [list EXCEPT ![c] = list'[c]] /\ EditOf(list'[c], list[c]))
      BY <1>1, NoneIsNoConversation DEF RunLeaves, EditOf
    <2>2. EditOf(list'[c], list[c]) => list'[c].ver >= list[c].ver
      BY DEF EditOf, Conversation
    <2> QED
      BY <2>1, <2>2 DEF TypeInv, MemoryT, ItemsT
  <1>3. Newer(d) /\ WillBeStored(d) /\ stored'[d] = stored[d]
    BY <1>1, <1>2 DEF ShownWillBeStored, disk
  <1>4. list[d].ver \in Nat /\ list'[d].ver \in Nat /\ list'[d].ver >= list[d].ver
    <2>1. list[d].ver \in Nat /\ list'[d].ver \in Nat
      BY <1>2 DEF TypeInv, MemoryT, ItemsT, Conversation
    <2> QED
      BY <1>2, <2>1
  <1>5. CASE UNCHANGED writes
    <2>1. Newer(d)'
      BY <1>2, <1>3, <1>4, <1>5, NewerStays DEF Newer, InQueue
    <2>2. CASE d = c
      <3>1. WillBeStored(d)'
        BY <1>1, <1>2, <1>3, <1>5, <2>2, RunKeepsOnItsWay
      <3> QED
        BY <2>1, <3>1
    <2>3. CASE d # c
      <3>1. \A k \in Loops, w \in Workers : ChainedBy(d, k, w) => ChainedBy(d, k, w)'
        BY <1>1, <1>2, <2>3 DEF ChainedBy, RunMoves, OnlyLoop
      <3> QED
        BY <1>2, <1>3, <1>5, <2>1, <2>3, <3>1, OnItsWay
    <2> QED
      BY <2>2, <2>3
  <1>6. ASSUME NEW x \in Writes, writes' = Append(writes, x), SaveBy(x, c, {"loop", "worker"}), c \in Convs
        PROVE  Newer(d)' /\ WillBeStored(d)'
    <2>1. InQueue' = InQueue \cup {x} /\ x.op = "save" /\ (d = c => x.items[d] = list'[d]) /\ (d # c => x.items[d] = None)
      BY <1>6, QueueGrows DEF SaveBy, TypeInv
    <2>2. NotNewer(x.items[d], list'[d])
      BY <1>4, <2>1 DEF NotNewer
    <2>3. Newer(d)'
      BY <1>2, <1>3, <1>4, <2>1, <2>2, NewerStays DEF Newer
    <2>4. CASE d = c
      BY <1>6, <2>1, <2>3, <2>4, AppendedIsLast DEF WillBeStored
    <2>5. CASE d # c
      <3>1. \A k \in Loops, w \in Workers : ChainedBy(d, k, w) => ChainedBy(d, k, w)'
        BY <1>1, <1>2, <2>5 DEF ChainedBy, RunMoves, OnlyLoop
      <3> QED
        BY <1>2, <1>3, <1>6, <2>1, <2>3, <2>5, <3>1, OnItsWay
    <2> QED
      BY <2>4, <2>5
  <1> QED
    BY <1>1, <1>5, <1>6 DEF RunLeaves

\* A step of a run keeps the invariant of a steady document.
LEMMA RunKeepsSteady ==
  ASSUME TypeInv, TypeInv', HistoryInv, SteadyInv, NEW l \in Loops, RunStep(l)
  PROVE  SteadyInv'
PROOF
  <1> SUFFICES ASSUME Steady' PROVE SteadyParts'
    BY DEF SteadyInv
  <1>1. UNCHANGED Elsewhere /\ RunLeaves(l) /\ RunMoves(l) /\ Grows
    BY RunStepLeaves, RunStepMoves, UsedAre DEF Elsewhere, Grows
  <1>2. SteadyParts /\ Patient
    BY <1>1, SteadyBefore DEF SteadyInv
  <1>3. InSession /\ AbortedAreHidden /\ ShownWillBeStored /\ FreshHistory /\ SavedHistory
        /\ UNCHANGED <<load, disk, mine, happened>> /\ SameMount
    BY <1>1, <1>2 DEF SteadyParts, Elsewhere, RunLeaves, SameMount
  <1>4. live' = live /\ aborted' \subseteq aborted /\ (LoopEnd(l) => l \notin aborted')
    BY <1>3, RunKeepsSession DEF InSession
  <1>5. InSession'
    <2>1. \A v \in Workers : ~WorkerChainBroken(l, v)
      BY <1>3 DEF InSession, WorkerChainBroken
    <2> QED
      BY <1>1, <1>3, <1>4, <2>1 DEF InSession, RunMoves, OnlyLoop
  <1>6. AbortedAreHidden'
    <2> SUFFICES ASSUME NEW k \in aborted' PROVE Running(k)' /\ list'[loop'[k].conv] = None
      BY DEF AbortedAreHidden
    <2>1. k \in Loops /\ Running(k) /\ list[loop[k].conv] = None /\ loop[k].conv \in Convs
      BY <1>3, <1>4 DEF AbortedAreHidden, TypeInv, RuntimeT, LoopT, Running
    <2>2. Running(k)' /\ loop'[k].conv = loop[k].conv
      <3>1. CASE MidRun(l)
        BY <2>1, <3>1, MidRunGoesOn DEF SameRuns, SameRun
      <3>2. CASE k # l
        BY <1>1, <2>1, <3>2 DEF RunMoves, OnlyLoop, Running
      <3>3. CASE k = l /\ ~MidRun(l)
        <4>1. LoopEnd(l)
          BY <2>1, <3>3 DEF RunStep, LoopPick, LoopEnter, Running
        <4> QED
          BY <1>4, <3>3, <4>1
      <3> QED
        BY <3>1, <3>2, <3>3
    <2>3. list'[loop[k].conv] = None
      <3> DEFINE c == loop[l].conv
      <3>1. UNCHANGED list \/ (c \in Convs /\ list[c] # None /\ list' = [list EXCEPT ![c] = list'[c]])
        BY <1>1, NoneIsNoConversation DEF RunLeaves, EditOf
      <3> QED
        BY <2>1, <3>1 DEF TypeInv, MemoryT, ItemsT
    <2> QED
      BY <2>2, <2>3
  <1>7. ShownWillBeStored'
    BY <1>3, RunKeepsShown
  <1>8. Recovered(Visible)' = Recovered(Visible)
    BY <1>3 DEF disk, Visible, Recovered
  <1>9. FreshHistory'
    <2> SUFFICES ASSUME Fresh' PROVE Fresh /\ UNCHANGED writes
      BY <1>3, <1>8 DEF FreshHistory, InQueue
    <2>1. list' = list
      <3> DEFINE c == loop[l].conv
      <3>1. UNCHANGED list \/ (c \in Convs /\ list'[c] # None)
        BY <1>1, NoneIsNoConversation DEF RunLeaves, EditOf
      <3>2. list' = NoItems
        BY DEF Fresh
      <3> HIDE DEF c
      <3> QED
        BY <3>1, <3>2, SomethingListed
    <2>2. Fresh /\ Idle
      BY <1>2, <1>3, <2>1 DEF Fresh, SameMount, HistoryInv, FreshIsIdle, Deletions
    <2>3. LoopPick(l)
      BY <2>2, RestingOnlyPicks DEF Idle
    <2> QED
      BY <2>2, <2>3 DEF LoopPick
  <1>10. SavedHistory'
    BY <1>3, <1>8 DEF SavedHistory
  <1> QED
    BY <1>5, <1>6, <1>7, <1>9, <1>10 DEF SteadyParts
\* A step that leaves memory, store and queue to themselves.
LEMMA StillKeepsSteady ==
  ASSUME TypeInv, TypeInv', SteadyParts, InSession', UNCHANGED <<list, disk, writes, worker>>,
         aborted' \subseteq aborted, \A k \in Loops : Running(k)' <=> Running(k),
         \A k \in Loops : Busy(k) => loop'[k].conv = loop[k].conv,
         Fresh' => Fresh, load'.pc = "saving" => UNCHANGED load
  PROVE  SteadyParts'
PROOF
  <1>1. InSession /\ AbortedAreHidden /\ ShownWillBeStored /\ FreshHistory /\ SavedHistory
    BY DEF SteadyParts
  <1>2. AbortedAreHidden'
    <2> SUFFICES ASSUME NEW k \in aborted' PROVE Running(k)' /\ list'[loop'[k].conv] = None
      BY DEF AbortedAreHidden
    <2>1. k \in Loops /\ Running(k) /\ Busy(k) /\ list[loop[k].conv] = None
      BY <1>1 DEF AbortedAreHidden, TypeInv, RuntimeT, Running, Busy
    <2> QED
      BY <2>1
  <1>3. ShownWillBeStored'
    <2> SUFFICES ASSUME NEW c \in Convs, list'[c] # None PROVE Newer(c)' /\ WillBeStored(c)'
      BY DEF ShownWillBeStored
    <2>1. Newer(c) /\ WillBeStored(c) /\ list'[c] = list[c] /\ stored'[c] = stored[c]
      BY <1>1 DEF ShownWillBeStored, disk
    <2>2. Newer(c)'
      BY <2>1 DEF Newer, InQueue
    <2>3. \A k \in Loops, w \in Workers : ChainedBy(c, k, w) => ChainedBy(c, k, w)'
      BY DEF ChainedBy, TypeInv, WorkerT, Busy
    <2> QED
      BY <2>1, <2>2, <2>3, OnItsWay
  <1>4. Recovered(Visible)' = Recovered(Visible)
    BY DEF disk, Visible, Recovered
  <1>5. FreshHistory'
    BY <1>1, <1>4 DEF FreshHistory, InQueue
  <1>6. SavedHistory'
    BY <1>1, <1>4 DEF SavedHistory
  <1> QED
    BY <1>2, <1>3, <1>5, <1>6 DEF SteadyParts

\* So does a step that leaves the history alone, leaving the page and opening it.
LEMMA SittingKeepsSteady ==
  ASSUME TypeInv, TypeInv', HistoryInv, SteadyInv, SitsStill \/ GoesAway \/ Open
  PROVE  SteadyInv'
PROOF
  <1> SUFFICES ASSUME Steady' PROVE SteadyParts'
    BY DEF SteadyInv
  <1>1. CASE SitsStill
    <2>1. Unmoved /\ Grows
      BY <1>1, SitsStillIs DEF Unmoved
    <2>2. SteadyParts /\ Patient
      BY <2>1, SteadyBefore DEF SteadyInv
    <2>3. ~SignIn /\ ~Notice /\ ~SignOut
      BY <2>2 DEF SteadyParts, InSession, SignIn, Notice, SignOut, Hazard, Steady, Lasting
    <2>4. UNCHANGED <<live, mine, aborted>> /\ (\A k \in Loops : ~loop'[k].broken) /\ \A k \in Loops : Running(k)' <=> Running(k)
      <3>1. CASE DrainEffect
        <4>1. TryDrain(page.mount) /\ UNCHANGED <<live, mine, aborted>>
          BY <3>1 DEF DrainEffect
        <4> QED
          BY <2>2, <4>1, TryDrainBusy DEF SteadyParts, InSession, TypeInv
      <3>2. CASE UNCHANGED vars
        BY <2>2, <3>2 DEF vars, runtime, SteadyParts, InSession, Running
      <3> QED
        BY <1>1, <2>3, <3>1, <3>2 DEF SitsStill
    <2>5. Fresh' => Fresh
      BY <2>1, PatientBefore, SteadyBefore DEF Fresh, Unmoved, Unshown, SameMount
    <2>6. InSession'
      BY <2>2, <2>4 DEF SteadyParts, InSession
    <2> QED
      BY <2>1, <2>2, <2>4, <2>5, <2>6, StillKeepsSteady DEF Unmoved, Unshown, SameBusy
  <1>2. CASE GoesAway
    <2>1. LeavesPage /\ Grows
      BY <1>2, GoesAwayIs DEF LeavesPage
    <2>2. SteadyParts /\ Patient'
      BY <2>1, SteadyBefore DEF SteadyInv
    <2>3. UNCHANGED <<live, mine, aborted>>
      BY <1>2 DEF GoesAway, Leave, LogOut, Hazard, Steady, Lasting, runtime
    <2>4. ~Deletions
      BY <2>1, <2>2 DEF LeavesPage, Grows, Patient, ReadBeforeDeletion, Deletions
    <2>5. Fresh' => Fresh
      BY <2>1, <2>4 DEF Fresh, LeavesPage
    <2>6. InSession'
      BY <2>1, <2>2, <2>3 DEF SteadyParts, InSession, LeavesPage
    <2> QED
      BY <2>1, <2>2, <2>3, <2>5, <2>6, StillKeepsSteady DEF LeavesPage, Running
  <1>3. CASE Open
    <2>1. /\ page.mount = 0 /\ live' = TRUE /\ load'.pc \in {"reading", "off"}
          /\ UNCHANGED <<list, disk, writes, worker, loop, aborted, mine, used, happened>>
      BY <1>3 DEF Open
    <2>2. SteadyParts
      BY <2>1, UsedAre, SteadyBefore DEF SteadyInv, Grows
    <2>3. Fresh' => Fresh
      BY <2>1 DEF Fresh
    <2>4. InSession'
      BY <2>1, <2>2 DEF SteadyParts, InSession
    <2> QED
      BY <2>1, <2>2, <2>3, <2>4, StillKeepsSteady DEF Running
  <1> QED
    BY <1>1, <1>2, <1>3

\* A write is appended for what the user sees.
LEMMA AppendKeepsSteady ==
  ASSUME TypeInv, TypeInv', SteadyParts, InSession', AbortedAreHidden', UNCHANGED <<loop, worker, disk>>,
         NEW x \in Writes, writes' = Append(writes, x),
         \A c \in Convs : list'[c] # None =>
            \/ list[c] = list'[c] /\ x.items[c] = None /\ x.op # "clear"
            \/ x.items[c] = list'[c] /\ x.op = "save" /\ list[c] # None /\ list'[c].ver >= list[c].ver
            \/ x.items[c] = list'[c] /\ x.op = "save" /\ stored[c] = None /\ \A y \in InQueue : y.items[c] = None,
         ~Fresh', load'.pc # "saving"
  PROVE  SteadyParts'
PROOF
  <1>1. ShownWillBeStored
    BY DEF SteadyParts
  <1>2. InQueue' = InQueue \cup {x}
    BY QueueGrows DEF TypeInv
  <1>3. ShownWillBeStored'
    <2> SUFFICES ASSUME NEW c \in Convs, list'[c] # None PROVE Newer(c)' /\ WillBeStored(c)'
      BY DEF ShownWillBeStored
    <2>1. stored'[c] = stored[c] /\ (list[c] # None => Newer(c) /\ WillBeStored(c))
      BY <1>1 DEF ShownWillBeStored, disk
    <2>2. list'[c].ver \in Nat /\ (list[c] # None => list[c].ver \in Nat)
      BY DEF TypeInv, MemoryT, ItemsT, Conversation
    <2>3. CASE list[c] = list'[c] /\ x.items[c] = None /\ x.op # "clear"
      <3>1. Newer(c)'
        BY <1>2, <2>1, <2>3 DEF Newer, NotNewer
      <3>2. \A k \in Loops, w \in Workers : ChainedBy(c, k, w) => ChainedBy(c, k, w)'
        BY <2>3 DEF ChainedBy
      <3> QED
        BY <2>1, <2>3, <3>1, <3>2, OnItsWay
    <2>4. CASE x.items[c] = list'[c] /\ x.op = "save" /\ list[c] # None /\ list'[c].ver >= list[c].ver
      <3>1. NotNewer(x.items[c], list'[c])
        BY <2>2, <2>4 DEF NotNewer
      <3>2. Newer(c)'
        BY <1>2, <2>1, <2>4, <3>1, NewerStays DEF Newer
      <3> QED
        BY <2>4, <3>2, AppendedIsLast DEF WillBeStored
    <2>5. CASE x.items[c] = list'[c] /\ x.op = "save" /\ stored[c] = None /\ \A y \in InQueue : y.items[c] = None
      <3>1. Newer(c)'
        BY <1>2, <2>1, <2>2, <2>5 DEF Newer, NotNewer
      <3> QED
        BY <2>5, <3>1, AppendedIsLast DEF WillBeStored
    <2> QED
      BY <2>3, <2>4, <2>5
  <1> QED
    BY <1>3 DEF SteadyParts, FreshHistory, SavedHistory

\* So do the user's steps.
LEMMA UserKeepsSteady ==
  ASSUME TypeInv, TypeInv', RunsInv, KnownInv, SteadyInv, Clear \/ \E c \in Convs : Submit(c) \/ Delete(c)
  PROVE  SteadyInv'
PROOF
  <1> SUFFICES ASSUME Steady' PROVE SteadyParts'
    BY DEF SteadyInv
  <1>0. Grows => SteadyParts /\ InSession /\ AbortedAreHidden /\ Patient
    BY SteadyBefore DEF SteadyInv, SteadyParts
  <1>1. ASSUME NEW c \in Convs, Submit(c) PROVE SteadyParts'
    <2>1. PICK x \in Writes : SubmitDoes(c, x)
      BY <1>1, SubmitSaves
    <2>2. /\ list' = [list EXCEPT ![c] = WithTurn(c)] /\ list'[c] = WithTurn(c) /\ WithTurn(c) \in Conversation /\ Grows
          /\ writes' = Append(writes, x) /\ x.op = "save" /\ x.items[c] = list'[c] /\ (\A d \in Convs \ {c} : x.items[d] = None)
          /\ (list[c] # None \/ c = used.convs + 1)
          /\ UNCHANGED <<load, loop, worker, disk, live, mine, aborted>>
      BY <2>1 DEF SubmitDoes, Shown, runtime
    <2>3. SteadyParts /\ InSession /\ AbortedAreHidden /\ Patient
      BY <1>0, <2>2
    <2>4. load.pc = "off"
      BY <2>1, <2>2, SteadyBefore DEF SubmitDoes, Settled, Hasty, Hazard, Patient
    <2>5. list'[c] # None
      BY <2>2, NoneIsNoConversation
    <2>6. list[c] # None => list'[c].ver >= list[c].ver
      <3>1. list[c] # None => list[c].ver \in Nat
        BY DEF TypeInv, MemoryT, ItemsT, Conversation
      <3>2. list[c] # None => list'[c].ver = list[c].ver + 1
        BY <2>2 DEF WithTurn
      <3> QED
        BY <3>1, <3>2
    <2>7. c = used.convs + 1 => stored[c] = None /\ (\A y \in InQueue : y.items[c] = None) /\ \A k \in Loops : Busy(k) => loop[k].conv # c
      <3>1. c = used.convs + 1 => ~(c <= used.convs)
        BY UsedAre
      <3> QED
        BY <3>1 DEF KnownInv, KnownStored, KnownInQueue, WriteKnown, KnownTo, KnownRuns
    <2>8. AbortedAreHidden'
      <3> SUFFICES ASSUME NEW k \in aborted PROVE Running(k)' /\ list'[loop'[k].conv] = None
        BY <2>2 DEF AbortedAreHidden
      <3>1. k \in Loops /\ Running(k) /\ Busy(k) /\ list[loop[k].conv] = None /\ loop[k].conv \in Convs
        BY <2>3 DEF AbortedAreHidden, TypeInv, RuntimeT, LoopT, Running, Busy
      <3> QED
        BY <2>2, <2>7, <3>1 DEF Running, TypeInv, MemoryT, ItemsT
    <2>9. InSession' /\ ~Fresh' /\ load'.pc # "saving"
      BY <2>2, <2>3, <2>4, <2>5, SomethingListed DEF InSession, Fresh
    <2>10. \A d \in Convs : list'[d] # None =>
            \/ list[d] = list'[d] /\ x.items[d] = None /\ x.op # "clear"
            \/ x.items[d] = list'[d] /\ x.op = "save" /\ list[d] # None /\ list'[d].ver >= list[d].ver
            \/ x.items[d] = list'[d] /\ x.op = "save" /\ stored[d] = None /\ \A y \in InQueue : y.items[d] = None
      <3> TAKE d \in Convs
      <3>1. CASE d = c
        BY <2>2, <2>6, <2>7, <3>1
      <3>2. CASE d # c
        BY <2>2, <3>2 DEF TypeInv, MemoryT, ItemsT
      <3> QED
        BY <3>1, <3>2
    <2> QED
      BY <2>2, <2>3, <2>8, <2>9, <2>10, AppendKeepsSteady
  <1>2. ASSUME NEW c \in Convs, Delete(c) PROVE SteadyParts'
    <2>1. PICK x \in Writes : DeleteDoes(c, x)
      BY <1>2, DeleteSaves
    <2>2. /\ list' = [list EXCEPT ![c] = None] /\ list'[c] = None /\ Grows /\ SameMount /\ page.mount # 0 /\ load.pc = "off"
          /\ writes' = Append(writes, x) /\ x.op = "delete" /\ x.items = NoItems /\ "delete" \in happened'
          /\ aborted' = aborted \cup ({control[c]} \ {None})
          /\ UNCHANGED <<load, loop, worker, disk, live, mine>>
      BY <2>1 DEF DeleteDoes, Shown
    <2>3. SteadyParts /\ InSession /\ AbortedAreHidden
      BY <1>0, <2>2
    <2>4. AbortedAreHidden'
      <3> SUFFICES ASSUME NEW k \in aborted' PROVE Running(k)' /\ list'[loop'[k].conv] = None
        BY DEF AbortedAreHidden
      <3>1. CASE k \in aborted
        <4>1. k \in Loops /\ Running(k) /\ list[loop[k].conv] = None /\ loop[k].conv \in Convs
          BY <2>3, <3>1 DEF AbortedAreHidden, TypeInv, RuntimeT, LoopT, Running
        <4> QED
          BY <2>2, <4>1 DEF Running, TypeInv, MemoryT, ItemsT
      <3>2. CASE k = control[c] /\ control[c] # None
        <4>1. Running(k) /\ loop[k].conv = c
          BY <3>2 DEF RunsInv, ControlsRuns, ControlsRun
        <4> QED
          BY <2>2, <4>1 DEF Running
      <3> QED
        BY <2>2, <3>1, <3>2
    <2>5. InSession' /\ ~Fresh' /\ load'.pc # "saving"
      BY <2>2, <2>3 DEF InSession, Fresh, SameMount, Deletions
    <2>6. \A d \in Convs : list'[d] # None => list[d] = list'[d] /\ x.items[d] = None /\ x.op # "clear"
      BY <2>2 DEF TypeInv, MemoryT, ItemsT, NoItems
    <2> QED
      BY <2>2, <2>3, <2>4, <2>5, <2>6, AppendKeepsSteady
  <1>3. CASE Clear
    <2>1. PICK x \in Writes : ClearDoes(x)
      BY <1>3, ClearSaves
    <2>2. /\ list' = NoItems /\ Grows /\ SameMount /\ page.mount # 0 /\ load.pc = "off"
          /\ writes' = Append(writes, x) /\ "clear" \in happened'
          /\ aborted' = aborted \cup Held
          /\ UNCHANGED <<load, loop, worker, disk, live, mine>>
      BY <2>1 DEF ClearDoes, Shown
    <2>3. SteadyParts /\ InSession /\ AbortedAreHidden
      BY <1>0, <2>2
    <2>4. AbortedAreHidden'
      <3> SUFFICES ASSUME NEW k \in aborted' PROVE Running(k)' /\ list'[loop'[k].conv] = None
        BY DEF AbortedAreHidden
      <3>1. k \in Loops /\ Running(k)
        BY <2>2, <2>3 DEF AbortedAreHidden, TypeInv, RuntimeT, Held, RunsInv, ControlsRuns, ControlsRun
      <3>2. loop[k].conv \in Convs
        BY <3>1 DEF TypeInv, LoopT, Running
      <3> QED
        BY <2>2, <3>1, <3>2 DEF Running, NoItems
    <2>5. InSession' /\ ~Fresh' /\ load'.pc # "saving"
      BY <2>2, <2>3 DEF InSession, Fresh, SameMount, Deletions
    <2>6. \A d \in Convs : list'[d] = None
      BY <2>2 DEF NoItems
    <2> QED
      BY <2>2, <2>3, <2>4, <2>5, <2>6, AppendKeepsSteady
  <1> QED
    BY <1>1, <1>2, <1>3

\* While the history is read, a patient user has an empty screen and an idle queue.
LEMMA FreshWhileRead ==
  ASSUME HistoryInv, Patient, load.pc # "off"
  PROVE  Fresh /\ Idle /\ list = NoItems
  BY DEF HistoryInv, ReadsIntoNothing, FreshIsIdle, Fresh

\* The history that is read into nothing is recovered.
LEMMA HistoryIsRecovered ==
  ASSUME TypeInv, RunsInv, Waits, Idle, list = NoItems
  PROVE  History = Recovered(Visible)
PROOF
  <1>1. \A k \in Loops : ~Running(k) /\ ~On(k)
    BY DEF Idle, Busy, Running, On, Waits
  <1>2. \A c \in Convs : control[c] = None
    BY <1>1 DEF RunsInv, ControlsRuns, ControlsRun, TypeInv, RuntimeT
  <1>3. control = [c \in Convs |-> None]
    BY <1>2 DEF TypeInv, RuntimeT
  <1>4. active = {} /\ ~draining
    BY <1>1 DEF RunsInv, UsedByRuns, DrainingIsOn
  <1>5. \A c \in Convs : list[c] = None
    BY DEF NoItems
  <1>6. ~LiveWork
    BY <1>3, <1>4, <1>5 DEF LiveWork
  <1> QED
    BY <1>6 DEF History

\* Recovering a second time changes nothing.
LEMMA RecoveredOnce ==
  ASSUME TypeInv
  PROVE  /\ Recovered(Recovered(Visible)) = Recovered(Visible)
         /\ \A c \in Convs : Recovered(Visible)[c] = Over(Visible[c], Recover) /\ Visible[c] \in Conversation \cup {None}
PROOF
  <1>1. \A c \in Convs : Visible[c] \in Conversation \cup {None}
    BY VisibleIs DEF TypeInv, ItemsT
  <1>2. \A c \in Convs : Recovered(Visible)[c] = Over(Visible[c], Recover)
    BY DEF Recovered
  <1>3. \A c \in Convs : Over(Over(Visible[c], Recover), Recover) = Over(Visible[c], Recover)
    BY <1>1, OverIs
  <1>4. Recovered(Recovered(Visible)) = [c \in Convs |-> Over(Over(Visible[c], Recover), Recover)]
    BY <1>2 DEF Recovered
  <1>5. Recovered(Visible) = [c \in Convs |-> Over(Visible[c], Recover)]
    BY DEF Recovered
  <1> QED
    BY <1>1, <1>2, <1>3, <1>4, <1>5

\* What the history shows is in the store, and what is on its way there is the same.
LEMMA HistoryWillBeStored ==
  ASSUME TypeInv, TypeInv', \A c \in Convs : list'[c] # None => stored'[c] = list'[c],
         \A x \in InQueue' : x.op = "all" /\ x.items = list'
  PROVE  ShownWillBeStored'
PROOF
  <1> SUFFICES ASSUME NEW c \in Convs, list'[c] # None PROVE Newer(c)' /\ WillBeStored(c)'
    BY DEF ShownWillBeStored
  <1>1. list'[c].ver \in Nat
    BY DEF TypeInv, MemoryT, ItemsT, Conversation
  <1>2. Newer(c)'
    BY <1>1 DEF Newer, NotNewer
  <1>3. CASE InQueue' = {}
    BY <1>2, <1>3 DEF WillBeStored, InTheStore, Untouched
  <1>4. CASE InQueue' # {}
    <2>1. DOMAIN writes' = 1 .. Len(writes') /\ Len(writes') \in Nat /\ DOMAIN writes' # {}
      BY <1>4 DEF TypeInv, PendingT, InQueue
    <2>2. PICK k \in Nat : k = Len(writes')
      BY <2>1
    <2>3. k \in DOMAIN writes' /\ writes'[k] \in InQueue' /\ \A j \in DOMAIN writes' : ~(j > k)
      BY <2>1, <2>2 DEF InQueue
    <2>4. LastSave(c, k)'
      BY <2>3 DEF LastSave
    <2> QED
      BY <1>2, <2>3, <2>4 DEF WillBeStored, InTheQueue
  <1> QED
    BY <1>3, <1>4

\* Nobody is aborted while nobody is busy.
LEMMA NobodyAborted ==
  ASSUME TypeInv, AbortedAreHidden, Idle
  PROVE  aborted = {}
  BY DEF AbortedAreHidden, Idle, Busy, Running, TypeInv, RuntimeT

\* LoadHistory keeps the invariant of a steady document.
LEMMA LoadHistoryKeepsSteady ==
  ASSUME TypeInv, TypeInv', RunsInv, HistoryInv, SteadyInv, LoadHistory
  PROVE  SteadyInv'
PROOF
  <1> SUFFICES ASSUME Steady' PROVE SteadyParts'
    BY DEF SteadyInv
  <1>1. load.pc = "reading" /\ Waits /\ UNCHANGED <<loop, worker, disk, used, happened, runtime, mine>>
    BY LoadHistoryIs DEF LoadHistory
  <1>2. SteadyParts /\ Patient
    BY <1>1, UsedAre, SteadyBefore DEF SteadyInv, Grows
  <1>3. InSession /\ AbortedAreHidden /\ FreshHistory
    BY <1>2 DEF SteadyParts
  <1>4. Fresh /\ Idle /\ list = NoItems
    BY <1>1, <1>2, FreshWhileRead
  <1>5. History = Recovered(Visible)
    BY <1>1, <1>4, HistoryIsRecovered
  <1>6. InSession' /\ AbortedAreHidden'
    <2>1. aborted = {}
      BY <1>3, <1>4, NobodyAborted
    <2> QED
      BY <1>1, <1>3, <2>1 DEF InSession, AbortedAreHidden, runtime
  <1>7. Recovered(Visible)' = Recovered(Visible)
    BY <1>1 DEF disk, Visible, Recovered
  <1>8. \A x \in InQueue : x.op = "all" /\ x.items = Recovered(Visible)
    BY <1>3, <1>4 DEF FreshHistory
  <1>9. CASE HistoryShown
    <2>1. list' = Visible /\ UNCHANGED writes /\ load'.pc = "off" /\ Visible = Recovered(Visible)
      BY <1>5, <1>9 DEF HistoryShown, Shown
    <2>2. \A c \in Convs : list'[c] # None => stored'[c] = list'[c]
      BY <1>1, <2>1 DEF Visible, disk
    <2>3. \A x \in InQueue' : x.op = "all" /\ x.items = list'
      BY <1>8, <2>1 DEF InQueue
    <2>4. ShownWillBeStored'
      BY <2>2, <2>3, HistoryWillBeStored
    <2>5. FreshHistory' /\ SavedHistory'
      BY <1>7, <1>8, <2>1 DEF FreshHistory, SavedHistory, InQueue
    <2> QED
      BY <1>6, <2>4, <2>5 DEF SteadyParts
  <1>10. ASSUME NEW x \in Writes, HistorySaved(x) PROVE SteadyParts'
    <2>1. list' = NoItems /\ load'.items = Recovered(Visible) /\ x.op = "all" /\ x.items = Recovered(Visible)
          /\ writes' = Append(writes, x)
      BY <1>4, <1>5, <1>10 DEF HistorySaved, memory
    <2>2. InQueue' = InQueue \cup {x}
      BY <2>1, QueueGrows DEF TypeInv
    <2>3. ShownWillBeStored'
      BY <2>1 DEF ShownWillBeStored, NoItems
    <2>4. FreshHistory' /\ SavedHistory'
      BY <1>7, <1>8, <2>1, <2>2 DEF FreshHistory, SavedHistory
    <2> QED
      BY <1>6, <2>3, <2>4 DEF SteadyParts
  <1> QED
    BY <1>9, <1>10, HistoryComes

\* The history that is written is the one that a reader sees then.
LEMMA HistoryIsWritten ==
  ASSUME TypeInv, NEW x \in Writes, Ok(x), x.op = "all", x.items = Recovered(Visible)
  PROVE  /\ \A c \in Convs : stored'[c] = Recovered(Visible)[c]
         /\ Recovered(Visible)' = Recovered(Visible)
PROOF
  <1>1. gone' = gone /\ stored' = [c \in Convs |-> Merged(c, Recovered(Visible)[c])]
    BY DEF Ok
  <1>2. ASSUME NEW c \in Convs PROVE Merged(c, Recovered(Visible)[c]) = Recovered(Visible)[c]
    <2> DEFINE v == Visible[c]
               r == Over(v, Recover)
    <2>1. Recovered(Visible)[c] = r /\ v \in Conversation \cup {None}
      BY RecoveredOnce
    <2>2. (r = None <=> v = None) /\ (v # None => r.ver >= v.ver)
      BY <2>1, OverIs
    <2>3. v = IF c \in gone THEN None ELSE stored[c]
      BY DEF Visible
    <2> HIDE DEF v, r
    <2>4. Merged(c, r) = r
      BY <2>2, <2>3 DEF Merged, Newest
    <2> QED
      BY <2>1, <2>4
  <1>3. \A c \in Convs : stored'[c] = Recovered(Visible)[c]
    BY <1>1, <1>2
  <1>4. \A c \in Convs : Visible'[c] = Recovered(Visible)[c]
    <2> SUFFICES ASSUME NEW c \in Convs PROVE Visible'[c] = Recovered(Visible)[c]
      OBVIOUS
    <2>1. c \in gone => Recovered(Visible)[c] = None
      BY RecoveredOnce DEF Visible, Over
    <2> QED
      BY <1>1, <1>3, <2>1 DEF Visible
  <1>5. Visible' = Recovered(Visible)
    BY <1>4 DEF Visible, Recovered
  <1>6. Recovered(Visible)' = Recovered(Recovered(Visible))
    BY <1>4 DEF Recovered
  <1> QED
    BY <1>3, <1>6, RecoveredOnce

\* What was on its way is stored, or still on its way.
LEMMA WrittenOrOnItsWay ==
  ASSUME TypeInv, TypeInv', GoneIsAway, DeletedIsHidden, ClearsAreFirst, NEW c \in Convs, list[c] # None, Newer(c), WillBeStored(c),
         UNCHANGED list, writes # <<>>, writes' = Tail(writes), Ok(Head(writes)),
         \A l \in Loops, w \in Workers : ChainedBy(c, l, w) => ChainedBy(c, l, w)'
  PROVE  Newer(c)' /\ WillBeStored(c)'
PROOF
  <1> DEFINE x == Head(writes)
  <1>1. /\ InQueue' \subseteq InQueue /\ x \in InQueue /\ x = writes[1] /\ 1 \in DOMAIN writes
        /\ \A k \in DOMAIN writes' : k \in Nat /\ k + 1 \in DOMAIN writes /\ k + 1 > 1 /\ writes'[k] = writes[k + 1]
        /\ \A k \in DOMAIN writes : k \in Nat /\ (k # 1 => k - 1 \in DOMAIN writes' /\ writes[k] = writes'[k - 1])
    BY QueueShrinks DEF TypeInv
  <1>2. x \in Writes /\ x.op \in {"save", "all", "delete", "clear"} /\ (x.op = "delete" => x.conv \in Convs)
    BY HeadIs, WriteIs DEF TypeInv
  <1> HIDE DEF x
  <1>3. Ok(x) /\ c \notin gone /\ (x.op = "delete" => x.conv # c)
    BY <1>1 DEF x, GoneIsAway, DeletedIsHidden
  <1>4. stored'[c] = stored[c] \/ stored'[c] = None \/ stored'[c] = x.items[c]
    <2>1. CASE x.op \in {"save", "all"}
      BY <1>3, <2>1 DEF Ok, Merged, Newest
    <2>2. CASE x.op = "delete"
      BY <1>3, <2>2 DEF Ok, TypeInv, DiskT, ItemsT
    <2>3. CASE x.op = "clear"
      BY <1>3, <2>3 DEF Ok, NoItems
    <2> QED
      BY <1>2, <2>1, <2>2, <2>3
  <1>5. Newer(c)'
    BY <1>1, <1>4 DEF Newer, NotNewer
  <1>6. CASE Chained(c)
    BY <1>5, <1>6 DEF Chained, WillBeStored
  <1>7. ASSUME NEW k \in DOMAIN writes, LastSave(c, k), writes[k].items[c] = list[c], k # 1
        PROVE  WillBeStored(c)'
    <2>1. PICK i \in DOMAIN writes' : i = k - 1
      BY <1>1, <1>7
    <2>2. writes'[i] = writes[k] /\ i \in Int /\ k \in Int /\ i + 1 = k
      BY <1>1, <1>7, <2>1
    <2>3. \A j \in DOMAIN writes' : j > i => writes'[j].items[c] = None
      <3> TAKE j \in DOMAIN writes'
      <3>1. j \in Nat /\ j + 1 \in DOMAIN writes /\ writes'[j] = writes[j + 1]
        BY <1>1
      <3>2. j > i => j + 1 > k
        BY <2>2, <3>1
      <3> QED
        BY <1>7, <3>1, <3>2 DEF LastSave
    <2>4. LastSave(c, i)'
      BY <1>7, <2>2, <2>3 DEF LastSave
    <2> QED
      BY <1>7, <2>2, <2>4 DEF InTheQueue, WillBeStored
  <1>8. ASSUME LastSave(c, 1), writes[1].items[c] = list[c]
        PROVE  WillBeStored(c)'
    <2>1. x.op \in {"save", "all"} /\ x.items[c] = list[c]
      BY <1>1, <1>8 DEF LastSave
    <2>2. stored'[c] = list[c]
      <3>1. stored[c] # None => list[c].ver >= stored[c].ver
        <4>1. list[c].ver \in Nat /\ (stored[c] # None => stored[c].ver \in Nat)
          BY DEF TypeInv, MemoryT, DiskT, ItemsT, Conversation
        <4> QED
          BY <4>1 DEF Newer, NotNewer
      <3> QED
        BY <1>3, <2>1, <3>1 DEF Ok, Merged, Newest
    <2>3. Untouched(c)'
      <3> SUFFICES ASSUME NEW k \in DOMAIN writes' PROVE writes'[k].items[c] = None /\ writes'[k].op # "clear"
        BY DEF Untouched, InQueue
      <3>1. k \in Nat /\ k + 1 \in DOMAIN writes /\ k + 1 > 1 /\ writes'[k] = writes[k + 1] /\ 1 \in 1 .. (k + 1) - 1
        BY <1>1
      <3>2. writes'[k].items[c] = None
        BY <1>8, <3>1 DEF LastSave
      <3>3. ClearIsFirst(k + 1)
        BY <3>1 DEF ClearsAreFirst
      <3>4. writes[k + 1].op # "clear"
        BY <1>8, <3>1, <3>3 DEF ClearIsFirst
      <3> QED
        BY <3>1, <3>2, <3>4
    <2> QED
      BY <2>2, <2>3 DEF InTheStore, WillBeStored
  <1>9. CASE InTheStore(c)
    <2>1. x.items[c] = None /\ x.op # "clear" /\ stored[c] = list[c]
      BY <1>1, <1>9 DEF InTheStore, Untouched
    <2>2. stored'[c] = stored[c]
      <3>1. CASE x.op \in {"save", "all"}
        BY <1>3, <2>1, <3>1 DEF Ok, Merged
      <3>2. CASE x.op = "delete"
        BY <1>3, <3>2 DEF Ok, TypeInv, DiskT, ItemsT
      <3> QED
        BY <1>2, <2>1, <3>1, <3>2
    <2>3. Untouched(c)'
      BY <1>1, <1>9 DEF InTheStore, Untouched
    <2>4. stored'[c] = list'[c]
      BY <2>1, <2>2
    <2>5. InTheStore(c)'
      BY <2>3, <2>4 DEF InTheStore
    <2> QED
      BY <1>5, <2>5 DEF WillBeStored
  <1> QED
    BY <1>5, <1>6, <1>7, <1>8, <1>9 DEF WillBeStored, InTheQueue

\* So does a write that is over.
LEMMA WriteOverKeepsSteady ==
  ASSUME TypeInv, TypeInv', MountsInv, HistoryInv, DeletionsInv, SteadyInv, WriteDone \/ WriteFailed
  PROVE  SteadyInv'
PROOF
  <1> SUFFICES ASSUME Steady' PROVE SteadyParts'
    BY DEF SteadyInv
  <1> DEFINE x == Head(writes)
             b == x.by
  <1>1. PICK ok \in BOOLEAN : WriteEnds(ok)
    BY WriteEndsIs
  <1>2. /\ ok /\ writes # <<>> /\ writes' = Tail(writes) /\ Grows /\ Resume(b, TRUE) /\ Ok(x)
        /\ UNCHANGED happened
    BY <1>1, SteadyBefore DEF WriteEnds, Steady, Orderly
  <1>3. x \in Writes /\ b \in Bys /\ Awaited(b)
    BY <1>2, HeadIs DEF TypeInv
  <1>4. Brought(b, TRUE)
    BY <1>2, <1>3, ResumeBrings
  <1>5. InQueue' \subseteq InQueue /\ x \in InQueue /\ x = writes[1] /\ 1 \in DOMAIN writes
    BY <1>2, QueueShrinks DEF TypeInv
  <1>6. Patient /\ SteadyParts /\ GoneIsAway /\ DeletedIsHidden /\ ClearsAreFirst /\ WriteKind(x)
    BY <1>2, <1>5, SteadyBefore DEF MountsInv, KindsInv, DeletionsInv, SteadyInv
  <1>7. InSession /\ AbortedAreHidden /\ ShownWillBeStored /\ FreshHistory /\ SavedHistory
    BY <1>6 DEF SteadyParts
  <1> HIDE DEF x
  <1>8. SameRuns
    BY <1>2, <1>3, ResumeRuns
  <1>9. /\ \A k \in Loops, w \in Workers : worker[k][w].pc = "chained" => worker'[k][w] = worker[k][w]
        /\ \A k \in Loops : ~loop'[k].broken
    BY <1>2, <1>3, <1>7, ResumeKeepsChain DEF InSession
  <1>10. UNCHANGED <<live, mine, aborted>>
    <2>1. CASE WriteDone
      BY <2>1 DEF WriteDone
    <2>2. CASE WriteFailed
      BY <2>2 DEF WriteFailed
    <2> QED
      BY <2>1, <2>2
  <1>11. InSession'
    BY <1>7, <1>9, <1>10 DEF InSession
  <1>12. load.pc # "off" => Fresh /\ Idle /\ list = NoItems
    BY <1>6, FreshWhileRead
  <1>13. CASE ForScreen(b)
    <2>1. load.pc = "saving"
      BY <1>5, <1>13 DEF MountsInv, OnceRead, ForScreen, LoadOf
    <2>2. /\ Idle /\ load.items = Recovered(Visible)
          /\ \A y \in InQueue : y.op = "all" /\ y.items = Recovered(Visible)
      BY <1>7, <1>12, <2>1 DEF FreshHistory, SavedHistory
    <2>3. list' = Recovered(Visible) /\ load'.pc = "off"
      BY <1>4, <1>13, <2>2 DEF Brought, Shown
    <2>4. (\A c \in Convs : stored'[c] = Recovered(Visible)[c]) /\ Recovered(Visible)' = Recovered(Visible)
      BY <1>2, <1>3, <1>5, <2>2, HistoryIsWritten
    <2>5. \A y \in InQueue' : y.op = "all" /\ y.items = list'
      BY <1>5, <2>2, <2>3
    <2>6. ShownWillBeStored'
      <3>1. \A c \in Convs : list'[c] # None => stored'[c] = list'[c]
        BY <2>3, <2>4
      <3> QED
        BY <2>5, <3>1, HistoryWillBeStored
    <2>7. FreshHistory' /\ SavedHistory'
      BY <2>3, <2>4, <2>5 DEF FreshHistory, SavedHistory
    <2>8. AbortedAreHidden'
      <3>1. aborted = {}
        BY <1>7, <2>2, NobodyAborted
      <3> QED
        BY <1>10, <3>1 DEF AbortedAreHidden
    <2> QED
      BY <1>11, <2>6, <2>7, <2>8 DEF SteadyParts
  <1>14. CASE ~ForScreen(b)
    <2>1. UNCHANGED <<list, load>> /\ SameMount
      BY <1>3, <1>4, <1>14, ByIs DEF Brought, Unshown
    <2>2. AbortedAreHidden'
      <3> SUFFICES ASSUME NEW k \in aborted PROVE Running(k)' /\ list'[loop'[k].conv] = None
        BY <1>10 DEF AbortedAreHidden
      <3>1. k \in Loops /\ Running(k) /\ list[loop[k].conv] = None
        BY <1>7 DEF AbortedAreHidden, TypeInv, RuntimeT
      <3> QED
        BY <1>8, <2>1, <3>1 DEF SameRuns, SameRun
    <2>3. ShownWillBeStored'
      <3> SUFFICES ASSUME NEW c \in Convs, list'[c] # None PROVE Newer(c)' /\ WillBeStored(c)'
        BY DEF ShownWillBeStored
      <3>1. list[c] # None /\ Newer(c) /\ WillBeStored(c)
        BY <1>7, <2>1 DEF ShownWillBeStored
      <3>2. \A k \in Loops, w \in Workers : ChainedBy(c, k, w) => ChainedBy(c, k, w)'
        <4> SUFFICES ASSUME NEW k \in Loops, NEW w \in Workers, ChainedBy(c, k, w) PROVE ChainedBy(c, k, w)'
          OBVIOUS
        <4>1. worker[k][w].pc = "chained" /\ loop[k].conv = c /\ worker[k][w].ver = list[c].ver /\ Running(k)
          BY InBatch DEF ChainedBy
        <4>2. worker'[k][w] = worker[k][w] /\ loop'[k].conv = c
          BY <1>8, <1>9, <4>1 DEF SameRuns, SameRun
        <4> QED
          BY <2>1, <4>1, <4>2 DEF ChainedBy
      <3> QED
        BY <1>2, <1>6, <2>1, <3>1, <3>2, WrittenOrOnItsWay DEF x
    <2>4. Fresh => Recovered(Visible)' = Recovered(Visible)
      <3>1. Fresh => x.op = "all" /\ x.items = Recovered(Visible)
        BY <1>5, <1>7 DEF FreshHistory
      <3> QED
        BY <1>2, <1>3, <3>1, HistoryIsWritten
    <2>5. Fresh' => Fresh
      BY <1>2, <2>1 DEF Fresh, SameMount, Deletions
    <2>6. FreshHistory'
      BY <1>5, <1>7, <2>4, <2>5 DEF FreshHistory
    <2>7. SavedHistory'
      BY <1>7, <1>12, <2>1, <2>4 DEF SavedHistory
    <2> QED
      BY <1>11, <2>2, <2>3, <2>6, <2>7 DEF SteadyParts
  <1> QED
    BY <1>13, <1>14

\* So does a reload.
LEMMA ReloadKeepsSteady ==
  ASSUME TypeInv, TypeInv', SteadyInv, Reload
  PROVE  SteadyInv'
PROOF
  <1> SUFFICES ASSUME Steady' PROVE SteadyParts'
    BY DEF SteadyInv
  <1>1. Loaded' /\ mine' = mine /\ happened \subseteq happened' /\ used' = used
    BY ReloadLoads DEF Reload, Hazard
  <1>2. mine
    BY <1>1, UsedAre, SteadyBefore DEF SteadyInv, SteadyParts, InSession, Grows
  <1>3. /\ list' = NoItems /\ load'.pc = "off" /\ DOMAIN writes' = {} /\ aborted' = {} /\ live' = TRUE
        /\ \A k \in Loops : loop'[k] = Off
    BY <1>1 DEF Loaded
  <1>4. \A k \in Loops : ~loop'[k].broken
    BY <1>3 DEF Off
  <1>5. \A c \in Convs : list'[c] = None
    BY <1>3 DEF NoItems
  <1> QED
    BY <1>1, <1>2, <1>3, <1>4, <1>5
       DEF SteadyParts, InSession, AbortedAreHidden, ShownWillBeStored, FreshHistory, SavedHistory, InQueue

\* The document is steady initially.
LEMMA InitIsSteady == Init => SteadyInv
PROOF
  <1> SUFFICES ASSUME Init PROVE SteadyParts
    BY DEF SteadyInv
  <1>1. /\ mine /\ live /\ list = NoItems /\ load.pc = "off" /\ DOMAIN writes = {} /\ aborted = {}
        /\ \A k \in Loops : loop[k] = Off
    BY DEF Init
  <1>2. (\A k \in Loops : ~loop[k].broken) /\ \A c \in Convs : list[c] = None
    BY <1>1 DEF Off, NoItems
  <1> QED
    BY <1>1, <1>2
       DEF SteadyParts, InSession, AbortedAreHidden, ShownWillBeStored, FreshHistory, SavedHistory, InQueue

\* Every step keeps the invariant of a steady document.
LEMMA StepKeepsSteady ==
  TypeInv /\ TypeInv' /\ RunsInv /\ HeldInv /\ SteadyInv /\ [Next]_vars => SteadyInv'
PROOF
  <1> SUFFICES ASSUME TypeInv, TypeInv', RunsInv, HeldInv, SteadyInv, [Next]_vars PROVE SteadyInv'
    OBVIOUS
  <1>0. MountsInv /\ HistoryInv /\ KnownInv /\ DeletionsInv
    BY DEF HeldInv
  <1>1. CASE SitsStill \/ GoesAway \/ Open
    BY <1>0, <1>1, SittingKeepsSteady
  <1>2. CASE Clear \/ \E c \in Convs : Submit(c) \/ Delete(c)
    BY <1>0, <1>2, UserKeepsSteady
  <1>3. ASSUME NEW l \in Loops, RunStep(l) PROVE SteadyInv'
    BY <1>0, <1>3, RunKeepsSteady
  <1>4. CASE WriteDone \/ WriteFailed
    BY <1>0, <1>4, WriteOverKeepsSteady
  <1>5. CASE LoadHistory
    BY <1>0, <1>5, LoadHistoryKeepsSteady
  <1>6. CASE Reload
    BY <1>6, ReloadKeepsSteady
  <1> QED
    BY <1>1, <1>2, <1>3, <1>4, <1>5, <1>6, StepCases

\* It holds always, with the invariants before it.
LEMMA SteadyIsHeld == Spec => [](TypeInv /\ RunsInv /\ HeldInv /\ SteadyInv)
PROOF
  <1>1. Spec => [](TypeInv /\ RunsInv /\ HeldInv)
    BY HistoryIsHeld
  <1> QED
    BY <1>1, InitIsSteady, StepKeepsSteady, PTL DEF Spec

\* What is shown when nothing is under way is what a reload would show.
THEOREM ShownIsInTheStore == Spec => []ShownIsStored
PROOF
  <1>1. TypeInv /\ SteadyInv => ShownIsStored
    <2> SUFFICES ASSUME TypeInv, SteadyInv, Quiet, happened \cap {"hasty", "failure", "signout", "logout"} = {},
                        ~ReadBeforeDeletion, NEW c \in Convs, list[c] # None
                 PROVE  stored[c] = list[c]
      BY DEF ShownIsStored
    <2>1. Steady
      BY DEF Steady, Orderly, Patient, Lasting
    <2>2. WillBeStored(c)
      BY <2>1 DEF SteadyInv, SteadyParts, ShownWillBeStored
    <2>3. ~Chained(c)
      BY DEF Quiet, Chained, ChainedBy, TypeInv, WorkerT
    <2>4. ~InTheQueue(c)
      BY DEF Quiet, InTheQueue
    <2> QED
      BY <2>2, <2>3, <2>4 DEF WillBeStored, InTheStore
  <1> QED
    BY <1>1, SteadyIsHeld, PTL

-----------------------------------------------------------------------------
(* Each image is requested once in one session: a turn that is queued      *)
(* where a loop reads, or will read, was not run yet.                      *)

\* The mounts whose ref is read: of the loops that are on, and of the submissions whose save will call the drain.
Submits(x, m) == x.by.kind = "submit" /\ x.by.m = m
Drains(l, m) == On(l) /\ loop[l].mount = m
Reads(m) == (\E l \in Loops : Drains(l, m)) \/ \E x \in InQueue : Submits(x, m)
InRef(m, c, t) == t \in QueuedOf(ref[m][c])
InList(c, t) == t \in QueuedOf(list[c])
QueuedAt(c, t) == InList(c, t) \/ \E m \in Mounts : Reads(m) /\ InRef(m, c, t)

OneDrains == (\A l \in Loops : On(l) => draining) /\ \A k, l \in Loops : On(k) /\ On(l) => k = l
LoadedIsOver == load.pc = "saving" => \A c \in Convs : QueuedOf(load.items[c]) = {}
Unasked(t) == \A i \in Images : asked[t][i] = 0
AheadIsNew == \A t \in Turns : t > used.turns => Unasked(t)
QueuedIsNew == \A c \in Convs, t \in Turns : QueuedAt(c, t) => t <= used.turns /\ Unasked(t)
OneHome == \A c, d \in Convs, t \in Turns : QueuedAt(c, t) /\ QueuedAt(d, t) => c = d

\* A run that may still change its turn: the images it has left were not requested, and its turn is not queued where
\* it could be run again, but for a submission that is written before the run is.
InRun(l) == loop[l].pc \in {"starting", "started", "batch", "final", "finishing", "failing", "failed"}
LeftIsNew(l) == loop[l].turn <= used.turns /\ \A i \in loop[l].left : asked[loop[l].turn][i] = 0
BehindSave(l, j) == loop[l].pc = "starting" /\ \E k \in DOMAIN writes : k > j /\ writes[k].by = [kind |-> "loop", l |-> l]
SubmitsBehind(l, c) ==
    \A j \in DOMAIN writes : writes[j].by.kind = "submit" /\ InRef(writes[j].by.m, c, loop[l].turn) => BehindSave(l, j)
NotQueued(l) ==
    \A c \in Convs : ~InList(c, loop[l].turn) /\ ~InRef(loop[l].mount, c, loop[l].turn) /\ SubmitsBehind(l, c)
RunIsNew(l) == InRun(l) => LeftIsNew(l) /\ NotQueued(l)
RunsAreNew == \A l \in Loops : RunIsNew(l)

OnceParts ==
    /\ live /\ mine /\ OneDrains /\ LoadedIsOver
    /\ AheadIsNew /\ QueuedIsNew /\ OneHome /\ RunsAreNew /\ AskedOnce
OnceInv == OneSession => OnceParts

\* One session after a step is one session before it.
LEMMA OneSessionBefore ==
  ASSUME Grows, OneSession'
  PROVE  OneSession /\ Patient /\ Patient'
  BY PatientBefore DEF Grows, OneSession, Lasting

\* Nothing is queued where it is read that was not so before.
FewerQueued ==
    /\ \A c \in Convs, t \in Turns : InList(c, t)' => InList(c, t)
    /\ \A m \in Mounts, c \in Convs, t \in Turns :
         Reads(m)' /\ InRef(m, c, t)' => InList(c, t) \/ (Reads(m) /\ InRef(m, c, t))

\* Then what is queued stays new, as long as nothing is requested.
LEMMA QueuedStaysNew ==
  ASSUME FewerQueued, UNCHANGED <<asked, used>>, AheadIsNew, QueuedIsNew, OneHome, AskedOnce
  PROVE  AheadIsNew' /\ QueuedIsNew' /\ OneHome' /\ AskedOnce'
PROOF
  <1>1. \A c \in Convs, t \in Turns : QueuedAt(c, t)' => QueuedAt(c, t)
    BY DEF FewerQueued, QueuedAt
  <1>2. \A t \in Turns : Unasked(t)' <=> Unasked(t)
    BY DEF Unasked
  <1> QED
    BY <1>1, <1>2 DEF AheadIsNew, QueuedIsNew, OneHome, AskedOnce

\* What a step does to where the turn of a run is queued.
Unqueued(l) ==
    LET t == loop[l].turn IN
    /\ \A c \in Convs : InList(c, t)' => InList(c, t)
    /\ \A m \in Mounts, c \in Convs : InRef(m, c, t)' => InList(c, t) \/ InRef(m, c, t)

\* A run keeps its turn from being queued while the queue of writes is as it was, ...
LEMMA NotQueuedStays ==
  ASSUME TypeInv, NEW l \in Loops, NotQueued(l), loop[l].mount \in Mounts, loop'[l].mount = loop[l].mount,
         loop'[l].turn = loop[l].turn, loop[l].pc = "starting" => loop'[l].pc = "starting",
         Unqueued(l), UNCHANGED writes
  PROVE  NotQueued(l)'
PROOF
  <1> SUFFICES ASSUME NEW c \in Convs
               PROVE  ~InList(c, loop[l].turn)' /\ ~InRef(loop[l].mount, c, loop[l].turn)' /\ SubmitsBehind(l, c)'
    BY DEF NotQueued
  <1>1. ~InList(c, loop[l].turn) /\ ~InRef(loop[l].mount, c, loop[l].turn) /\ SubmitsBehind(l, c)
    BY DEF NotQueued
  <1>2. SubmitsBehind(l, c)'
    <2> SUFFICES ASSUME NEW j \in DOMAIN writes, writes[j].by.kind = "submit", InRef(writes[j].by.m, c, loop[l].turn)'
                 PROVE  BehindSave(l, j)'
      BY DEF SubmitsBehind
    <2>1. writes[j].by.m \in Mounts
      BY WriteIs, ByIs DEF TypeInv, PendingT
    <2> QED
      BY <1>1, <2>1 DEF Unqueued, SubmitsBehind, BehindSave, InRef
  <1> QED
    BY <1>1, <1>2 DEF Unqueued, InList, InRef

\* ... and when a write is appended that is no submission with its turn queued, ...
LEMMA NotQueuedGrows ==
  ASSUME TypeInv, NEW l \in Loops, NotQueued(l), loop[l].mount \in Mounts, loop'[l].mount = loop[l].mount,
         loop'[l].turn = loop[l].turn, loop[l].pc = "starting" => loop'[l].pc = "starting",
         Unqueued(l), NEW x \in Writes, writes' = Append(writes, x),
         x.by.kind = "submit" => \A c \in Convs : ~InRef(x.by.m, c, loop[l].turn)'
  PROVE  NotQueued(l)'
PROOF
  <1> SUFFICES ASSUME NEW c \in Convs
               PROVE  ~InList(c, loop[l].turn)' /\ ~InRef(loop[l].mount, c, loop[l].turn)' /\ SubmitsBehind(l, c)'
    BY DEF NotQueued
  <1>1. ~InList(c, loop[l].turn) /\ ~InRef(loop[l].mount, c, loop[l].turn) /\ SubmitsBehind(l, c)
    BY DEF NotQueued
  <1>2. /\ DOMAIN writes = 1 .. Len(writes) /\ DOMAIN writes' = 1 .. Len(writes) + 1 /\ Len(writes) \in Nat
        /\ (\A k \in DOMAIN writes : writes'[k] = writes[k]) /\ writes'[Len(writes) + 1] = x
    BY QueueGrows DEF TypeInv
  <1>3. SubmitsBehind(l, c)'
    <2> SUFFICES ASSUME NEW j \in DOMAIN writes', writes'[j].by.kind = "submit", InRef(writes[j].by.m, c, loop[l].turn)'
                 PROVE  BehindSave(l, j)'
      BY DEF SubmitsBehind
    <2>1. j # Len(writes) + 1
      BY <1>2 DEF InRef
    <2>2. j \in DOMAIN writes /\ writes'[j] = writes[j]
      BY <1>2, <2>1
    <2>3. writes[j].by.m \in Mounts
      BY <2>2, WriteIs, ByIs DEF TypeInv, PendingT
    <2>4. BehindSave(l, j)
      BY <1>1, <2>2, <2>3 DEF Unqueued, SubmitsBehind, InRef
    <2>5. \A k \in DOMAIN writes : k \in DOMAIN writes' /\ writes'[k] = writes[k]
      BY <1>2
    <2> QED
      BY <2>4, <2>5 DEF BehindSave
  <1> QED
    BY <1>1, <1>3 DEF Unqueued, InList, InRef

\* ... and when the first write is over.
LEMMA NotQueuedShrinks ==
  ASSUME TypeInv, NEW l \in Loops, NotQueued(l), loop[l].mount \in Mounts, loop'[l].mount = loop[l].mount,
         loop'[l].turn = loop[l].turn,
         loop[l].pc = "starting" => loop'[l].pc = "starting" \/ Head(writes).by = [kind |-> "loop", l |-> l],
         Unqueued(l), writes # <<>>, writes' = Tail(writes)
  PROVE  NotQueued(l)'
PROOF
  <1> SUFFICES ASSUME NEW c \in Convs
               PROVE  ~InList(c, loop[l].turn)' /\ ~InRef(loop[l].mount, c, loop[l].turn)' /\ SubmitsBehind(l, c)'
    BY DEF NotQueued
  <1>1. ~InList(c, loop[l].turn) /\ ~InRef(loop[l].mount, c, loop[l].turn) /\ SubmitsBehind(l, c)
    BY DEF NotQueued
  <1>2. /\ Head(writes) = writes[1] /\ 1 \in DOMAIN writes
        /\ \A k \in DOMAIN writes' : k \in Nat /\ k + 1 \in DOMAIN writes /\ k + 1 > 1 /\ writes'[k] = writes[k + 1]
        /\ \A k \in DOMAIN writes : k \in Nat /\ (k # 1 => k - 1 \in DOMAIN writes' /\ writes[k] = writes'[k - 1])
    BY QueueShrinks DEF TypeInv
  <1>3. SubmitsBehind(l, c)'
    <2> SUFFICES ASSUME NEW j \in DOMAIN writes', writes'[j].by.kind = "submit", InRef(writes[j].by.m, c, loop[l].turn)'
                 PROVE  BehindSave(l, j)'
      BY DEF SubmitsBehind
    <2>1. PICK i \in DOMAIN writes : i = j + 1 /\ i > 1 /\ j \in Nat /\ writes'[j] = writes[i]
      BY <1>2
    <2>2. writes[i].by.m \in Mounts
      BY <2>1, WriteIs, ByIs DEF TypeInv, PendingT
    <2>3. BehindSave(l, i)
      BY <1>1, <2>1, <2>2 DEF Unqueued, SubmitsBehind, InRef
    <2>4. PICK k \in DOMAIN writes : k > i /\ writes[k].by = [kind |-> "loop", l |-> l]
      BY <2>3 DEF BehindSave
    <2>5. k # 1 /\ k \in Nat /\ k - 1 \in DOMAIN writes' /\ writes[k] = writes'[k - 1] /\ k - 1 > j
      BY <1>2, <2>1, <2>4
    <2>6. writes[1].by # writes[k].by
      <3>1. \A i1, i2 \in DOMAIN writes :
              i1 # i2 /\ writes[i1].by.kind \in {"loop", "worker"} => writes[i1].by # writes[i2].by
        BY DEF TypeInv, PendingT
      <3>2. writes[k].by.kind = "loop"
        BY <2>4
      <3>3. k \in DOMAIN writes /\ 1 \in DOMAIN writes /\ k # 1
        BY <1>2, <2>4, <2>5
      <3> QED
        BY <3>1, <3>2, <3>3
    <2>7. loop'[l].pc = "starting"
      BY <1>2, <2>3, <2>4, <2>6 DEF BehindSave
    <2> QED
      BY <2>4, <2>5, <2>7 DEF BehindSave
  <1> QED
    BY <1>1, <1>3 DEF Unqueued, InList, InRef

\* What becomes of a loop in a step that enters no conversation.
StillRuns(l) == InRun(l)' => InRun(l) /\ Stays(l) /\ loop'[l].left \subseteq loop[l].left
KeepsStarting(l) == loop[l].pc = "starting" => loop'[l].pc = "starting"

\* A step that requests nothing leaves new runs new, ...
LEMMA LeftStaysNew ==
  ASSUME NEW l \in Loops, RunIsNew(l), StillRuns(l), UNCHANGED asked, TypeInv, TypeInv', used'.turns >= used.turns
  PROVE  InRun(l)' => LeftIsNew(l)'
PROOF
  <1> SUFFICES ASSUME InRun(l)' PROVE LeftIsNew(l)'
    OBVIOUS
  <1>1. InRun(l) /\ Stays(l) /\ loop'[l].left \subseteq loop[l].left /\ LeftIsNew(l)
    BY DEF StillRuns, RunIsNew
  <1>2. loop[l].turn \in Nat /\ used.turns \in Nat /\ used'.turns \in Nat
    BY <1>1 DEF TypeInv, LoopT, Running, InRun, CountsT, Turns
  <1> QED
    BY <1>1, <1>2 DEF LeftIsNew, Stays

\* ... whether nothing is written, ...
LEMMA RunStaysNew ==
  ASSUME NEW l \in Loops, RunIsNew(l), StillRuns(l), InRun(l)' => LeftIsNew(l)', TypeInv, TypeInv', Unqueued(l),
         KeepsStarting(l), UNCHANGED writes
  PROVE  RunIsNew(l)'
PROOF
  <1> SUFFICES ASSUME InRun(l)' PROVE NotQueued(l)'
    BY DEF RunIsNew
  <1>1. InRun(l) /\ Stays(l) /\ NotQueued(l)
    BY DEF StillRuns, RunIsNew
  <1>2. loop[l].mount \in Mounts
    BY <1>1 DEF TypeInv, LoopT, InRun
  <1> QED
    BY <1>1, <1>2, NotQueuedStays DEF Stays, KeepsStarting

\* ... or something other than a submission with the turn queued, ...
LEMMA RunStaysNewWriting ==
  ASSUME NEW l \in Loops, RunIsNew(l), StillRuns(l), InRun(l)' => LeftIsNew(l)', TypeInv, TypeInv', Unqueued(l),
         KeepsStarting(l), NEW x \in Writes, writes' = Append(writes, x),
         InRun(l) /\ x.by.kind = "submit" => \A c \in Convs : ~InRef(x.by.m, c, loop[l].turn)'
  PROVE  RunIsNew(l)'
PROOF
  <1> SUFFICES ASSUME InRun(l)' PROVE NotQueued(l)'
    BY DEF RunIsNew
  <1>1. InRun(l) /\ Stays(l) /\ NotQueued(l)
    BY DEF StillRuns, RunIsNew
  <1>2. loop[l].mount \in Mounts
    BY <1>1 DEF TypeInv, LoopT, InRun
  <1>3. x.by.kind = "submit" => \A c \in Convs : ~InRef(x.by.m, c, loop[l].turn)'
    BY <1>1
  <1> QED
    BY <1>1, <1>2, <1>3, NotQueuedGrows DEF Stays, KeepsStarting

\* ... or a write is over, for which the run waits or not.
LEMMA RunStaysNewWritten ==
  ASSUME NEW l \in Loops, RunIsNew(l), StillRuns(l), InRun(l)' => LeftIsNew(l)', TypeInv, TypeInv', Unqueued(l),
         KeepsStarting(l) \/ Head(writes).by = [kind |-> "loop", l |-> l], writes # <<>>, writes' = Tail(writes)
  PROVE  RunIsNew(l)'
PROOF
  <1> SUFFICES ASSUME InRun(l)' PROVE NotQueued(l)'
    BY DEF RunIsNew
  <1>1. InRun(l) /\ Stays(l) /\ NotQueued(l)
    BY DEF StillRuns, RunIsNew
  <1>2. loop[l].mount \in Mounts
    BY <1>1 DEF TypeInv, LoopT, InRun
  <1>3. loop[l].pc = "starting" => loop'[l].pc = "starting" \/ Head(writes).by = [kind |-> "loop", l |-> l]
    BY DEF KeepsStarting
  <1> QED
    BY <1>1, <1>2, <1>3, NotQueuedShrinks DEF Stays

\* A step in the middle of a run keeps the run, and none of it is the save that starts it.
LEMMA MidRunStays ==
  ASSUME TypeInv, NEW l \in Loops, MidRun(l)
  PROVE  /\ OnlyLoop(l) /\ On(l) /\ On(l)' /\ Stays(l) /\ loop'[l].left \subseteq loop[l].left
         /\ loop[l].pc # "starting" /\ (InRun(l)' => InRun(l))
PROOF
  <1>1. CASE LoopTurnedAway(l) \/ LoopQuota(l) \/ LoopDisowned(l)
    <2>1. PICK p \in {"pick", "ended"} : loop' = [loop EXCEPT ![l].pc = p]
      BY <1>1 DEF LoopTurnedAway, LoopQuota, LoopDisowned
    <2>2. OnlyLoop(l) /\ Stays(l) /\ loop'[l].left = loop[l].left /\ loop'[l].pc = p
      BY <2>1, PcDoes DEF TypeInv
    <2>3. loop[l].pc \in {"enter", "quota", "started", "final", "failing"}
      BY <1>1 DEF LoopTurnedAway, LoopQuota, LoopDisowned
    <2> QED
      BY <2>2, <2>3 DEF On, InRun
  <1>2. CASE LoopBatch(l)
    BY <1>2, BatchDoes DEF TypeInv, LoopBatch, On, InRun
  <1>3. CASE LoopJoin(l)
    <2>1. \/ \E p \in {"failing", "final"} : At(l, p)
          \/ loop' = [loop EXCEPT ![l].pc = "ended"]
      BY <1>3 DEF LoopJoin
    <2>2. loop[l].pc = "batch"
      BY <1>3 DEF LoopJoin
    <2> QED
      BY <2>1, <2>2, AtDoes, PcDoes DEF TypeInv, On, InRun
  <1>4. ASSUME NEW pc \in {"final", "failing"}, NEW next \in {"finishing", "failed"}, NEW conv, SettlesAs(l, pc, next, conv)
        PROVE  /\ OnlyLoop(l) /\ On(l) /\ On(l)' /\ Stays(l) /\ loop'[l].left \subseteq loop[l].left
               /\ loop[l].pc # "starting" /\ (InRun(l)' => InRun(l))
    <2>1. \/ \E p \in {"quota", "ended"} : At(l, p)
          \/ \E p \in {next, "ended"} : loop' = [loop EXCEPT ![l].pc = p, ![l].thrown = FALSE]
      BY <1>4 DEF SettlesAs
    <2>2. loop[l].pc = pc
      BY <1>4 DEF SettlesAs
    <2> QED
      BY <2>1, <2>2, AtDoes, PcThrownDoes DEF TypeInv, On, InRun
  <1>5. CASE LoopFinal(l) \/ LoopFail(l)
    BY <1>4, <1>5, SettledIs
  <1>6. ASSUME NEW w \in Workers, WorkerStep(l, w)
        PROVE  /\ OnlyLoop(l) /\ On(l) /\ On(l)' /\ Stays(l) /\ loop'[l].left \subseteq loop[l].left
               /\ loop[l].pc # "starting" /\ (InRun(l)' => InRun(l))
    <2>1. Marked(l)
      BY <1>6, WorkerLeavesLoop
    <2>2. worker[l][w].pc # "done"
      BY <1>6 DEF WorkerStep, WorkerTake, WorkerStop, WorkerAnswered, WorkerPut, WorkerLate, WorkerSave, WorkerChainBroken
    <2>3. loop[l].pc = "batch"
      BY <2>2, InBatch
    <2> QED
      BY <2>1, <2>3 DEF Marked, On, InRun
  <1> QED
    BY <1>1, <1>2, <1>3, <1>5, <1>6 DEF MidRun

\* A step of a loop leaves it where its mount is, or off.
LEMMA RunStaysOnMount ==
  ASSUME TypeInv, NEW l \in Loops, RunStep(l)
  PROVE  OnlyLoop(l) /\ On(l) /\ (On(l)' => loop'[l].mount = loop[l].mount)
PROOF
  <1>1. OnlyLoop(l) /\ On(l)
    BY RunStepMoves, RestingOnlyPicks DEF RunMoves, Busy, On, LoopPick
  <1>2. CASE LoopPick(l)
    <2>1. CASE loop' = [loop EXCEPT ![l] = Off]
      BY <1>1, <2>1, RecordDoes, OffIs DEF TypeInv, On
    <2>2. ASSUME NEW c \in Convs, loop' = [loop EXCEPT ![l].pc = "enter", ![l].conv = c, ![l].asking = live]
          PROVE  loop'[l].mount = loop[l].mount
      BY <2>2, PickSets DEF TypeInv
    <2> QED
      BY <1>1, <1>2, <2>1, <2>2 DEF LoopPick, On
  <1>3. CASE LoopEnter(l)
    BY <1>1, <1>3, EnterSets DEF TypeInv
  <1>4. CASE LoopEnd(l)
    BY <1>1, <1>4, EndSets DEF TypeInv, On
  <1>5. CASE MidRun(l)
    BY <1>1, <1>5, MidRunStays DEF Stays
  <1> QED
    BY <1>1, <1>2, <1>3, <1>4, <1>5 DEF RunStep

\* What is shown comes from the conversations in memory, where nothing more is queued than before.
LEMMA EditsQueueLess ==
  ASSUME TypeInv, \A c \in Convs : QueuedOf(list'[c]) \subseteq QueuedOf(list[c]),
         \A m \in Mounts, c \in Convs : ref'[m][c] = list'[c] \/ ref'[m][c] = ref[m][c]
  PROVE  /\ \A k \in Loops : loop'[k].turn = loop[k].turn => Unqueued(k)
         /\ (\A m \in Mounts : Reads(m)' => Reads(m) \/ ref'[m] = list') => FewerQueued
PROOF
  <1>1. ASSUME NEW k \in Loops, loop'[k].turn = loop[k].turn PROVE Unqueued(k)
    <2>1. \A c \in Convs : loop'[k].turn \in QueuedOf(list'[c]) => loop[k].turn \in QueuedOf(list[c])
      BY <1>1
    <2>2. \A m \in Mounts, c \in Convs : loop'[k].turn \in QueuedOf(ref'[m][c]) =>
            loop[k].turn \in QueuedOf(list[c]) \/ loop[k].turn \in QueuedOf(ref[m][c])
      BY <1>1
    <2> QED
      BY <2>1, <2>2 DEF Unqueued, InList, InRef
  <1>2. ASSUME \A m \in Mounts : Reads(m)' => Reads(m) \/ ref'[m] = list' PROVE FewerQueued
    <2>1. ASSUME NEW c \in Convs, NEW t \in Turns, InList(c, t)' PROVE InList(c, t)
      BY <2>1 DEF InList
    <2>2. ASSUME NEW m \in Mounts, NEW c \in Convs, NEW t \in Turns, Reads(m)', InRef(m, c, t)'
          PROVE  InList(c, t) \/ (Reads(m) /\ InRef(m, c, t))
      <3>1. t \in QueuedOf(ref'[m][c])
        BY <2>2 DEF InRef
      <3>2. CASE ref'[m][c] = list'[c]
        BY <3>1, <3>2 DEF InList
      <3>3. CASE ref'[m][c] # list'[c]
        BY <1>2, <2>2, <3>1, <3>3 DEF InRef
      <3> QED
        BY <3>2, <3>3
    <2> QED
      BY <2>1, <2>2 DEF FewerQueued
  <1> QED
    BY <1>1, <1>2

\* Editing queues nothing, so that a step of a loop queues nothing.
LEMMA RunQueuesLess ==
  ASSUME TypeInv, TypeInv', NEW l \in Loops, RunStep(l)
  PROVE  FewerQueued /\ \A k \in Loops : loop'[k].turn = loop[k].turn => Unqueued(k)
PROOF
  <1>1. RunLeaves(l)
    BY RunStepLeaves
  <1>2. \A c \in Convs : QueuedOf(list'[c]) \subseteq QueuedOf(list[c])
    <2>1. CASE UNCHANGED <<list, ref>>
      BY <2>1
    <2>2. CASE /\ EditOf(list'[loop[l].conv], list[loop[l].conv]) /\ loop[l].conv \in Convs
               /\ list' = [list EXCEPT ![loop[l].conv] = list'[loop[l].conv]]
      <3>1. \A c \in Convs : c # loop[l].conv => list'[c] = list[c]
        BY <2>2 DEF TypeInv, MemoryT, ItemsT
      <3> QED
        BY <2>2, <3>1 DEF EditOf
    <2> QED
      BY <1>1, <2>1, <2>2 DEF RunLeaves
  <1>3. \A m \in Mounts, c \in Convs : ref'[m][c] = list'[c] \/ ref'[m][c] = ref[m][c]
    BY <1>1 DEF RunLeaves
  <1>6. \A m \in Mounts : Reads(m)' => Reads(m)
    <2>1. OnlyLoop(l) /\ On(l) /\ (On(l)' => loop'[l].mount = loop[l].mount)
      BY RunStaysOnMount
    <2>2. \A k \in Loops, m \in Mounts : Drains(k, m)' => Drains(k, m)
      BY <2>1 DEF OnlyLoop, Drains, On
    <2>3. \A x \in InQueue' : x \in InQueue \/ x.by.kind # "submit"
      BY <1>1, QueueGrows DEF TypeInv, RunLeaves, SaveBy, InQueue
    <2>4. \A x : \A m : Submits(x, m) => x.by.kind = "submit"
      BY DEF Submits
    <2> SUFFICES ASSUME NEW m \in Mounts, Reads(m)' PROVE Reads(m)
      OBVIOUS
    <2>5. (\E k \in Loops : Drains(k, m)') \/ \E x \in InQueue' : Submits(x, m)
      BY DEF Reads, Submits
    <2> QED
      BY <2>2, <2>3, <2>4, <2>5 DEF Reads
  <1> QED
    BY <1>2, <1>3, <1>6, EditsQueueLess

\* While the session lasts, a loop that is on holds the flag.
LEMMA RunHoldsFlag ==
  ASSUME TypeInv, NEW l \in Loops, RunStep(l), mine, draining
  PROVE  On(l)' => draining'
PROOF
  <1> SUFFICES ASSUME On(l)' PROVE draining'
    OBVIOUS
  <1>1. CASE LoopPick(l)
    <2>1. loop' # [loop EXCEPT ![l] = Off]
      BY RecordDoes, OffIs DEF TypeInv, On
    <2> QED
      BY <1>1, <2>1 DEF LoopPick
  <1>2. CASE LoopEnter(l)
    BY <1>2 DEF LoopEnter
  <1>3. CASE LoopEnd(l)
    <2>1. ~loop[l].thrown
      BY <1>3, EndSets DEF TypeInv, On
    <2> QED
      BY <1>3, <2>1 DEF LoopEnd
  <1>4. CASE LoopTurnedAway(l) \/ LoopQuota(l) \/ LoopDisowned(l)
    BY <1>4 DEF LoopTurnedAway, LoopQuota, LoopDisowned, Evict, runtime
  <1>5. CASE LoopBatch(l) \/ LoopJoin(l)
    BY <1>5 DEF LoopBatch, LoopJoin, runtime
  <1>6. CASE LoopFinal(l) \/ LoopFail(l)
    BY <1>6, SettledIs DEF SettlesAs, runtime
  <1>7. ASSUME NEW w \in Workers, WorkerStep(l, w) PROVE draining'
    BY <1>7 DEF WorkerStep, WorkerTake, WorkerStop, WorkerAnswered, WorkerPut, WorkerLate, WorkerSave,
                WorkerChainBroken, Evict, runtime
  <1> QED
    BY <1>1, <1>2, <1>3, <1>4, <1>5, <1>6, <1>7 DEF RunStep, MidRun

\* With one loop on, the others have no run.
LEMMA OneLoopRuns ==
  ASSUME OneDrains, NEW l \in Loops, On(l), OnlyLoop(l)
  PROVE  /\ \A k \in Loops \ {l} : ~On(k) /\ ~On(k)' /\ ~InRun(k) /\ ~InRun(k)'
         /\ (On(l)' => draining') => OneDrains'
PROOF
  <1>1. \A k \in Loops \ {l} : loop[k].pc = "off" /\ loop'[k].pc = "off"
    BY DEF OneDrains, OnlyLoop, On
  <1>2. \A k \in Loops \ {l} : ~On(k) /\ ~On(k)' /\ ~InRun(k) /\ ~InRun(k)'
    BY <1>1 DEF On, InRun
  <1> QED
    BY <1>2 DEF OneDrains

\* A run of the only loop, whose save is written or was not due, has its turn queued nowhere.
LEMMA RunIsAlone ==
  ASSUME TypeInv, OneDrains, NEW l \in Loops, On(l), RunIsNew(l), InRun(l), loop[l].pc # "starting"
  PROVE  \A c \in Convs : ~QueuedAt(c, loop[l].turn)
PROOF
  <1> SUFFICES ASSUME NEW c \in Convs, QueuedAt(c, loop[l].turn) PROVE FALSE
    OBVIOUS
  <1>1. ~InList(c, loop[l].turn) /\ ~InRef(loop[l].mount, c, loop[l].turn) /\ SubmitsBehind(l, c)
    BY DEF RunIsNew, NotQueued
  <1>2. PICK m \in Mounts : Reads(m) /\ InRef(m, c, loop[l].turn)
    BY <1>1 DEF QueuedAt
  <1>3. \A k \in Loops : ~Drains(k, m)
    BY <1>1, <1>2 DEF Drains, OneDrains
  <1>4. PICK j \in DOMAIN writes : Submits(writes[j], m)
    BY <1>2, <1>3 DEF Reads, InQueue
  <1>5. BehindSave(l, j)
    BY <1>1, <1>2, <1>4 DEF SubmitsBehind, Submits
  <1> QED
    BY <1>5 DEF BehindSave

\* Requesting an image of the run is the first time.
LEMMA TakeKeepsNew ==
  ASSUME TypeInv, TypeInv', OneDrains, NEW l \in Loops, NEW w \in Workers, WorkerTake(l, w), FewerQueued,
         AheadIsNew, QueuedIsNew, OneHome, AskedOnce, RunIsNew(l)
  PROVE  AheadIsNew' /\ QueuedIsNew' /\ OneHome' /\ AskedOnce' /\ (InRun(l)' => LeftIsNew(l)')
PROOF
  <1> DEFINE u == loop[l].turn
  <1>1. worker[l][w].pc = "ask" /\ UNCHANGED used
    BY TakeIs
  <1>2. loop[l].pc = "batch" /\ Running(l) /\ u \in Turns
    BY <1>1, InBatch
  <1>3. InRun(l) /\ On(l) /\ loop[l].pc # "starting"
    BY <1>2 DEF InRun, On
  <1>4. \A c \in Convs : ~QueuedAt(c, u)
    BY <1>3, RunIsAlone
  <1>5. \A c \in Convs, t \in Turns : QueuedAt(c, t)' => QueuedAt(c, t)
    BY DEF FewerQueued, QueuedAt
  <1>6. LeftIsNew(l) /\ Marked(l)
    <2>1. Marked(l)
      BY WorkerLeavesLoop DEF WorkerStep
    <2> QED
      BY <1>3, <2>1 DEF RunIsNew
  <1>7. u \in Nat /\ used.turns \in Nat /\ u <= used.turns
    BY <1>2, <1>6 DEF LeftIsNew, Turns, TypeInv, CountsT
  <1>8. CASE UNCHANGED <<loop, asked>>
    <2>1. \A t \in Turns : Unasked(t)' <=> Unasked(t)
      BY <1>8 DEF Unasked
    <2>2. AheadIsNew' /\ QueuedIsNew' /\ OneHome'
      BY <1>1, <1>5, <2>1 DEF AheadIsNew, QueuedIsNew, OneHome
    <2>3. AskedOnce' /\ LeftIsNew(l)'
      BY <1>1, <1>6, <1>8 DEF AskedOnce, LeftIsNew
    <2> QED
      BY <2>2, <2>3
  <1>9. CASE Takes(l, w)
    <2> DEFINE i == NextImage(l)
    <2>1. i \in loop[l].left /\ i \in Images /\ loop'[l].left = loop[l].left \ {i}
      BY <1>9, NextImageIs, TakesDoes DEF Takes
    <2>2. asked[u][i] = 0
      BY <1>6, <2>1 DEF LeftIsNew
    <2>3. asked' = [asked EXCEPT ![u][i] = @ + 1]
      BY <1>9 DEF Takes
    <2> HIDE DEF i, u
    <2>4. /\ \A t \in Turns, j \in Images : t # u \/ j # i => asked'[t][j] = asked[t][j]
          /\ asked'[u][i] = 1
      BY <1>2, <2>1, <2>2, <2>3 DEF TypeInv, CountsT
    <2>5. \A t \in Turns : t # u => (Unasked(t)' <=> Unasked(t))
      BY <2>4 DEF Unasked
    <2>6. AheadIsNew'
      BY <1>1, <1>7, <2>5 DEF AheadIsNew
    <2>7. QueuedIsNew' /\ OneHome'
      BY <1>1, <1>4, <1>5, <2>5 DEF QueuedIsNew, OneHome
    <2>8. AskedOnce'
      BY <2>4 DEF AskedOnce
    <2>9. loop'[l].turn = u
      BY <1>6 DEF Marked, Stays, u
    <2>10. \A j \in loop[l].left : j \in Images /\ asked[u][j] = 0
      BY <1>6, <1>2 DEF LeftIsNew, u, TypeInv, LoopT
    <2>11. LeftIsNew(l)'
      <3>1. \A j \in loop'[l].left : asked'[loop'[l].turn][j] = 0
        BY <1>2, <2>1, <2>4, <2>9, <2>10
      <3> QED
        BY <1>1, <1>7, <2>9, <3>1 DEF LeftIsNew
    <2> QED
      BY <2>6, <2>7, <2>8, <2>11
  <1> QED
    BY <1>8, <1>9, TakeIs DEF FindsNone

\* A turn that is queued where the loop reads has an image to run: it is new, and is taken from every queue.
LEMMA EnterIsNew ==
  ASSUME TypeInv, TypeInv', NEW l \in Loops, LoopEnter(l), QueuedIsNew, OneHome
  PROVE  RunIsNew(l)'
PROOF
  <1> DEFINE c == loop[l].conv
             m == loop[l].mount
             t == EnteredTurn(l).id
             conv == Edited(list[c], t, Generating)
  <1>1. /\ loop[l].pc = "enter" /\ HasQueued(ref[m][c]) /\ UNCHANGED <<asked, used>>
        /\ list[c] = None \/ (Put(m, c, conv) /\ writes' = Save(c, conv, [kind |-> "loop", l |-> l]))
    BY DEF LoopEnter, Startable, EnteredTurn
  <1>2. c \in Convs /\ m \in Mounts
    BY <1>1 DEF TypeInv, LoopT
  <1>3. /\ loop'[l].pc = (IF list[c] = None THEN "ended" ELSE "starting")
        /\ loop'[l].turn = t /\ loop'[l].mount = m
    BY EnterSets DEF TypeInv
  <1> SUFFICES ASSUME list[c] # None PROVE RunIsNew(l)'
    BY <1>3 DEF RunIsNew, InRun
  <1>4. t \in QueuedOf(ref[m][c]) /\ t \in Turns
    <2>1. ref[m][c] \in Conversation /\ ref[m][c] # None
      BY <1>1, <1>2 DEF HasQueued, TypeInv, MemoryT, ItemsT
    <2>2. /\ FirstQueued(ref[m][c]) \in Turn /\ FirstQueued(ref[m][c]).status = "queued"
          /\ \E k \in DOMAIN ref[m][c].turns : ref[m][c].turns[k] = FirstQueued(ref[m][c])
      BY <1>1, <2>1, FirstQueuedIs
    <2>3. t = FirstQueued(ref[m][c]).id
      BY DEF EnteredTurn
    <2> QED
      BY <2>1, <2>2, <2>3, TurnIs DEF QueuedOf
  <1>5. QueuedAt(c, t)
    <2>1. Drains(l, m)
      BY <1>1 DEF Drains, On
    <2> QED
      BY <1>2, <1>4, <2>1 DEF QueuedAt, Reads, InRef
  <1>6. t <= used.turns /\ Unasked(t)
    BY <1>2, <1>4, <1>5 DEF QueuedIsNew
  <1>7. list[c] \in Conversation
    BY <1>2 DEF TypeInv, MemoryT, ItemsT
  <1>8. conv \in Conversation /\ t \notin QueuedOf(conv)
    BY <1>7, ConversationsMade, EditsAre
  <1> HIDE DEF c, m, t, conv
  <1>9. list' = [list EXCEPT ![c] = conv] /\ ref'[m] = list'
    <2>1. Put(m, c, conv) /\ MemoryT /\ conv \in Conversation \cup {None}
      BY <1>1, <1>8 DEF TypeInv
    <2>2. list' = [list EXCEPT ![c] = conv] /\ \A k \in Mounts : ref'[k] = IF k = m \/ k = page.mount THEN list' ELSE ref[k]
      BY <1>2, <2>1, PutDoes
    <2> QED
      BY <1>2, <2>2
  <1>10. \A d \in Convs : t \notin QueuedOf(list'[d])
    <2>1. t \notin QueuedOf(list'[c])
      BY <1>2, <1>8, <1>9 DEF TypeInv, MemoryT, ItemsT
    <2>2. ASSUME NEW d \in Convs, d # c PROVE t \notin QueuedOf(list'[d])
      <3>1. list'[d] = list[d]
        BY <1>2, <1>9, <2>2 DEF TypeInv, MemoryT, ItemsT
      <3>2. ~QueuedAt(d, t)
        BY <1>2, <1>4, <1>5, <2>2 DEF OneHome
      <3> QED
        BY <3>1, <3>2 DEF QueuedAt, InList
    <2> QED
      BY <2>1, <2>2
  <1>11. LeftIsNew(l)'
    <2>1. loop'[l].left \subseteq Images
      BY DEF TypeInv, LoopT
    <2> QED
      BY <1>1, <1>3, <1>6, <2>1 DEF LeftIsNew, Unasked, t
  <1>12. ASSUME NEW d \in Convs
         PROVE  ~InList(d, loop[l].turn)' /\ ~InRef(loop[l].mount, d, loop[l].turn)' /\ SubmitsBehind(l, d)'
    <2>1. ~InList(d, loop[l].turn)' /\ ~InRef(loop[l].mount, d, loop[l].turn)'
      <3>1. ref'[m][d] = list'[d]
        BY <1>9
      <3>2. loop'[l].turn \notin QueuedOf(list'[d]) /\ loop'[l].turn \notin QueuedOf(ref'[loop'[l].mount][d])
        BY <1>3, <1>10, <3>1 DEF m, t
      <3> QED
        BY <3>2 DEF InList, InRef
    <2>2. PICK x \in Writes : writes' = Append(writes, x) /\ x.by = [kind |-> "loop", l |-> l]
      <3>1. [kind |-> "loop", l |-> l] \in Bys
        BY DEF Bys
      <3>2. writes' = Save(c, conv, [kind |-> "loop", l |-> l])
        BY <1>1
      <3>3. \E x \in Writes : Saved(x, c, conv, [kind |-> "loop", l |-> l])
        BY <1>2, <1>8, <3>1, <3>2, SaveDoes
      <3> QED
        BY <3>3 DEF Saved
    <2>3. /\ DOMAIN writes = 1 .. Len(writes) /\ DOMAIN writes' = 1 .. Len(writes) + 1 /\ Len(writes) \in Nat
          /\ writes'[Len(writes) + 1] = x
      BY <2>2, QueueGrows DEF TypeInv
    <2>4. SubmitsBehind(l, d)'
      <3> SUFFICES ASSUME NEW j \in DOMAIN writes', writes'[j].by.kind = "submit" PROVE BehindSave(l, j)'
        BY DEF SubmitsBehind
      <3>1. j # Len(writes) + 1
        BY <2>2, <2>3
      <3>2. Len(writes) + 1 > j /\ Len(writes) + 1 \in DOMAIN writes'
        BY <2>3, <3>1
      <3>3. loop'[l].pc = "starting"
        BY <1>3 DEF c
      <3> QED
        BY <2>2, <2>3, <3>2, <3>3 DEF BehindSave
    <2> QED
      BY <2>1, <2>4
  <1> QED
    BY <1>11, <1>12 DEF RunIsNew, NotQueued

\* A step of a loop keeps it all.
LEMMA RunKeepsOnce ==
  ASSUME TypeInv, TypeInv', OnceInv, NEW l \in Loops, RunStep(l)
  PROVE  OnceInv'
PROOF
  <1> SUFFICES ASSUME OneSession' PROVE OnceParts'
    BY DEF OnceInv
  <1>1. UNCHANGED Elsewhere
    BY RunStepLeaves
  <1>2. OnceParts
    <2>1. Grows
      BY <1>1, UsedAre DEF Elsewhere, Grows
    <2> QED
      BY <2>1, OneSessionBefore DEF OnceInv
  <1>3. live /\ mine /\ OneDrains /\ LoadedIsOver /\ AheadIsNew /\ QueuedIsNew /\ OneHome /\ RunIsNew(l) /\ AskedOnce
    BY <1>2 DEF OnceParts, RunsAreNew
  <1>4. OnlyLoop(l) /\ On(l) /\ (On(l)' => loop'[l].mount = loop[l].mount)
    BY RunStaysOnMount
  <1>5. live' /\ mine' /\ LoadedIsOver'
    BY <1>1, <1>3, RunKeepsSession DEF Elsewhere, LoadedIsOver
  <1>6. /\ \A k \in Loops \ {l} : ~InRun(k)'
        /\ OneDrains'
    <2>1. draining
      BY <1>3, <1>4 DEF OneDrains
    <2> QED
      BY <1>3, <1>4, <2>1, RunHoldsFlag, OneLoopRuns
  <1>7. FewerQueued /\ (loop'[l].turn = loop[l].turn => Unqueued(l))
    BY RunQueuesLess
  <1>8. UNCHANGED used /\ used'.turns >= used.turns
    BY <1>1, UsedAre DEF Elsewhere
  <1>9. AheadIsNew' /\ QueuedIsNew' /\ OneHome' /\ AskedOnce' /\ (StillRuns(l) /\ InRun(l)' => LeftIsNew(l)')
    <2>1. CASE UNCHANGED asked
      BY <1>3, <1>7, <1>8, <2>1, QueuedStaysNew, LeftStaysNew
    <2>2. ASSUME NEW w \in Workers, WorkerTake(l, w)
          PROVE  AheadIsNew' /\ QueuedIsNew' /\ OneHome' /\ AskedOnce' /\ (StillRuns(l) /\ InRun(l)' => LeftIsNew(l)')
      BY <1>3, <1>7, <2>2, TakeKeepsNew
    <2>3. UNCHANGED asked \/ \E w \in Workers : WorkerTake(l, w)
      <3>1. CASE LoopPick(l) \/ LoopEnter(l) \/ LoopEnd(l)
        BY <3>1 DEF LoopPick, LoopEnter, LoopEnd
      <3>2. CASE LoopTurnedAway(l) \/ LoopBatch(l) \/ LoopDisowned(l) \/ LoopJoin(l) \/ LoopQuota(l)
        BY <3>2 DEF LoopTurnedAway, LoopBatch, LoopDisowned, LoopJoin, LoopQuota
      <3>3. CASE LoopFinal(l) \/ LoopFail(l)
        BY <3>3, SettledIs DEF SettlesAs
      <3>4. ASSUME NEW w \in Workers, WorkerStep(l, w) PROVE UNCHANGED asked \/ WorkerTake(l, w)
        BY <3>4 DEF WorkerStep, WorkerStop, WorkerAnswered, WorkerPut, WorkerLate, WorkerSave, WorkerChainBroken
      <3> QED
        BY <3>1, <3>2, <3>3, <3>4 DEF RunStep, MidRun
    <2> QED
      BY <2>1, <2>2, <2>3
  <1>10. RunIsNew(l)'
    <2>1. CASE LoopEnter(l)
      BY <1>3, <2>1, EnterIsNew
    <2>2. CASE LoopPick(l) \/ LoopEnd(l)
      <3>1. Running(l)' = FALSE
        <4>1. CASE LoopPick(l)
          <5>1. CASE loop' = [loop EXCEPT ![l] = Off]
            BY <5>1, RecordDoes, OffIs DEF TypeInv, Running
          <5>2. ASSUME NEW c \in Convs, loop' = [loop EXCEPT ![l].pc = "enter", ![l].conv = c, ![l].asking = live]
                PROVE  Running(l)' = FALSE
            <6>1. loop'[l].pc = "enter"
              BY <5>2, PickSets DEF TypeInv
            <6> QED
              BY <6>1 DEF Running
          <5> QED
            BY <4>1, <5>1, <5>2 DEF LoopPick
        <4>2. CASE LoopEnd(l)
          BY <4>2, EndSets DEF TypeInv, Running
        <4> QED
          BY <2>2, <4>1, <4>2
      <3> QED
        BY <3>1 DEF RunIsNew, InRun, Running
    <2>3. CASE MidRun(l)
      <3>1. Stays(l) /\ StillRuns(l) /\ KeepsStarting(l)
        BY <2>3, MidRunStays DEF StillRuns, KeepsStarting
      <3>2. Unqueued(l)
        BY <1>7, <3>1 DEF Stays
      <3>3. CASE UNCHANGED writes
        BY <1>3, <1>9, <3>1, <3>2, <3>3, RunStaysNew
      <3>4. ASSUME NEW x \in Writes, writes' = Append(writes, x), x.by.kind \in {"loop", "worker"} PROVE RunIsNew(l)'
        <4>1. x.by.kind # "submit"
          BY <3>4
        <4> QED
          BY <1>3, <1>9, <3>1, <3>2, <3>4, <4>1, RunStaysNewWriting
      <3>5. RunLeaves(l)
        BY RunStepLeaves
      <3> QED
        BY <3>3, <3>4, <3>5 DEF RunLeaves, SaveBy
    <2> QED
      BY <2>1, <2>2, <2>3 DEF RunStep
  <1>11. RunsAreNew'
    BY <1>6, <1>10 DEF RunsAreNew, RunIsNew
  <1> QED
    BY <1>5, <1>6, <1>9, <1>11 DEF OnceParts

\* As long as nothing is requested or submitted, it is enough that nothing more is queued and that runs stay new.
LEMMA OnceStays ==
  ASSUME OnceParts, live', mine', OneDrains', LoadedIsOver', FewerQueued, UNCHANGED <<asked, used>>, RunsAreNew'
  PROVE  OnceParts'
  BY QueuedStaysNew DEF OnceParts

\* Runs stay new when loops stand still.
LEMMA StandingRunsStayNew ==
  ASSUME TypeInv, TypeInv', RunsAreNew, UNCHANGED <<loop, asked>>, used'.turns >= used.turns,
         \A l \in Loops : InRun(l) => Unqueued(l),
         UNCHANGED writes \/ \E x \in Writes :
            /\ writes' = Append(writes, x)
            /\ \A l \in Loops, c \in Convs : InRun(l) /\ x.by.kind = "submit" => ~InRef(x.by.m, c, loop[l].turn)'
  PROVE  RunsAreNew'
PROOF
  <1> SUFFICES ASSUME NEW l \in Loops, InRun(l)' PROVE RunIsNew(l)'
    BY DEF RunsAreNew, RunIsNew
  <1>1. InRun(l) /\ RunIsNew(l) /\ StillRuns(l) /\ KeepsStarting(l) /\ Unqueued(l)
    BY DEF RunsAreNew, InRun, StillRuns, Stays, KeepsStarting
  <1>2. LeftIsNew(l)'
    BY <1>1, LeftStaysNew
  <1>3. CASE UNCHANGED writes
    BY <1>1, <1>2, <1>3, RunStaysNew
  <1>4. ASSUME NEW x \in Writes, writes' = Append(writes, x),
               \A k \in Loops, c \in Convs : InRun(k) /\ x.by.kind = "submit" => ~InRef(x.by.m, c, loop[k].turn)'
        PROVE  RunIsNew(l)'
    <2>1. InRun(l) /\ x.by.kind = "submit" => \A c \in Convs : ~InRef(x.by.m, c, loop[l].turn)'
      BY <1>4
    <2> QED
      BY <1>1, <1>2, <1>4, <2>1, RunStaysNewWriting
  <1> QED
    BY <1>3, <1>4

\* Only a submission and a loop that starts read what nobody read.
LEMMA ReadersStay ==
  ASSUME TypeInv, UNCHANGED loop,
         UNCHANGED writes \/ \E x \in Writes : writes' = Append(writes, x) /\ x.by.kind # "submit"
  PROVE  \A m \in Mounts : Reads(m)' => Reads(m)
PROOF
  <1>1. \A x \in InQueue' : x \in InQueue \/ x.by.kind # "submit"
    BY QueueGrows DEF TypeInv, InQueue
  <1> SUFFICES ASSUME NEW m \in Mounts, Reads(m)' PROVE Reads(m)
    OBVIOUS
  <1>2. (\E k \in Loops : Drains(k, m)') \/ \E x \in InQueue' : Submits(x, m)
    BY DEF Reads, Submits
  <1> QED
    BY <1>1, <1>2 DEF Reads, Drains, On, Submits

\* The drain that starts reads a ref with the conversations in memory, or one whose submission is written.
LEMMA DrainStarts ==
  ASSUME TypeInv, TypeInv', OnceParts, NEW m \in Mounts, TryDrain(m), UNCHANGED <<list, ref, asked, used>>,
         InQueue' \subseteq InQueue, ref[m] = list \/ Reads(m)
  PROVE  /\ OneDrains' /\ FewerQueued
         /\ \A l \in Loops : loop'[l] = loop[l] \/ (~InRun(l) /\ ~InRun(l)')
PROOF
  <1>1. OneDrains
    BY DEF OnceParts
  <1>2. CASE UNCHANGED <<draining, loop>>
    <2>1. OneDrains'
      BY <1>1, <1>2 DEF OneDrains, On
    <2>2. \A k \in Mounts : Reads(k)' => Reads(k)
      BY <1>2 DEF Reads, Drains, On, Submits
    <2>3. FewerQueued
      BY <2>2, EditsQueueLess
    <2> QED
      BY <1>2, <2>1, <2>3
  <1>3. ASSUME NEW l \in Loops, ~draining, draining', Starts(l, m)
        PROVE  /\ OneDrains' /\ FewerQueued
               /\ \A k \in Loops : loop'[k] = loop[k] \/ (~InRun(k) /\ ~InRun(k)')
    <2>1. \A k \in Loops : ~On(k) /\ (k # l => loop'[k] = loop[k])
      BY <1>1, <1>3 DEF OneDrains, Starts, OnlyLoop
    <2>2. OneDrains'
      BY <1>3, <2>1 DEF OneDrains, On
    <2>3. \A k \in Mounts : Reads(k)' => Reads(k) \/ k = m
      <3> SUFFICES ASSUME NEW k \in Mounts, Reads(k)', k # m PROVE Reads(k)
        OBVIOUS
      <3>1. \A j \in Loops : ~Drains(j, k)'
        BY <1>3, <2>1 DEF Starts, Drains, On
      <3> QED
        BY <3>1 DEF Reads, Submits
    <2>4. FewerQueued
      BY <2>3, EditsQueueLess
    <2>5. ~InRun(l) /\ ~InRun(l)'
      BY <1>3 DEF Starts, InRun
    <2> QED
      BY <2>1, <2>2, <2>4, <2>5
  <1> QED
    BY <1>2, <1>3, TryDrainDoes DEF TypeInv

\* A page that is opened, left or drained reads what is in memory.
LEMMA SittingKeepsOnce ==
  ASSUME TypeInv, TypeInv', MountsInv, OnceInv, SitsStill \/ GoesAway \/ Open
  PROVE  OnceInv'
PROOF
  <1> SUFFICES ASSUME OneSession' PROVE OnceParts'
    BY DEF OnceInv
  <1>1. Grows
    BY SitsStillIs, GoesAwayIs, UsedAre DEF Unmoved, LeavesPage, Open, Grows
  <1>2. OnceParts
    BY <1>1, OneSessionBefore DEF OnceInv
  <1>3. live /\ mine /\ OneDrains /\ LoadedIsOver /\ RunsAreNew
    BY <1>2 DEF OnceParts
  <1>4. used'.turns >= used.turns \/ used' # used
    BY UsedAre
  <1>5. CASE DrainEffect
    <2>1. /\ page.mount # 0 /\ TryDrain(page.mount)
          /\ UNCHANGED <<list, ref, load, live, writes, mine, asked, used>>
      BY <1>5 DEF DrainEffect
    <2>2. page.mount \in Mounts /\ ref[page.mount] = list
      BY <2>1, PageIs DEF TypeInv, MountsInv, ScreenInv
    <2>3. /\ OneDrains' /\ FewerQueued
          /\ \A l \in Loops : loop'[l] = loop[l] \/ (~InRun(l) /\ ~InRun(l)')
      BY <1>2, <2>1, <2>2, DrainStarts DEF InQueue
    <2>4. ASSUME NEW l \in Loops PROVE RunIsNew(l)'
      <3>1. CASE ~InRun(l)'
        BY <3>1 DEF RunIsNew
      <3>2. CASE loop'[l] = loop[l]
        <4>1. StillRuns(l) /\ KeepsStarting(l) /\ RunIsNew(l)
          BY <1>3, <3>2 DEF StillRuns, InRun, Stays, KeepsStarting, RunsAreNew
        <4>2. Unqueued(l)
          BY <2>1, <3>2, EditsQueueLess
        <4>3. InRun(l)' => LeftIsNew(l)'
          BY <1>4, <2>1, <4>1, LeftStaysNew
        <4> QED
          BY <2>1, <4>1, <4>2, <4>3, RunStaysNew
      <3> QED
        BY <2>3, <3>1, <3>2
    <2> QED
      BY <1>2, <1>3, <2>1, <2>3, <2>4, OnceStays DEF RunsAreNew, LoadedIsOver
  <1>6. ASSUME UNCHANGED <<list, loop, writes, draining, asked, used, mine>>, live', LoadedIsOver',
               \A m \in Mounts, c \in Convs : ref'[m][c] = list'[c] \/ ref'[m][c] = ref[m][c]
        PROVE  OnceParts'
    <2>1. (\A l \in Loops : Unqueued(l)) /\ FewerQueued
      <3>1. \A m \in Mounts : Reads(m)' => Reads(m)
        BY <1>6, ReadersStay
      <3> QED
        BY <1>6, <3>1, EditsQueueLess
    <2>2. RunsAreNew'
      BY <1>3, <1>4, <1>6, <2>1, StandingRunsStayNew
    <2>3. OneDrains'
      BY <1>3, <1>6 DEF OneDrains, On
    <2> QED
      BY <1>2, <1>3, <1>6, <2>1, <2>2, <2>3, OnceStays
  <1>7. CASE SignOut \/ LogOut
    <2>1. happened' \cap {"signout", "logout"} # {}
      BY <1>7 DEF SignOut, LogOut, Hazard
    <2> QED
      BY <2>1 DEF OneSession, Lasting
  <1>8. CASE SignIn \/ Notice
    BY <1>3, <1>8 DEF SignIn, Notice
  <1>9. CASE UNCHANGED vars
    BY <1>3, <1>6, <1>9 DEF vars, memory, runtime, LoadedIsOver
  <1>10. CASE Leave
    <2>1. load'.pc = "off"
      BY <1>10, GoesAwayIs DEF GoesAway, LeavesPage
    <2>2. UNCHANGED <<list, ref, loop, writes, draining, asked, used, mine, live>>
      BY <1>10 DEF Leave, runtime
    <2>3. LoadedIsOver'
      BY <2>1 DEF LoadedIsOver
    <2> QED
      BY <1>3, <1>6, <2>2, <2>3
  <1>11. CASE Open
    <2>1. UNCHANGED <<list, loop, writes, draining, asked, used, mine>> /\ live' = TRUE
      BY <1>11 DEF Open
    <2>2. load'.pc # "saving"
      BY <1>11 DEF Open
    <2>3. LoadedIsOver'
      BY <2>2 DEF LoadedIsOver
    <2>4. ref' = [ref EXCEPT ![page.opened + 1] = list]
      BY <1>11 DEF Open
    <2>5. \A m \in Mounts, c \in Convs : ref'[m][c] = list'[c] \/ ref'[m][c] = ref[m][c]
      BY <2>1, <2>4 DEF TypeInv, MemoryT
    <2> QED
      BY <1>6, <2>1, <2>3, <2>5
  <1> QED
    BY <1>5, <1>7, <1>8, <1>9, <1>10, <1>11 DEF SitsStill, GoesAway

\* What is deleted, and what is written, is queued no more.
LEMMA DeletingKeepsOnce ==
  ASSUME TypeInv, TypeInv', OnceInv, Clear \/ \E c \in Convs : Delete(c)
  PROVE  OnceInv'
PROOF
  <1> SUFFICES ASSUME OneSession' PROVE OnceParts'
    BY DEF OnceInv
  <1>1. \E x \in Writes : ClearDoes(x) \/ \E c \in Convs : DeleteDoes(c, x)
    BY ClearSaves, DeleteSaves
  <1>2. PICK x \in Writes : ClearDoes(x) \/ \E c \in Convs : DeleteDoes(c, x)
    BY <1>1
  <1>3. /\ Grows /\ writes' = Append(writes, x) /\ x.by.kind # "submit"
        /\ UNCHANGED <<load, loop, live, draining, asked, used, mine>>
    BY <1>2 DEF ClearDoes, DeleteDoes
  <1>4. OnceParts
    BY <1>3, OneSessionBefore DEF OnceInv
  <1>5. live /\ mine /\ OneDrains /\ LoadedIsOver /\ RunsAreNew
    BY <1>4 DEF OnceParts
  <1>6. \E m, items : Shown(m, items) /\ \A c \in Convs : items[c] = None \/ items[c] = list[c]
    <2>1. CASE ClearDoes(x)
      BY <2>1 DEF ClearDoes, NoItems
    <2>2. ASSUME NEW c \in Convs, DeleteDoes(c, x)
          PROVE  \E m, items : Shown(m, items) /\ \A d \in Convs : items[d] = None \/ items[d] = list[d]
      <3>1. Shown(page.mount, [list EXCEPT ![c] = None])
        BY <2>2 DEF DeleteDoes
      <3>2. \A d \in Convs : [list EXCEPT ![c] = None][d] = None \/ [list EXCEPT ![c] = None][d] = list[d]
        BY DEF TypeInv, MemoryT, ItemsT
      <3> QED
        BY <3>1, <3>2
    <2> QED
      BY <1>2, <2>1, <2>2
  <1>7. /\ \A c \in Convs : list'[c] = None \/ list'[c] = list[c]
        /\ \A m \in Mounts, c \in Convs : ref'[m][c] = list'[c] \/ ref'[m][c] = ref[m][c]
    BY <1>6 DEF Shown
  <1>8. \A c \in Convs : QueuedOf(list'[c]) \subseteq QueuedOf(list[c])
    BY <1>7 DEF QueuedOf
  <1>9. \A m \in Mounts : Reads(m)' => Reads(m)
    BY <1>3, ReadersStay
  <1>10. (\A l \in Loops : Unqueued(l)) /\ FewerQueued
    BY <1>3, <1>7, <1>8, <1>9, EditsQueueLess
  <1>11. used'.turns >= used.turns
    BY <1>3, UsedAre
  <1>12. RunsAreNew'
    BY <1>3, <1>5, <1>10, <1>11, StandingRunsStayNew
  <1>13. OneDrains' /\ LoadedIsOver'
    BY <1>3, <1>5 DEF OneDrains, On, LoadedIsOver
  <1> QED
    BY <1>3, <1>4, <1>5, <1>10, <1>12, <1>13, OnceStays

\* A submission queues one new turn, in one conversation, where the page reads it.
LEMMA SubmitQueues ==
  ASSUME TypeInv, NEW c \in Convs, NEW x, SubmitDoes(c, x)
  PROVE  /\ used.turns + 1 \in Turns
         /\ \A d \in Convs : QueuedOf(list'[d]) \subseteq QueuedOf(list[d]) \cup (IF d = c THEN {used.turns + 1} ELSE {})
         /\ \A m \in Mounts : ref'[m] = list' \/ ref'[m] = ref[m]
         /\ ref'[page.mount] = list'
PROOF
  <1>1. /\ Shown(page.mount, [list EXCEPT ![c] = WithTurn(c)]) /\ list'[c] = WithTurn(c)
        /\ page.mount \in Mounts /\ used.turns + 1 \in Turns
    BY DEF SubmitDoes
  <1>2. /\ \A m \in Mounts : ref'[m] = list' \/ ref'[m] = ref[m]
        /\ ref'[page.mount] = list' /\ list' = [list EXCEPT ![c] = WithTurn(c)]
    BY <1>1 DEF Shown
  <1>3. \A d \in Convs : d # c => list'[d] = list[d]
    BY <1>2 DEF TypeInv, MemoryT, ItemsT
  <1>4. QueuedOf(WithTurn(c)) \subseteq QueuedOf(list[c]) \cup {used.turns + 1}
    <2>1. NewTurn.id = used.turns + 1
      BY DEF NewTurn
    <2>2. CASE list[c] = None
      <3>1. WithTurn(c).turns = <<NewTurn>> /\ WithTurn(c) # None
        BY <2>2, <1>1, NoneIsNoConversation DEF WithTurn, SubmitDoes
      <3>2. \A k \in DOMAIN WithTurn(c).turns : WithTurn(c).turns[k].id = used.turns + 1
        BY <2>1, <3>1
      <3> QED
        BY <3>1, <3>2 DEF QueuedOf
    <2>3. CASE list[c] # None
      <3>1. WithTurn(c).turns = Append(list[c].turns, NewTurn) /\ WithTurn(c) # None
        BY <2>3, <1>1, NoneIsNoConversation DEF WithTurn, SubmitDoes
      <3>2. list[c].turns \in Seq(Turn)
        BY <2>3 DEF TypeInv, MemoryT, ItemsT, Conversation
      <3>3. ASSUME NEW k \in DOMAIN WithTurn(c).turns
            PROVE  \/ WithTurn(c).turns[k].id = used.turns + 1
                   \/ k \in DOMAIN list[c].turns /\ WithTurn(c).turns[k] = list[c].turns[k]
        <4>1. CASE k = Len(list[c].turns) + 1
          BY <2>1, <3>1, <3>2, <4>1
        <4>2. CASE k # Len(list[c].turns) + 1
          BY <3>1, <3>2, <4>2
        <4> QED
          BY <4>1, <4>2
      <3> QED
        BY <2>3, <3>1, <3>3 DEF QueuedOf
    <2> QED
      BY <2>2, <2>3
  <1>5. \A d \in Convs : QueuedOf(list'[d]) \subseteq QueuedOf(list[d]) \cup (IF d = c THEN {used.turns + 1} ELSE {})
    BY <1>1, <1>3, <1>4
  <1> QED
    BY <1>1, <1>2, <1>5

\* A submission is a new turn, queued in one conversation, and what runs is older.
LEMMA SubmitKeepsOnce ==
  ASSUME TypeInv, TypeInv', OnceInv, NEW c \in Convs, Submit(c)
  PROVE  OnceInv'
PROOF
  <1> SUFFICES ASSUME OneSession' PROVE OnceParts'
    BY DEF OnceInv
  <1>1. PICK x \in Writes : SubmitDoes(c, x)
    BY SubmitSaves
  <1>2. /\ Grows /\ writes' = Append(writes, x) /\ x.by.kind = "submit" /\ x.by.m = page.mount /\ page.mount \in Mounts
        /\ UNCHANGED <<load, loop, runtime, asked, mine>> /\ used'.turns = used.turns + 1
    BY <1>1 DEF SubmitDoes
  <1>3. OnceParts
    BY <1>2, OneSessionBefore DEF OnceInv
  <1>4. live /\ mine /\ OneDrains /\ LoadedIsOver /\ RunsAreNew /\ AheadIsNew /\ QueuedIsNew /\ OneHome /\ AskedOnce
    BY <1>3 DEF OnceParts
  <1> DEFINE t == used.turns + 1
  <1>5. /\ t \in Turns
        /\ \A d \in Convs : QueuedOf(list'[d]) \subseteq QueuedOf(list[d]) \cup (IF d = c THEN {t} ELSE {})
        /\ (\A m \in Mounts : ref'[m] = list' \/ ref'[m] = ref[m]) /\ ref'[page.mount] = list'
    BY <1>1, SubmitQueues
  <1>6. t \in Nat /\ used.turns \in Nat /\ t > used.turns /\ used'.turns = t
    BY <1>2, UsedAre DEF TypeInv, CountsT
  <1> HIDE DEF t
  <1>7. Unasked(t)
    BY <1>4, <1>5, <1>6 DEF AheadIsNew
  <1>8. \A u : Unasked(u)' <=> Unasked(u)
    BY <1>2 DEF Unasked
  <1>9. ASSUME NEW d \in Convs, NEW u \in Turns, InList(d, u)' PROVE InList(d, u) \/ (d = c /\ u = t)
    BY <1>5, <1>9 DEF InList
  <1>10. ASSUME NEW d \in Convs, NEW u \in Turns, QueuedAt(d, u)' PROVE QueuedAt(d, u) \/ (d = c /\ u = t)
    <2>1. CASE InList(d, u)'
      BY <1>9, <2>1 DEF QueuedAt
    <2>2. ASSUME NEW m \in Mounts, Reads(m)', InRef(m, d, u)' PROVE QueuedAt(d, u) \/ (d = c /\ u = t)
      <3>1. CASE ref'[m] = list'
        <4>1. InList(d, u)'
          BY <2>2, <3>1 DEF InRef, InList
        <4> QED
          BY <2>1, <4>1
      <3>2. CASE ref'[m] # list'
        <4>1. m # page.mount /\ InRef(m, d, u)
          BY <1>5, <2>2, <3>2 DEF InRef
        <4>2. (\E k \in Loops : Drains(k, m)') \/ \E y \in InQueue' : Submits(y, m)
          BY <2>2 DEF Reads, Submits
        <4>3. InQueue' = InQueue \cup {x}
          BY <1>2, QueueGrows DEF TypeInv
        <4>4. Reads(m)
          BY <1>2, <4>1, <4>2, <4>3 DEF Reads, Submits, Drains, On
        <4> QED
          BY <4>1, <4>4 DEF QueuedAt
      <3> QED
        BY <3>1, <3>2
    <2> QED
      BY <1>10, <2>1, <2>2 DEF QueuedAt
  <1>11. \A u \in Turns : u \in Nat
    BY DEF Turns
  <1>12. AheadIsNew' /\ QueuedIsNew' /\ OneHome'
    <2>1. AheadIsNew'
      BY <1>4, <1>6, <1>8, <1>11 DEF AheadIsNew
    <2>2. ASSUME NEW d \in Convs, NEW u \in Turns, QueuedAt(d, u) PROVE u <= used.turns /\ Unasked(u) /\ u # t
      BY <1>4, <1>6, <1>11, <2>2 DEF QueuedIsNew
    <2>3. QueuedIsNew'
      <3> SUFFICES ASSUME NEW d \in Convs, NEW u \in Turns, QueuedAt(d, u)' PROVE u <= used'.turns /\ Unasked(u)'
        BY DEF QueuedIsNew
      <3>1. CASE QueuedAt(d, u)
        BY <1>6, <1>8, <1>11, <2>2, <3>1
      <3>2. CASE u = t
        BY <1>6, <1>7, <1>8, <3>2
      <3> QED
        BY <1>10, <3>1, <3>2
    <2>4. OneHome'
      <3> SUFFICES ASSUME NEW d \in Convs, NEW e \in Convs, NEW u \in Turns, QueuedAt(d, u)', QueuedAt(e, u)' PROVE d = e
        BY DEF OneHome
      <3>1. QueuedAt(d, u) \/ (d = c /\ u = t)
        BY <1>10
      <3>2. QueuedAt(e, u) \/ (e = c /\ u = t)
        BY <1>10
      <3> QED
        BY <1>4, <2>2, <3>1, <3>2 DEF OneHome
    <2> QED
      BY <2>1, <2>3, <2>4
  <1>13. RunsAreNew'
    <2>1. ASSUME NEW l \in Loops, InRun(l)
          PROVE  /\ Unqueued(l)
                 /\ \A d \in Convs : ~InRef(page.mount, d, loop[l].turn)'
      <3>1. loop[l].turn <= used.turns /\ loop[l].turn \in Turns /\ NotQueued(l)
        BY <1>4, <2>1 DEF RunsAreNew, RunIsNew, LeftIsNew, TypeInv, LoopT, Running, InRun
      <3>2. loop[l].turn # t /\ loop'[l].turn = loop[l].turn
        BY <1>2, <1>6, <1>11, <3>1
      <3>3. \A d \in Convs : loop[l].turn \in QueuedOf(list'[d]) => loop[l].turn \in QueuedOf(list[d])
        BY <1>5, <3>2
      <3>4. \A m \in Mounts, d \in Convs : loop[l].turn \in QueuedOf(ref'[m][d]) =>
              loop[l].turn \in QueuedOf(list[d]) \/ loop[l].turn \in QueuedOf(ref[m][d])
        BY <1>5, <3>3
      <3>5. Unqueued(l)
        BY <3>2, <3>3, <3>4 DEF Unqueued, InList, InRef
      <3>6. \A d \in Convs : loop[l].turn \notin QueuedOf(list'[d])
        BY <3>1, <3>3 DEF NotQueued, InList
      <3>7. \A d \in Convs : ref'[page.mount][d] = list'[d]
        BY <1>5
      <3>8. page'.mount = page.mount
        BY <1>1 DEF SubmitDoes, Shown, SameMount
      <3>9. \A d \in Convs : ~InRef(page.mount, d, loop[l].turn)'
        BY <3>2, <3>6, <3>7, <3>8 DEF InRef
      <3> QED
        BY <3>5, <3>9
    <2>2. \A l \in Loops : InRun(l) => Unqueued(l)
      BY <2>1
    <2>3. page'.mount = page.mount
      BY <1>1 DEF SubmitDoes, Shown, SameMount
    <2>4. \A l \in Loops, d \in Convs : InRun(l) /\ x.by.kind = "submit" => ~InRef(x.by.m, d, loop[l].turn)'
      BY <1>2, <2>1, <2>3 DEF InRef
    <2>5. used'.turns >= used.turns
      BY <1>6
    <2> QED
      BY <1>2, <1>4, <2>2, <2>4, <2>5, StandingRunsStayNew
  <1>14. OneDrains' /\ LoadedIsOver' /\ AskedOnce' /\ live' /\ mine'
    BY <1>2, <1>4 DEF OneDrains, On, LoadedIsOver, AskedOnce, runtime
  <1> QED
    BY <1>12, <1>13, <1>14 DEF OnceParts

\* History that is read has nothing queued, and nothing runs meanwhile.
LEMMA LoadHistoryKeepsOnce ==
  ASSUME TypeInv, TypeInv', RunsInv, HistoryInv, OnceInv, LoadHistory
  PROVE  OnceInv'
PROOF
  <1> SUFFICES ASSUME OneSession' PROVE OnceParts'
    BY DEF OnceInv
  <1>1. load.pc = "reading" /\ Waits /\ UNCHANGED <<loop, asked, used, happened, runtime, mine>>
    BY LoadHistoryIs DEF LoadHistory
  <1>2. OnceParts /\ Patient
    BY <1>1, UsedAre, OneSessionBefore DEF OnceInv, Grows
  <1>3. live /\ mine /\ OneDrains /\ RunsAreNew
    BY <1>2 DEF OnceParts
  <1>4. Idle /\ list = NoItems
    BY <1>1, <1>2, FreshWhileRead
  <1>5. History = Recovered(Visible)
    BY <1>1, <1>4, HistoryIsRecovered
  <1>6. \A c \in Convs : QueuedOf(Recovered(Visible)[c]) = {}
    <2>1. \A c \in Convs : Recovered(Visible)[c] = Over(Visible[c], Recover) /\ Visible[c] \in Conversation \cup {None}
      BY RecoveredOnce
    <2> QED
      BY <2>1, OverIs
  <1>7. \A c \in Convs : QueuedOf(list'[c]) \subseteq QueuedOf(list[c])
    <2>1. CASE HistoryShown
      BY <1>5, <1>6, <2>1 DEF HistoryShown, Shown
    <2>2. ASSUME NEW x \in Writes, HistorySaved(x) PROVE UNCHANGED list
      BY <2>2 DEF HistorySaved, memory
    <2> QED
      BY <2>1, <2>2, HistoryComes
  <1>8. \A m \in Mounts, c \in Convs : ref'[m][c] = list'[c] \/ ref'[m][c] = ref[m][c]
    BY HistoryComes DEF HistoryShown, HistorySaved, Shown, memory
  <1>9. UNCHANGED writes \/ \E x \in Writes : writes' = Append(writes, x) /\ x.by.kind # "submit"
    BY HistoryComes DEF HistoryShown, HistorySaved
  <1>10. \A m \in Mounts : Reads(m)' => Reads(m)
    BY <1>1, <1>9, ReadersStay
  <1>11. FewerQueued
    BY <1>7, <1>8, <1>10, EditsQueueLess
  <1>12. RunsAreNew'
    BY <1>1, <1>4 DEF RunsAreNew, RunIsNew, InRun, Idle, Busy
  <1>13. LoadedIsOver'
    <2>1. load'.pc = "saving" => load'.items = Recovered(Visible)
      BY <1>5, HistoryComes DEF HistoryShown, HistorySaved
    <2> QED
      BY <1>6, <2>1 DEF LoadedIsOver
  <1>14. OneDrains' /\ live' /\ mine'
    BY <1>1, <1>3 DEF OneDrains, On, runtime
  <1> QED
    BY <1>1, <1>2, <1>11, <1>12, <1>13, <1>14, OnceStays

\* A write that ends lets a run go on, but starts none that was not to start.
LEMMA ResumeRunsOn ==
  ASSUME TypeInv, NEW b \in Bys, Awaited(b), NEW ok \in BOOLEAN, Resume(b, ok), b.kind \in {"loop", "worker"}
  PROVE  /\ UNCHANGED draining
         /\ \A l \in Loops : /\ Stays(l) /\ loop'[l].left = loop[l].left /\ (On(l)' <=> On(l)) /\ (InRun(l)' => InRun(l))
                             /\ KeepsStarting(l) \/ b = [kind |-> "loop", l |-> l]
PROOF
  <1>1. UNCHANGED draining
    BY DEF Resume
  <1>2. CASE b.kind = "loop"
    <2> DEFINE l == b.l
    <2>1. l \in Loops /\ b = [kind |-> "loop", l |-> l] /\ loop[l].pc \in SavingPcs
      BY <1>2, ByIs DEF Awaited
    <2>2. \/ loop[l].pc = "failed" /\ loop' = [loop EXCEPT ![l].pc = "ended", ![l].thrown = ~ok]
          \/ \E p \in {"failing", "quota"} : At(l, p)
          \/ loop[l].pc = "starting" /\ At(l, "started")
      BY <1>2, <2>1 DEF Resume, SavingPcs
    <2>3. /\ OnlyLoop(l) /\ Stays(l) /\ loop'[l].left = loop[l].left
          /\ loop'[l].pc # "off" /\ (InRun(l)' => InRun(l))
      <3>1. CASE loop[l].pc = "failed" /\ loop' = [loop EXCEPT ![l].pc = "ended", ![l].thrown = ~ok]
        <4> DEFINE x == ~ok
        <4>1. loop' = [loop EXCEPT ![l].pc = "ended", ![l].thrown = x]
          BY <3>1
        <4> HIDE DEF x, l
        <4>2. LoopShape' /\ OnlyLoop(l) /\ Stays(l) /\ loop'[l].left = loop[l].left /\ loop'[l].pc = "ended"
          BY <2>1, <4>1, PcThrownDoes DEF TypeInv
        <4> QED
          BY <4>2 DEF InRun
      <3>2. ASSUME NEW p \in {"failing", "quota"}, At(l, p)
            PROVE  /\ OnlyLoop(l) /\ Stays(l) /\ loop'[l].left = loop[l].left
                   /\ loop'[l].pc # "off" /\ (InRun(l)' => InRun(l))
        <4>1. InRun(l)
          BY <2>1 DEF InRun, SavingPcs
        <4> HIDE DEF l
        <4> QED
          BY <2>1, <3>2, <4>1, AtDoes DEF TypeInv
      <3>3. CASE loop[l].pc = "starting" /\ At(l, "started")
        BY <2>1, <3>3, AtDoes DEF TypeInv, InRun
      <3> QED
        BY <2>2, <3>1, <3>2, <3>3
    <2> HIDE DEF l
    <2>4. ASSUME NEW k \in Loops, k # l
          PROVE  /\ Stays(k) /\ loop'[k].left = loop[k].left /\ (On(k)' <=> On(k)) /\ (InRun(k)' => InRun(k)) /\ KeepsStarting(k)
      <3>1. loop'[k] = loop[k]
        BY <2>3, <2>4 DEF OnlyLoop
      <3> QED
        BY <3>1 DEF Stays, On, InRun, KeepsStarting
    <2>5. On(l) /\ On(l)'
      BY <2>1, <2>3 DEF On, SavingPcs
    <2> QED
      BY <1>1, <2>1, <2>3, <2>4, <2>5
  <1>3. CASE b.kind = "worker"
    <2>1. b.l \in Loops /\ b.w \in Workers /\ (UNCHANGED loop \/ SaveFailed(b.l, b.w))
      BY <1>3, ByIs DEF Resume
    <2>2. Marked(b.l) /\ loop'[b.l].left = loop[b.l].left
      BY <2>1, SaveFailedDoes, UnmarkedToo DEF TypeInv
    <2>3. ASSUME NEW k \in Loops
          PROVE  Stays(k) /\ loop'[k].left = loop[k].left /\ loop'[k].pc = loop[k].pc
      BY <2>1, <2>2, <2>3 DEF Marked, OnlyLoop, Stays
    <2> QED
      BY <1>1, <2>3 DEF On, InRun, KeepsStarting
  <1> QED
    BY <1>2, <1>3

\* The end of a write brings nothing back that is queued, and lets the loop go on that it was for.
LEMMA WriteOverKeepsOnce ==
  ASSUME TypeInv, TypeInv', MountsInv, OnceInv, WriteDone \/ WriteFailed
  PROVE  OnceInv'
PROOF
  <1> SUFFICES ASSUME OneSession' PROVE OnceParts'
    BY DEF OnceInv
  <1>1. PICK ok \in BOOLEAN : WriteEnds(ok)
    BY WriteEndsIs
  <1> DEFINE b == Head(writes).by
  <1>2. /\ Grows /\ writes # <<>> /\ writes' = Tail(writes) /\ Resume(b, ok) /\ UNCHANGED used
    BY <1>1 DEF WriteEnds
  <1>3. UNCHANGED <<live, mine, asked>>
    BY DEF WriteDone, WriteFailed
  <1>4. OnceParts
    BY <1>2, OneSessionBefore DEF OnceInv
  <1>5. live /\ mine /\ OneDrains /\ LoadedIsOver /\ RunsAreNew
    BY <1>4 DEF OnceParts
  <1>6. b \in Bys /\ Awaited(b)
    BY <1>2, HeadIs DEF TypeInv
  <1>7. InQueue' \subseteq InQueue /\ Head(writes) \in InQueue /\ Head(writes) = writes[1] /\ 1 \in DOMAIN writes
    BY <1>2, QueueShrinks DEF TypeInv
  <1>8. used'.turns >= used.turns
    BY <1>2, UsedAre
  <1>9. Brought(b, ok)
    BY <1>2, <1>6, ResumeBrings
  <1> HIDE DEF b
  <1>10. LoadedIsOver'
    <2>1. UNCHANGED load \/ load'.pc = "off"
      BY <1>9 DEF Brought
    <2> QED
      BY <1>5, <2>1 DEF LoadedIsOver
  <1>11. ASSUME NEW l \in Loops, StillRuns(l), Unqueued(l), KeepsStarting(l) \/ b = [kind |-> "loop", l |-> l]
         PROVE  RunIsNew(l)'
    <2>1. InRun(l)' => LeftIsNew(l)'
      BY <1>3, <1>5, <1>8, <1>11, LeftStaysNew DEF RunsAreNew
    <2>2. KeepsStarting(l) \/ Head(writes).by = [kind |-> "loop", l |-> l]
      BY <1>11 DEF b
    <2> QED
      BY <1>2, <1>5, <1>11, <2>1, <2>2, RunStaysNewWritten DEF RunsAreNew
  <1>12. CASE b.kind \in {"loop", "worker"}
    <2>1. /\ UNCHANGED draining
          /\ \A l \in Loops : /\ Stays(l) /\ loop'[l].left = loop[l].left /\ (On(l)' <=> On(l)) /\ (InRun(l)' => InRun(l))
                              /\ KeepsStarting(l) \/ b = [kind |-> "loop", l |-> l]
      BY <1>2, <1>6, <1>12, ResumeRunsOn
    <2>2. UNCHANGED <<list, ref>>
      BY <1>9, <1>12 DEF Brought, Unshown
    <2>3. \A m \in Mounts : Reads(m)' => Reads(m)
      BY <1>7, <2>1 DEF Reads, Drains, Stays, Submits
    <2>4. FewerQueued /\ \A l \in Loops : Unqueued(l)
      BY <2>1, <2>2, <2>3, EditsQueueLess DEF Stays
    <2>5. \A l \in Loops : StillRuns(l)
      BY <2>1 DEF StillRuns
    <2>6. RunsAreNew'
      BY <1>11, <2>1, <2>4, <2>5 DEF RunsAreNew
    <2>7. OneDrains'
      BY <1>5, <2>1 DEF OneDrains
    <2> QED
      BY <1>2, <1>3, <1>4, <1>5, <1>10, <2>4, <2>6, <2>7, OnceStays
  <1>13. ASSUME UNCHANGED <<draining, loop>>, \A c \in Convs : QueuedOf(list'[c]) \subseteq QueuedOf(list[c]),
                \A m \in Mounts, c \in Convs : ref'[m][c] = list'[c] \/ ref'[m][c] = ref[m][c]
         PROVE  OnceParts'
    <2>1. \A m \in Mounts : Reads(m)' => Reads(m)
      BY <1>7, <1>13 DEF Reads, Drains, On, Submits
    <2>2. FewerQueued /\ \A l \in Loops : Unqueued(l)
      BY <1>13, <2>1, EditsQueueLess
    <2>3. \A l \in Loops : StillRuns(l) /\ KeepsStarting(l)
      BY <1>13 DEF StillRuns, InRun, Stays, KeepsStarting
    <2>4. RunsAreNew'
      BY <1>11, <2>2, <2>3 DEF RunsAreNew
    <2>5. OneDrains'
      BY <1>5, <1>13 DEF OneDrains, On
    <2> QED
      BY <1>2, <1>3, <1>4, <1>5, <1>10, <2>2, <2>4, <2>5, OnceStays
  <1>14. CASE b.kind = "submit"
    <2>1. UNCHANGED <<list, ref>>
      BY <1>9, <1>14 DEF Brought, Unshown
    <2>2. (ok /\ TryDrain(b.m)) \/ UNCHANGED <<draining, loop>>
      BY <1>2, <1>14 DEF Resume
    <2>3. CASE UNCHANGED <<draining, loop>>
      BY <1>13, <2>1, <2>3
    <2>4. CASE TryDrain(b.m)
      <3>1. b.m \in Mounts /\ Reads(b.m)
        BY <1>6, <1>7, <1>14, ByIs DEF Reads, Submits, b
      <3>2. /\ OneDrains' /\ FewerQueued
            /\ \A l \in Loops : loop'[l] = loop[l] \/ (~InRun(l) /\ ~InRun(l)')
        BY <1>2, <1>3, <1>4, <1>7, <2>1, <2>4, <3>1, DrainStarts
      <3>3. ASSUME NEW l \in Loops PROVE RunIsNew(l)'
        <4>1. CASE ~InRun(l)'
          BY <4>1 DEF RunIsNew
        <4>2. CASE loop'[l] = loop[l]
          <5>1. StillRuns(l) /\ KeepsStarting(l)
            BY <4>2 DEF StillRuns, InRun, Stays, KeepsStarting
          <5>2. Unqueued(l)
            BY <2>1, <4>2, EditsQueueLess
          <5> QED
            BY <1>11, <5>1, <5>2
        <4> QED
          BY <3>2, <4>1, <4>2
      <3> QED
        BY <1>2, <1>3, <1>4, <1>5, <1>10, <3>2, <3>3, OnceStays DEF RunsAreNew
    <2> QED
      BY <2>2, <2>3, <2>4
  <1>15. CASE b.kind \in {"load", "delete", "clear"}
    <2>1. UNCHANGED <<draining, loop>>
      BY <1>2, <1>15 DEF Resume
    <2>2. Unshown \/ \E m, items : Shown(m, items) /\ \A c \in Convs : QueuedOf(items[c]) \subseteq QueuedOf(list[c])
      <3>1. CASE b.kind = "load"
        <4>1. Unshown \/ (ForScreen(b) /\ Shown(b.m, load.items))
          BY <1>9, <3>1 DEF Brought
        <4>2. ForScreen(b) => load.pc = "saving"
          BY <1>7 DEF ForScreen, MountsInv, OnceRead, LoadOf, b
        <4> QED
          BY <1>5, <4>1, <4>2 DEF LoadedIsOver
      <3>2. CASE b.kind = "delete"
        <4>1. CASE ok
          BY <1>9, <3>2, <4>1 DEF Brought
        <4>2. CASE ~ok
          <5> DEFINE items == [list EXCEPT ![b.conv] = MarkAborted(b.before)]
          <5>1. Shown(b.m, items)
            BY <1>9, <3>2, <4>2 DEF Brought
          <5>2. b.conv \in Convs /\ b.before \in Conversation
            BY <1>6, <3>2, ByIs
          <5>3. QueuedOf(MarkAborted(b.before)) = {}
            BY <5>2, OverIs
          <5>4. \A c \in Convs : items[c] = list[c] \/ items[c] = MarkAborted(b.before)
            BY <5>2 DEF TypeInv, MemoryT, ItemsT
          <5>5. \A c \in Convs : QueuedOf(items[c]) \subseteq QueuedOf(list[c])
            BY <5>3, <5>4
          <5> HIDE DEF items
          <5> QED
            BY <5>1, <5>5
        <4> QED
          BY <4>1, <4>2
      <3>3. CASE b.kind = "clear"
        <4>1. CASE ok
          BY <1>9, <3>3, <4>1 DEF Brought
        <4>2. CASE ~ok
          <5> DEFINE items == [c \in Convs |-> MarkAborted(b.before[c])]
          <5>1. Shown(b.m, items)
            BY <1>9, <3>3, <4>2 DEF Brought
          <5>2. \A c \in Convs : b.before[c] \in Conversation \cup {None}
            BY <1>6, <3>3, ByIs DEF ItemsT
          <5>3. \A c \in Convs : QueuedOf(items[c]) = {}
            BY <5>2, OverIs
          <5> HIDE DEF items
          <5> QED
            BY <5>1, <5>3
        <4> QED
          BY <4>1, <4>2
      <3> QED
        BY <1>15, <3>1, <3>2, <3>3
    <2>3. /\ \A c \in Convs : QueuedOf(list'[c]) \subseteq QueuedOf(list[c])
          /\ \A m \in Mounts, c \in Convs : ref'[m][c] = list'[c] \/ ref'[m][c] = ref[m][c]
      BY <2>2 DEF Unshown, Shown
    <2> QED
      BY <1>13, <2>1, <2>3
  <1> QED
    BY <1>6, <1>12, <1>14, <1>15, ByIs

\* After a reload nothing is queued and nothing runs.
LEMMA LoadedOnce ==
  ASSUME Loaded, mine, AheadIsNew, AskedOnce
  PROVE  OnceParts
PROOF
  <1>1. \A c \in Convs : QueuedOf(list[c]) = {} /\ \A m \in Mounts : QueuedOf(ref[m][c]) = {}
    BY DEF Loaded, NoItems, QueuedOf
  <1>2. \A c \in Convs, t \in Turns : ~QueuedAt(c, t)
    BY <1>1 DEF QueuedAt, InList, InRef
  <1>3. \A l \in Loops : loop[l].pc = "off"
    BY OffIs DEF Loaded
  <1>4. OneDrains /\ RunsAreNew
    BY <1>3 DEF OneDrains, On, RunsAreNew, RunIsNew, InRun
  <1>5. live /\ LoadedIsOver
    BY DEF Loaded, LoadedIsOver
  <1> QED
    BY <1>2, <1>4, <1>5 DEF OnceParts, QueuedIsNew, OneHome

\* A reload forgets what was queued; what was requested stays counted.
LEMMA ReloadKeepsOnce ==
  ASSUME TypeInv, TypeInv', OnceInv, Reload
  PROVE  OnceInv'
PROOF
  <1> SUFFICES ASSUME OneSession' PROVE OnceParts'
    BY DEF OnceInv
  <1>1. UNCHANGED <<asked, used, mine>> /\ happened \subseteq happened'
    BY DEF Reload, Hazard
  <1>2. OnceParts
    BY <1>1, UsedAre, OneSessionBefore DEF OnceInv, Grows
  <1>3. mine' /\ AheadIsNew' /\ AskedOnce'
    BY <1>1, <1>2 DEF OnceParts, AheadIsNew, Unasked, AskedOnce
  <1> QED
    BY <1>3, ReloadLoads, LoadedOnce, PTL

\* Nothing is requested at first.
LEMMA InitIsOnce == Init => OnceInv
PROOF
  <1> SUFFICES ASSUME Init PROVE OnceParts
    BY DEF OnceInv
  <1>1. mine /\ AheadIsNew /\ AskedOnce
    BY DEF Init, AheadIsNew, Unasked, AskedOnce
  <1> QED
    BY <1>1, InitLoads, LoadedOnce

\* Every step of the page keeps each image requested at most once.
LEMMA StepKeepsOnce ==
  TypeInv /\ TypeInv' /\ RunsInv /\ MountsInv /\ HistoryInv /\ OnceInv /\ [Next]_vars => OnceInv'
PROOF
  <1> SUFFICES ASSUME TypeInv, TypeInv', RunsInv, MountsInv, HistoryInv, OnceInv, [Next]_vars PROVE OnceInv'
    OBVIOUS
  <1> QED
    BY StepCases, RunKeepsOnce, SittingKeepsOnce, DeletingKeepsOnce, SubmitKeepsOnce, LoadHistoryKeepsOnce,
       WriteOverKeepsOnce, ReloadKeepsOnce

\* An image is requested once, however many turns there are and whatever is left, opened, deleted, cleared, reloaded
\* or fails to be written, as long as the session lasts and the user waits for the history.
THEOREM ImagesAreRequestedOnce == Spec => []RequestedOnce
PROOF
  <1>1. Init => OnceInv
    BY InitIsOnce
  <1>2. TypeInv /\ TypeInv' /\ RunsInv /\ HeldInv /\ OnceInv /\ [Next]_vars => OnceInv'
    BY StepKeepsOnce DEF HeldInv
  <1>3. OnceInv => RequestedOnce
    BY DEF OnceInv, OnceParts, RequestedOnce
  <1> QED
    BY <1>1, <1>2, <1>3, HistoryIsHeld, PTL DEF Spec

-----------------------------------------------------------------------------
(* What a turn came to: no step takes an answer back.                      *)

\* A turn with at least what another one had.
TurnKeeps(new, old) ==
    new.id = old.id /\ \A i \in DOMAIN old.img : old.img[i] # "loading" => new.img[i] = old.img[i]
\* A conversation with at least the turns of another one.
Extends(new, old) ==
    \A k \in DOMAIN old.turns : k \in DOMAIN new.turns /\ TurnKeeps(new.turns[k], old.turns[k])
After(new, old) == old = None \/ new = None \/ Extends(new, old)

\* What a run and a recovery make of a turn keeps its answers, and all but the entering of a run end it.
LEMMA TurnsKept ==
  ASSUME NEW x \in Turn
  PROVE  /\ TurnKeeps(Generating(x), x) /\ Unfinished(Generating(x))
         /\ TurnKeeps(Failed(x), x) /\ ~Unfinished(Failed(x))
         /\ TurnKeeps(Cancelled(x), x) /\ ~Unfinished(Cancelled(x))
         /\ TurnKeeps(Finished(x), x) /\ ~Unfinished(Finished(x))
         /\ TurnKeeps(Recover(x), x) /\ ~Unfinished(Recover(x))
PROOF
  <1>0. /\ x = [id |-> x.id, status |-> x.status, img |-> x.img]
        /\ x.id \in Turns /\ x.status \in Statuses /\ x.img \in [Count(x.id) -> ImageStatus]
    BY TurnIs
  <1>1. \A i \in DOMAIN x.img : x.img[i] # "loading" => Without(x)[i] = x.img[i]
    BY DEF Without
  <1>2. TurnKeeps(Generating(x), x) /\ Unfinished(Generating(x))
    BY <1>0 DEF Generating, TurnKeeps, Unfinished
  <1>3. ASSUME NEW s \in {"success", "error"}, NEW y, y = [[x EXCEPT !.status = s] EXCEPT !.img = Without(x)]
        PROVE  TurnKeeps(y, x) /\ ~Unfinished(y)
    <2> DEFINE z == [x EXCEPT !.status = s]
    <2>1. z.id = x.id /\ z.status = s /\ DOMAIN z = {"id", "status", "img"}
      BY <1>0
    <2>2. y = [z EXCEPT !.img = Without(x)]
      BY <1>3
    <2> HIDE DEF z
    <2>3. y.id = x.id /\ y.status = s /\ y.img = Without(x)
      BY <2>1, <2>2
    <2> QED
      BY <1>1, <1>3, <2>3 DEF TurnKeeps, Unfinished
  <1>4. TurnKeeps(Failed(x), x) /\ ~Unfinished(Failed(x))
    BY <1>3 DEF Failed
  <1>5. TurnKeeps(Finished(x), x) /\ ~Unfinished(Finished(x))
    BY <1>3, OutcomeIs DEF Finished
  <1>6. TurnKeeps(x, x)
    BY DEF TurnKeeps
  <1> QED
    BY <1>2, <1>4, <1>5, <1>6 DEF Cancelled, Recover

\* What comes after what comes after a conversation comes after it.
LEMMA AfterAll ==
  ASSUME NEW a \in Conversation, NEW b \in Conversation, NEW d \in Conversation \cup {None}
  PROVE  /\ Extends(a, a)
         /\ Extends(a, b) /\ After(b, d) => After(a, d)
PROOF
  <1>1. Extends(a, a)
    BY DEF Extends, TurnKeeps
  <1>2. ASSUME Extends(a, b), After(b, d), d # None PROVE Extends(a, d)
    <2>1. d \in Conversation /\ Extends(b, d)
      BY <1>2, NoneIsNoConversation DEF After
    <2> SUFFICES ASSUME NEW k \in DOMAIN d.turns
                 PROVE  k \in DOMAIN a.turns /\ TurnKeeps(a.turns[k], d.turns[k])
      BY DEF Extends
    <2>2. k \in DOMAIN b.turns /\ TurnKeeps(b.turns[k], d.turns[k])
      BY <2>1 DEF Extends
    <2>3. k \in DOMAIN a.turns /\ TurnKeeps(a.turns[k], b.turns[k])
      BY <1>2, <2>2 DEF Extends
    <2>4. b.turns[k] \in Turn /\ d.turns[k] \in Turn
      BY <2>1, <2>2 DEF Conversation
    <2>5. DOMAIN b.turns[k].img = DOMAIN d.turns[k].img
      BY <2>2, <2>4, TurnIs DEF TurnKeeps
    <2> QED
      BY <2>2, <2>3, <2>5 DEF TurnKeeps
  <1> QED
    BY <1>1, <1>2 DEF After

\* Where each id is once, the turn of an id is the one that has it.
Distinct(conv) == conv # None => \A j, k \in DOMAIN conv.turns : conv.turns[j].id = conv.turns[k].id => j = k

\* The turn of an id is found under it.
LEMMA TurnOfId ==
  ASSUME NEW conv, Distinct(conv), conv # None, NEW k \in DOMAIN conv.turns
  PROVE  Has(conv, conv.turns[k].id) /\ TurnOf(conv, conv.turns[k].id) = conv.turns[k]
PROOF
  <1> DEFINE t == conv.turns[k].id
             j == CHOOSE i \in DOMAIN conv.turns : conv.turns[i].id = t
  <1>1. j \in DOMAIN conv.turns /\ conv.turns[j].id = t
    OBVIOUS
  <1>2. j = k
    BY <1>1 DEF Distinct
  <1> QED
    BY <1>2 DEF Has, TurnOf

\* A run changes one turn of its conversation, which keeps its answers.
EditsOne(t, new, old) ==
    /\ new \in Conversation /\ old \in Conversation /\ DOMAIN new.turns = DOMAIN old.turns
    /\ \A k \in DOMAIN old.turns :
         /\ new.turns[k].id = old.turns[k].id
         /\ old.turns[k].id # t => new.turns[k] = old.turns[k]
         /\ Distinct(old) => TurnKeeps(new.turns[k], old.turns[k])
\* The turn begins to run, ...
Begins(l) ==
    LET c == loop[l].conv IN
    /\ LoopEnter(l) /\ EditsOne(EnteredTurn(l).id, list'[c], list[c])
    /\ \A k \in DOMAIN list[c].turns : list[c].turns[k].id = EnteredTurn(l).id => Unfinished(list'[c].turns[k])
\* ... or it runs, and begins nothing.
GoesOn(l) ==
    LET c == loop[l].conv IN
    /\ loop[l].pc \in {"batch", "final", "failing"} /\ EditsOne(loop[l].turn, list'[c], list[c])
    /\ \A k \in DOMAIN list[c].turns : Unfinished(list'[c].turns[k]) => Unfinished(list[c].turns[k])

\* The edits of a run, turn by turn.
LEMMA EditsKeep ==
  ASSUME NEW conv \in Conversation, NEW t
  PROVE  /\ EditsOne(t, Edited(conv, t, Generating), conv)
         /\ \A k \in DOMAIN conv.turns : conv.turns[k].id = t => Unfinished(Edited(conv, t, Generating).turns[k])
         /\ EditsOne(t, Edited(conv, t, Cancelled), conv)
         /\ \A k \in DOMAIN conv.turns : Unfinished(Edited(conv, t, Cancelled).turns[k]) => Unfinished(conv.turns[k])
         /\ EditsOne(t, Edited(conv, t, Finished), conv)
         /\ \A k \in DOMAIN conv.turns : Unfinished(Edited(conv, t, Finished).turns[k]) => Unfinished(conv.turns[k])
         /\ EditsOne(t, Edited(conv, t, Failed), conv)
         /\ \A k \in DOMAIN conv.turns : Unfinished(Edited(conv, t, Failed).turns[k]) => Unfinished(conv.turns[k])
PROOF
  <1>0. \A k \in DOMAIN conv.turns : conv.turns[k] \in Turn /\ TurnKeeps(conv.turns[k], conv.turns[k])
    BY DEF Conversation, TurnKeeps
  <1>1. ASSUME NEW ts, DOMAIN ts = DOMAIN conv.turns, NEW new \in Conversation, new.turns = ts,
               \A k \in DOMAIN conv.turns :
                  \/ conv.turns[k].id # t /\ ts[k] = conv.turns[k]
                  \/ conv.turns[k].id = t /\ TurnKeeps(ts[k], conv.turns[k])
        PROVE  EditsOne(t, new, conv)
    BY <1>0, <1>1 DEF EditsOne, TurnKeeps
  <1>2. /\ EditsOne(t, Edited(conv, t, Generating), conv)
        /\ \A k \in DOMAIN conv.turns : conv.turns[k].id = t => Unfinished(Edited(conv, t, Generating).turns[k])
    <2> DEFINE ts == [k \in DOMAIN conv.turns |-> IF conv.turns[k].id = t THEN Generating(conv.turns[k]) ELSE conv.turns[k]]
               new == Edited(conv, t, Generating)
    <2>1. DOMAIN ts = DOMAIN conv.turns /\ new.turns = ts /\ new \in Conversation
      BY ConversationsMade DEF Edited
    <2>2. \A k \in DOMAIN conv.turns :
             \/ conv.turns[k].id # t /\ ts[k] = conv.turns[k]
             \/ conv.turns[k].id = t /\ TurnKeeps(ts[k], conv.turns[k]) /\ Unfinished(ts[k])
      BY <1>0, TurnsKept
    <2> HIDE DEF ts, new
    <2>3. EditsOne(t, new, conv)
      BY <1>1, <2>1, <2>2
    <2>4. \A k \in DOMAIN conv.turns : conv.turns[k].id = t => Unfinished(new.turns[k])
      BY <2>1, <2>2
    <2> QED
      BY <2>3, <2>4 DEF new
  <1>3. /\ EditsOne(t, Edited(conv, t, Cancelled), conv)
        /\ \A k \in DOMAIN conv.turns : Unfinished(Edited(conv, t, Cancelled).turns[k]) => Unfinished(conv.turns[k])
    <2> DEFINE ts == [k \in DOMAIN conv.turns |-> IF conv.turns[k].id = t THEN Cancelled(conv.turns[k]) ELSE conv.turns[k]]
               new == Edited(conv, t, Cancelled)
    <2>1. DOMAIN ts = DOMAIN conv.turns /\ new.turns = ts /\ new \in Conversation
      BY ConversationsMade DEF Edited
    <2>2. \A k \in DOMAIN conv.turns :
             \/ conv.turns[k].id # t /\ ts[k] = conv.turns[k]
             \/ conv.turns[k].id = t /\ TurnKeeps(ts[k], conv.turns[k]) /\ ~Unfinished(ts[k])
      BY <1>0, TurnsKept
    <2> HIDE DEF ts, new
    <2>3. EditsOne(t, new, conv)
      BY <1>1, <2>1, <2>2
    <2>4. \A k \in DOMAIN conv.turns : Unfinished(new.turns[k]) => Unfinished(conv.turns[k])
      BY <2>1, <2>2
    <2> QED
      BY <2>3, <2>4 DEF new
  <1>4. /\ EditsOne(t, Edited(conv, t, Finished), conv)
        /\ \A k \in DOMAIN conv.turns : Unfinished(Edited(conv, t, Finished).turns[k]) => Unfinished(conv.turns[k])
    <2> DEFINE ts == [k \in DOMAIN conv.turns |-> IF conv.turns[k].id = t THEN Finished(conv.turns[k]) ELSE conv.turns[k]]
               new == Edited(conv, t, Finished)
    <2>1. DOMAIN ts = DOMAIN conv.turns /\ new.turns = ts /\ new \in Conversation
      BY ConversationsMade DEF Edited
    <2>2. \A k \in DOMAIN conv.turns :
             \/ conv.turns[k].id # t /\ ts[k] = conv.turns[k]
             \/ conv.turns[k].id = t /\ TurnKeeps(ts[k], conv.turns[k]) /\ ~Unfinished(ts[k])
      BY <1>0, TurnsKept
    <2> HIDE DEF ts, new
    <2>3. EditsOne(t, new, conv)
      BY <1>1, <2>1, <2>2
    <2>4. \A k \in DOMAIN conv.turns : Unfinished(new.turns[k]) => Unfinished(conv.turns[k])
      BY <2>1, <2>2
    <2> QED
      BY <2>3, <2>4 DEF new
  <1>5. /\ EditsOne(t, Edited(conv, t, Failed), conv)
        /\ \A k \in DOMAIN conv.turns : Unfinished(Edited(conv, t, Failed).turns[k]) => Unfinished(conv.turns[k])
    <2> DEFINE ts == [k \in DOMAIN conv.turns |-> IF conv.turns[k].id = t THEN Failed(conv.turns[k]) ELSE conv.turns[k]]
               new == Edited(conv, t, Failed)
    <2>1. DOMAIN ts = DOMAIN conv.turns /\ new.turns = ts /\ new \in Conversation
      BY ConversationsMade DEF Edited
    <2>2. \A k \in DOMAIN conv.turns :
             \/ conv.turns[k].id # t /\ ts[k] = conv.turns[k]
             \/ conv.turns[k].id = t /\ TurnKeeps(ts[k], conv.turns[k]) /\ ~Unfinished(ts[k])
      BY <1>0, TurnsKept
    <2> HIDE DEF ts, new
    <2>3. EditsOne(t, new, conv)
      BY <1>1, <2>1, <2>2
    <2>4. \A k \in DOMAIN conv.turns : Unfinished(new.turns[k]) => Unfinished(conv.turns[k])
      BY <2>1, <2>2
    <2> QED
      BY <2>3, <2>4 DEF new
  <1> QED
    BY <1>2, <1>3, <1>4, <1>5

\* An answer is put into an image that was loading.
LEMMA AnswerKeeps ==
  ASSUME TypeInv, NEW l \in Loops, NEW w \in Workers, worker[l][w].pc = "answered", Pending(l, w)
  PROVE  /\ EditsOne(loop[l].turn, WithAnswer(l, w), list[loop[l].conv])
         /\ \A k \in DOMAIN list[loop[l].conv].turns :
              Unfinished(WithAnswer(l, w).turns[k]) => Unfinished(list[loop[l].conv].turns[k])
PROOF
  <1> DEFINE conv == list[loop[l].conv]
             new == WithAnswer(l, w)
             t == loop[l].turn
             i == worker[l][w].img
             out == worker[l][w].out
             ts == [k \in DOMAIN conv.turns |->
                      IF conv.turns[k].id = t THEN [conv.turns[k] EXCEPT !.img[i] = out] ELSE conv.turns[k]]
  <1>1. conv \in Conversation /\ new \in Conversation
    BY WithAnswerIs
  <1>2. new.turns = ts
    BY DEF WithAnswer, Edited
  <1>3. conv # None /\ \A k \in DOMAIN conv.turns : conv.turns[k] \in Turn
    BY <1>1, NoneIsNoConversation DEF Conversation
  <1>4. Has(conv, t) /\ TurnOf(conv, t).img[i] = "loading"
    BY DEF Pending
  <1>5. ASSUME NEW k \in DOMAIN conv.turns
        PROVE  /\ ts[k].id = conv.turns[k].id /\ ts[k].status = conv.turns[k].status
               /\ conv.turns[k].id # t => ts[k] = conv.turns[k]
               /\ \A n \in DOMAIN conv.turns[k].img : n # i => ts[k].img[n] = conv.turns[k].img[n]
    <2> DEFINE x == conv.turns[k]
               y == [x.img EXCEPT ![i] = out]
    <2>1. x = [id |-> x.id, status |-> x.status, img |-> x.img] /\ DOMAIN y = DOMAIN x.img
      BY <1>3, TurnIs
    <2>2. \A n \in DOMAIN x.img : n # i => y[n] = x.img[n]
      OBVIOUS
    <2>3. ts[k] = IF x.id = t THEN [x EXCEPT !.img = y] ELSE x
      OBVIOUS
    <2> HIDE DEF x, y, ts
    <2>4. [x EXCEPT !.img = y].id = x.id /\ [x EXCEPT !.img = y].status = x.status /\ [x EXCEPT !.img = y].img = y
      BY <2>1
    <2>5. /\ ts[k].id = x.id /\ ts[k].status = x.status
          /\ x.id # t => ts[k] = x
          /\ \A n \in DOMAIN x.img : n # i => ts[k].img[n] = x.img[n]
      BY <2>2, <2>3, <2>4
    <2> QED
      BY <2>5 DEF x
  <1>6. DOMAIN ts = DOMAIN conv.turns
    OBVIOUS
  <1> HIDE DEF ts, new, conv, t, i
  <1>7. ASSUME Distinct(conv), NEW k \in DOMAIN conv.turns PROVE TurnKeeps(ts[k], conv.turns[k])
    <2>1. CASE conv.turns[k].id # t
      BY <1>5, <2>1 DEF TurnKeeps
    <2>2. CASE conv.turns[k].id = t
      <3>1. TurnOf(conv, t) = conv.turns[k]
        BY <1>3, <1>7, <2>2, TurnOfId
      <3> QED
        BY <1>4, <1>5, <3>1 DEF TurnKeeps
    <2> QED
      BY <2>1, <2>2
  <1>8. EditsOne(t, new, conv)
    BY <1>1, <1>2, <1>5, <1>6, <1>7 DEF EditsOne
  <1>9. \A k \in DOMAIN conv.turns : Unfinished(new.turns[k]) => Unfinished(conv.turns[k])
    BY <1>2, <1>5 DEF Unfinished
  <1> QED
    BY <1>8, <1>9 DEF new, conv, t

\* What a step of a run does to the turns.
LEMMA RunStepEdits ==
  ASSUME TypeInv, NEW l \in Loops, RunStep(l)
  PROVE  UNCHANGED list \/ Begins(l) \/ GoesOn(l)
PROOF
  <1> DEFINE c == loop[l].conv
  <1>0. /\ MemoryT /\ (c \in Convs /\ list[c] # None => list[c] \in Conversation)
        /\ Running(l) \/ loop[l].pc = "enter" => c \in Convs
    BY DEF TypeInv, MemoryT, ItemsT, LoopT, Running
  <1>1. ASSUME NEW m, NEW conv \in Conversation, c \in Convs, Put(m, c, conv) PROVE list'[c] = conv
    <2>1. list' = [list EXCEPT ![c] = conv]
      BY <1>1 DEF Put, Show
    <2> QED
      BY <1>0, <1>1, <2>1 DEF MemoryT, ItemsT
  <1>2. CASE LoopPick(l) \/ LoopEnd(l) \/ LoopTurnedAway(l) \/ LoopBatch(l) \/ LoopDisowned(l) \/ LoopQuota(l)
    BY <1>2 DEF LoopPick, LoopEnd, LoopTurnedAway, LoopBatch, LoopDisowned, LoopQuota, memory
  <1>3. CASE LoopEnter(l)
    <2> DEFINE t == EnteredTurn(l).id
               conv == Edited(list[c], t, Generating)
    <2>1. loop[l].pc = "enter" /\ (UNCHANGED memory \/ (list[c] # None /\ Put(loop[l].mount, c, conv)))
      BY <1>3 DEF LoopEnter, EnteredTurn
    <2>2. CASE UNCHANGED memory
      BY <2>2 DEF memory
    <2>3. CASE list[c] # None /\ Put(loop[l].mount, c, conv)
      <3>0. c \in Convs /\ list[c] \in Conversation /\ conv \in Conversation
        BY <1>0, <2>1, <2>3, ConversationsMade
      <3>1. EditsOne(t, conv, list[c]) /\ \A k \in DOMAIN list[c].turns : list[c].turns[k].id = t => Unfinished(conv.turns[k])
        BY <3>0, EditsKeep
      <3> HIDE DEF conv
      <3>2. list'[c] = conv
        BY <1>1, <2>3, <3>0
      <3> QED
        BY <1>3, <3>1, <3>2 DEF Begins
    <2> QED
      BY <2>1, <2>2, <2>3
  <1>4. ASSUME NEW conv \in Conversation, loop[l].pc \in {"batch", "final", "failing"}, c \in Convs, Put(loop[l].mount, c, conv),
               EditsOne(loop[l].turn, conv, list[c]),
               \A k \in DOMAIN list[c].turns : Unfinished(conv.turns[k]) => Unfinished(list[c].turns[k])
        PROVE  GoesOn(l)
    BY <1>1, <1>4 DEF GoesOn
  <1>5. CASE LoopJoin(l) \/ LoopFinal(l) \/ LoopFail(l)
    <2> DEFINE A == Edited(list[c], loop[l].turn, Cancelled)
               B == Edited(list[c], loop[l].turn, Finished)
               F == Edited(list[c], loop[l].turn, Failed)
    <2>1. /\ loop[l].pc \in {"batch", "final", "failing"}
          /\ \/ UNCHANGED memory
             \/ list[c] # None /\ (Put(loop[l].mount, c, A) \/ Put(loop[l].mount, c, B) \/ Put(loop[l].mount, c, F))
      BY <1>5 DEF LoopJoin, LoopFinal, LoopFail, SettleTurn
    <2>2. CASE UNCHANGED memory
      BY <2>2 DEF memory
    <2>3. CASE list[c] # None /\ (Put(loop[l].mount, c, A) \/ Put(loop[l].mount, c, B) \/ Put(loop[l].mount, c, F))
      <3>0. c \in Convs /\ list[c] \in Conversation /\ A \in Conversation /\ B \in Conversation /\ F \in Conversation
        BY <1>0, <2>1, <2>3, ConversationsMade DEF Running
      <3>1. /\ EditsOne(loop[l].turn, A, list[c]) /\ \A k \in DOMAIN list[c].turns : Unfinished(A.turns[k]) => Unfinished(list[c].turns[k])
            /\ EditsOne(loop[l].turn, B, list[c]) /\ \A k \in DOMAIN list[c].turns : Unfinished(B.turns[k]) => Unfinished(list[c].turns[k])
            /\ EditsOne(loop[l].turn, F, list[c]) /\ \A k \in DOMAIN list[c].turns : Unfinished(F.turns[k]) => Unfinished(list[c].turns[k])
        BY <3>0, EditsKeep
      <3> HIDE DEF A, B, F
      <3> QED
        BY <1>4, <2>1, <2>3, <3>0, <3>1
    <2> QED
      BY <2>1, <2>2, <2>3
  <1>6. ASSUME NEW w \in Workers, WorkerStep(l, w) PROVE UNCHANGED list \/ GoesOn(l)
    <2>1. CASE WorkerPut(l, w)
      <3>1. /\ worker[l][w].pc = "answered" /\ Pending(l, w) /\ Put(loop[l].mount, c, WithAnswer(l, w))
        BY <1>0, <2>1, AnswerPutDoes DEF WorkerPut, TypeInv
      <3>2. loop[l].pc = "batch" /\ c \in Convs
        BY <1>0, <3>1 DEF TypeInv, WorkerT, Running
      <3>3. WithAnswer(l, w) \in Conversation
        BY <3>1, WithAnswerIs
      <3> QED
        BY <1>4, <3>1, <3>2, <3>3, AnswerKeeps
    <2> QED
      BY <1>6, <2>1 DEF WorkerStep, WorkerTake, WorkerStop, WorkerAnswered, WorkerLate, WorkerSave, WorkerChainBroken, memory
  <1> QED
    BY <1>2, <1>3, <1>5, <1>6 DEF RunStep, MidRun

\* A conversation with the same turns, which keep their answers.
SameTurns(new, old) ==
    /\ new \in Conversation /\ DOMAIN new.turns = DOMAIN old.turns
    /\ \A k \in DOMAIN old.turns : TurnKeeps(new.turns[k], old.turns[k])

\* What is recovered or brought back has its turns and their answers.
LEMMA OverKeeps ==
  ASSUME NEW conv \in Conversation
  PROVE  SameTurns(Over(conv, Recover), conv) /\ SameTurns(MarkAborted(conv), conv)
PROOF
  <1>0. \A k \in DOMAIN conv.turns : conv.turns[k] \in Turn /\ TurnKeeps(conv.turns[k], conv.turns[k])
    BY DEF Conversation, TurnKeeps
  <1>1. CASE \A k \in DOMAIN conv.turns : ~Unfinished(conv.turns[k])
    BY <1>0, <1>1 DEF Over, MarkAborted, SameTurns
  <1>2. CASE \E k \in DOMAIN conv.turns : Unfinished(conv.turns[k])
    <2> DEFINE A == [k \in DOMAIN conv.turns |-> Recover(conv.turns[k])]
               B == [k \in DOMAIN conv.turns |-> Cancelled(conv.turns[k])]
    <2>1. /\ Over(conv, Recover).turns = A /\ MarkAborted(conv).turns = B
          /\ Over(conv, Recover) \in Conversation /\ MarkAborted(conv) \in Conversation
      BY <1>2, NoneIsNoConversation, ConversationsMade DEF Over, MarkAborted
    <2>2. \A k \in DOMAIN conv.turns : TurnKeeps(A[k], conv.turns[k]) /\ TurnKeeps(B[k], conv.turns[k])
      BY <1>0, TurnsKept
    <2>3. DOMAIN A = DOMAIN conv.turns /\ DOMAIN B = DOMAIN conv.turns
      OBVIOUS
    <2> HIDE DEF A, B
    <2> QED
      BY <2>1, <2>2, <2>3 DEF SameTurns
  <1> QED
    BY <1>1, <1>2

\* The conversation of a submission has the turns it had, and one more, which is queued.
LEMMA WithTurnKeeps ==
  ASSUME TypeInv, NEW c \in Convs, used.turns + 1 \in Turns
  PROVE  LET new == WithTurn(c).turns
             n == IF list[c] = None THEN 0 ELSE Len(list[c].turns)
         IN
         /\ n \in Nat /\ DOMAIN new = 1 .. n + 1
         /\ list[c] # None => DOMAIN list[c].turns = 1 .. n /\ \A k \in 1 .. n : new[k] = list[c].turns[k]
         /\ new[n + 1].id = used.turns + 1 /\ Unfinished(new[n + 1])
PROOF
  <1>1. NewTurn \in Turn /\ NewTurn.id = used.turns + 1 /\ Unfinished(NewTurn)
    BY WithTurnIs DEF TypeInv, NewTurn, Unfinished
  <1>2. CASE list[c] = None
    <2>1. WithTurn(c).turns = <<NewTurn>>
      BY <1>2 DEF WithTurn
    <2> QED
      BY <1>1, <1>2, <2>1
  <1>3. CASE list[c] # None
    <2>1. WithTurn(c).turns = Append(list[c].turns, NewTurn)
      BY <1>3 DEF WithTurn
    <2>2. list[c].turns \in Seq(Turn)
      BY <1>3 DEF TypeInv, MemoryT, ItemsT, Conversation
    <2> QED
      BY <1>1, <1>3, <2>1, <2>2
  <1> QED
    BY <1>2, <1>3

-----------------------------------------------------------------------------
(* The ids of turns: a conversation has each once, and no id that was not  *)
(* handed out.                                                             *)

Sound(n, conv) == Distinct(conv) /\ (conv # None => \A k \in DOMAIN conv.turns : conv.turns[k].id <= n)
SoundIn(n, items) == \A c \in Convs : Sound(n, items[c])
WriteSound(n, x) ==
    /\ SoundIn(n, x.items)
    /\ x.by.kind = "delete" => Sound(n, x.by.before)
    /\ x.by.kind = "clear" => SoundIn(n, x.by.before)
SoundInQueue == \A x \in InQueue : WriteSound(used.turns, x)
SoundInv ==
    /\ SoundIn(used.turns, list) /\ SoundIn(used.turns, load.items) /\ SoundIn(used.turns, stored)
    /\ SoundInQueue

\* Ids are handed out one after the other.
LEMMA TurnsGrow ==
  ASSUME TypeInv, [Next]_vars
  PROVE  used'.turns >= used.turns
PROOF
  <1>1. used.turns \in Int
    BY UsedAre, QueueAssumption
  <1>2. CASE used' = used
    BY <1>1, <1>2
  <1>3. ASSUME NEW c \in Convs, Submit(c) PROVE used'.turns >= used.turns
    <2>1. PICK x \in Writes : SubmitDoes(c, x)
      BY <1>3, SubmitSaves
    <2> QED
      BY <1>1, <2>1 DEF SubmitDoes
  <1>4. ASSUME NEW l \in Loops, RunStep(l) PROVE used' = used
    BY <1>4, RunStepDoes DEF Elsewhere
  <1>5. SitsStill \/ GoesAway \/ Open \/ LoadHistory \/ Clear \/ (\E c \in Convs : Delete(c)) \/ Reload => used' = used
    <2>1. SitsStill => used' = used
      BY SitsStillIs DEF Unmoved
    <2> QED
      BY <2>1 DEF GoesAway, Leave, LogOut, Open, LoadHistory, Clear, Delete, Reload
  <1>6. WriteDone \/ WriteFailed => used' = used
    BY WriteEndsIs DEF WriteEnds
  <1> QED
    BY <1>2, <1>3, <1>4, <1>5, <1>6, StepCases

\* What is sound stays so when more ids are handed out.
LEMMA SoundStays ==
  ASSUME NEW n \in Int, NEW m \in Int, n <= m
  PROVE  /\ \A conv \in Conversation \cup {None} : Sound(n, conv) => Sound(m, conv)
         /\ \A items \in ItemsT : SoundIn(n, items) => SoundIn(m, items)
         /\ \A x \in Writes : WriteSound(n, x) => WriteSound(m, x)
PROOF
  <1>1. ASSUME NEW conv \in Conversation \cup {None}, Sound(n, conv) PROVE Sound(m, conv)
    <2>1. ASSUME conv # None, NEW k \in DOMAIN conv.turns PROVE conv.turns[k].id \in Int
      <3>1. conv.turns[k] \in Turn
        BY <2>1 DEF Conversation
      <3> QED
        BY <3>1, TurnIs, QueueAssumption DEF Turns
    <2> QED
      BY <1>1, <2>1 DEF Sound
  <1>2. ASSUME NEW items \in ItemsT, SoundIn(n, items) PROVE SoundIn(m, items)
    BY <1>1, <1>2 DEF SoundIn, ItemsT
  <1>3. ASSUME NEW x \in Writes, WriteSound(n, x) PROVE WriteSound(m, x)
    <2>1. /\ x.items \in ItemsT /\ (x.by.kind = "delete" => x.by.before \in Conversation)
          /\ (x.by.kind = "clear" => x.by.before \in ItemsT)
      BY WriteIs, ByIs
    <2> QED
      BY <1>1, <1>2, <1>3, <2>1 DEF WriteSound
  <1> QED
    BY <1>1, <1>2, <1>3

\* Changing turns, and leaving them, leaves their ids.
LEMMA SoundChanged ==
  ASSUME NEW n, NEW conv \in Conversation \cup {None}, Sound(n, conv)
  PROVE  /\ Sound(n, Over(conv, Recover)) /\ Sound(n, MarkAborted(conv)) /\ Sound(n, None)
         /\ \A new, t : EditsOne(t, new, conv) => Sound(n, new)
PROOF
  <1>1. Sound(n, None)
    BY DEF Sound, Distinct
  <1>2. conv = None => Over(conv, Recover) = None /\ MarkAborted(conv) = None
    BY DEF Over, MarkAborted
  <1>3. ASSUME conv \in Conversation, NEW new, DOMAIN new.turns = DOMAIN conv.turns,
               \A k \in DOMAIN conv.turns : new.turns[k].id = conv.turns[k].id
        PROVE  Sound(n, new)
    BY <1>3, NoneIsNoConversation DEF Sound, Distinct
  <1>4. conv \in Conversation => Sound(n, Over(conv, Recover)) /\ Sound(n, MarkAborted(conv))
    BY <1>3, OverKeeps DEF SameTurns, TurnKeeps
  <1>5. ASSUME NEW new, NEW t, EditsOne(t, new, conv) PROVE Sound(n, new)
    BY <1>3, <1>5 DEF EditsOne
  <1> QED
    BY <1>1, <1>2, <1>4, <1>5

\* What a step leaves alone stays sound; what it shows and appends has to be.
LEMMA SoundLeft ==
  ASSUME TypeInv, TypeInv', SoundInv, used'.turns >= used.turns
  PROVE  /\ used.turns \in Int /\ used'.turns \in Int
         /\ SoundIn(used'.turns, NoItems) /\ SoundIn(used'.turns, list) /\ SoundIn(used'.turns, load.items)
         /\ SoundIn(used'.turns, stored) /\ \A x \in InQueue : x \in Writes /\ WriteSound(used'.turns, x)
         /\ InQueue' \subseteq InQueue => SoundInQueue'
         /\ \A x \in Writes : writes' = Append(writes, x) /\ WriteSound(used'.turns, x) => SoundInQueue'
PROOF
  <1>1. used.turns \in Int /\ used'.turns \in Int /\ used.turns <= used'.turns
    BY DEF TypeInv, CountsT
  <1>2. InQueue \subseteq Writes /\ list \in ItemsT /\ load.items \in ItemsT /\ stored \in ItemsT
    BY DEF InQueue, TypeInv, PendingT, MemoryT, LoadT, DiskT
  <1>3. SoundIn(used'.turns, NoItems)
    BY DEF SoundIn, NoItems, Sound, Distinct
  <1>4. /\ SoundIn(used'.turns, list) /\ SoundIn(used'.turns, load.items) /\ SoundIn(used'.turns, stored)
        /\ \A x \in InQueue : x \in Writes /\ WriteSound(used'.turns, x)
    BY <1>1, <1>2, SoundStays DEF SoundInv, SoundInQueue
  <1>5. InQueue' \subseteq InQueue => SoundInQueue'
    BY <1>4 DEF SoundInQueue
  <1>6. ASSUME NEW x \in Writes, writes' = Append(writes, x), WriteSound(used'.turns, x) PROVE SoundInQueue'
    <2>1. InQueue' = InQueue \cup {x}
      BY <1>6, QueueGrows DEF TypeInv
    <2> QED
      BY <1>4, <1>6, <2>1 DEF SoundInQueue
  <1> QED
    BY <1>1, <1>3, <1>4, <1>5, <1>6

\* A step of a run.
LEMMA RunKeepsSound ==
  ASSUME TypeInv, TypeInv', SoundInv, NEW l \in Loops, RunStep(l)
  PROVE  SoundInv'
PROOF
  <1> DEFINE c == loop[l].conv
  <1>1. UNCHANGED Elsewhere /\ RunLeaves(l) /\ (UNCHANGED list \/ Begins(l) \/ GoesOn(l))
    BY RunStepLeaves, RunStepEdits
  <1>2. used' = used /\ load' = load /\ stored' = stored /\ used'.turns >= used.turns
    BY <1>1, UsedAre, QueueAssumption DEF Elsewhere, disk
  <1>3. SoundIn(used.turns, list')
    <2>1. CASE UNCHANGED list
      BY <2>1 DEF SoundInv
    <2>2. ASSUME NEW t, EditsOne(t, list'[c], list[c]), c \in Convs, list' = [list EXCEPT ![c] = list'[c]]
          PROVE  SoundIn(used.turns, list')
      <3>1. Sound(used.turns, list'[c])
        <4>1. list[c] \in Conversation /\ Sound(used.turns, list[c])
          BY <2>2 DEF SoundInv, SoundIn, EditsOne
        <4> HIDE DEF c
        <4>2. \A new, u : EditsOne(u, new, list[c]) => Sound(used.turns, new)
          BY <4>1, SoundChanged
        <4> QED
          BY <2>2, <4>2
      <3>2. \A d \in Convs \ {c} : list'[d] = list[d]
        BY <2>2 DEF TypeInv, MemoryT, ItemsT
      <3> QED
        BY <3>1, <3>2 DEF SoundInv, SoundIn
    <2> QED
      BY <1>1, <2>1, <2>2 DEF RunLeaves, Begins, GoesOn
  <1>4. SoundInQueue'
    <2>1. ASSUME NEW x \in Writes, writes' = Append(writes, x), SaveBy(x, c, {"loop", "worker"}), c \in Convs
          PROVE  SoundInQueue'
      <3>1. SoundIn(used.turns, x.items)
        BY <1>3, <2>1 DEF SaveBy, SoundIn, Sound, Distinct
      <3>2. WriteSound(used'.turns, x)
        BY <1>2, <2>1, <3>1 DEF SaveBy, WriteSound
      <3> QED
        BY <1>2, <2>1, <3>2, SoundLeft
    <2>2. UNCHANGED writes => SoundInQueue'
      BY <1>2, SoundLeft DEF InQueue
    <2> QED
      BY <1>1, <2>1, <2>2 DEF RunLeaves
  <1> QED
    BY <1>2, <1>3, <1>4 DEF SoundInv

\* The steps of the page and its user.
LEMMA PageKeepsSound ==
  ASSUME TypeInv, TypeInv', SoundInv, [Next]_vars,
         SitsStill \/ GoesAway \/ Open \/ Clear \/ \E c \in Convs : Submit(c) \/ Delete(c)
  PROVE  SoundInv'
PROOF
  <1>0. used'.turns >= used.turns
    BY TurnsGrow
  <1>1. ASSUME stored' = stored, UNCHANGED load \/ load'.items = NoItems, SoundIn(used'.turns, list'), SoundInQueue'
        PROVE  SoundInv'
    BY <1>0, <1>1, SoundLeft DEF SoundInv
  <1>2. CASE SitsStill \/ GoesAway \/ Open
    <2>1. UNCHANGED <<list, writes, disk>> /\ (UNCHANGED load \/ load'.items = NoItems)
      <3>1. CASE SitsStill
        BY <3>1, SitsStillIs DEF Unmoved, Unshown
      <3>2. CASE GoesAway
        BY <3>2, GoesAwayIs DEF LeavesPage
      <3>3. CASE Open
        BY <3>3 DEF Open
      <3> QED
        BY <1>2, <3>1, <3>2, <3>3
    <2> QED
      BY <1>0, <1>1, <2>1, SoundLeft DEF InQueue, disk
  <1>3. ASSUME NEW c \in Convs, Submit(c) PROVE SoundInv'
    <2>1. PICK x \in Writes : SubmitDoes(c, x)
      BY <1>3, SubmitSaves
    <2>2. list' = [list EXCEPT ![c] = WithTurn(c)] /\ used'.turns = used.turns + 1 /\ used.turns + 1 \in Turns
      BY <2>1 DEF SubmitDoes, Shown
    <2>3. Sound(used'.turns, WithTurn(c))
      <3> DEFINE new == WithTurn(c).turns
                 n == IF list[c] = None THEN 0 ELSE Len(list[c].turns)
                 u == used.turns
      <3>1. /\ n \in Nat /\ DOMAIN new = 1 .. n + 1 /\ u \in Int
            /\ list[c] # None => DOMAIN list[c].turns = 1 .. n /\ \A k \in 1 .. n : new[k] = list[c].turns[k]
            /\ new[n + 1].id = u + 1
        BY <1>0, <2>2, WithTurnKeeps, SoundLeft
      <3>2. list[c] # None => \A k \in 1 .. n : list[c].turns[k].id <= u /\ list[c].turns[k].id \in Int
        <4> SUFFICES ASSUME list[c] # None, NEW k \in 1 .. n PROVE list[c].turns[k].id <= u /\ list[c].turns[k].id \in Int
          OBVIOUS
        <4>1. k \in DOMAIN list[c].turns /\ list[c].turns[k] \in Turn
          BY <3>1 DEF TypeInv, MemoryT, ItemsT, Conversation
        <4> QED
          BY <4>1, TurnIs, QueueAssumption DEF SoundInv, SoundIn, Sound, Turns
      <3>3. list[c] = None => n = 0
        OBVIOUS
      <3>4. Distinct(list[c])
        BY DEF SoundInv, SoundIn, Sound
      <3> HIDE DEF n, new, u
      <3>5. \A k \in 1 .. n + 1 : new[k].id <= u + 1 /\ (k # n + 1 => new[k].id # u + 1)
        BY <3>1, <3>2, <3>3
      <3>6. \A j, k \in 1 .. n + 1 : new[j].id = new[k].id => j = k
        BY <3>1, <3>3, <3>4, <3>5 DEF Distinct
      <3> QED
        BY <2>2, <3>1, <3>5, <3>6 DEF Sound, Distinct, new, u
    <2>4. SoundIn(used'.turns, list')
      <3>1. \A d \in Convs : list'[d] = IF d = c THEN WithTurn(c) ELSE list[d]
        BY <2>2 DEF TypeInv, MemoryT, ItemsT
      <3> QED
        BY <1>0, <2>3, <3>1, SoundLeft DEF SoundIn
    <2>5. WriteSound(used'.turns, x)
      BY <2>1, <2>3 DEF SubmitDoes, WriteSound, SoundIn, Sound, Distinct
    <2>6. SoundInQueue'
      BY <1>0, <2>1, <2>5, SoundLeft DEF SubmitDoes
    <2> QED
      BY <1>1, <2>1, <2>4, <2>6 DEF SubmitDoes, disk
  <1>4. ASSUME NEW c \in Convs, Delete(c) PROVE SoundInv'
    <2>1. PICK x \in Writes : DeleteDoes(c, x)
      BY <1>4, DeleteSaves
    <2>2. \A d \in Convs : list'[d] = IF d = c THEN None ELSE list[d]
      BY <2>1 DEF DeleteDoes, Shown, TypeInv, MemoryT, ItemsT
    <2>3. SoundIn(used'.turns, list')
      BY <1>0, <2>2, SoundLeft DEF SoundIn, Sound, Distinct
    <2>4. WriteSound(used'.turns, x)
      BY <1>0, <2>1, SoundLeft DEF DeleteDoes, WriteSound, SoundIn
    <2>5. SoundInQueue'
      BY <1>0, <2>1, <2>4, SoundLeft DEF DeleteDoes
    <2> QED
      BY <1>1, <2>1, <2>3, <2>5 DEF DeleteDoes, disk
  <1>5. CASE Clear
    <2>1. PICK x \in Writes : ClearDoes(x)
      BY <1>5, ClearSaves
    <2>2. SoundIn(used'.turns, list')
      BY <1>0, <2>1, SoundLeft DEF ClearDoes, Shown
    <2>3. WriteSound(used'.turns, x)
      BY <1>0, <2>1, SoundLeft DEF ClearDoes, WriteSound
    <2>4. SoundInQueue'
      BY <1>0, <2>1, <2>3, SoundLeft DEF ClearDoes
    <2> QED
      BY <1>1, <2>1, <2>2, <2>4 DEF ClearDoes, disk
  <1> QED
    BY <1>2, <1>3, <1>4, <1>5

\* Reading the history.
LEMMA LoadHistoryKeepsSound ==
  ASSUME TypeInv, TypeInv', SoundInv, LoadHistory
  PROVE  SoundInv'
PROOF
  <1>1. UNCHANGED <<disk, used>> /\ used'.turns >= used.turns
    BY LoadHistoryIs, UsedAre, QueueAssumption
  <1>2. SoundIn(used.turns, Visible) /\ SoundIn(used.turns, History)
    <2>1. \A c \in Convs : Visible[c] \in Conversation \cup {None} /\ Sound(used.turns, Visible[c])
      BY DEF SoundInv, SoundIn, Visible, Sound, Distinct, TypeInv, DiskT, ItemsT
    <2>2. \A c \in Convs : Sound(used.turns, Recovered(Visible)[c])
      BY <2>1, SoundChanged DEF Recovered
    <2> QED
      BY <2>1, <2>2 DEF SoundIn, History
  <1>3. CASE HistoryShown
    <2>1. list' = Visible /\ load'.items = NoItems /\ UNCHANGED writes
      BY <1>3 DEF HistoryShown, Shown
    <2> QED
      BY <1>1, <1>2, <2>1, SoundLeft DEF SoundInv, InQueue, disk
  <1>4. ASSUME NEW x \in Writes, HistorySaved(x) PROVE SoundInv'
    <2>1. SoundIn(used.turns, load'.items) /\ UNCHANGED list
      BY <1>2, <1>4 DEF HistorySaved, memory
    <2>2. writes' = Append(writes, x) /\ WriteSound(used'.turns, x)
      BY <1>1, <1>2, <1>4 DEF HistorySaved, WriteSound
    <2>3. SoundInQueue'
      BY <1>1, <2>2, SoundLeft
    <2> QED
      BY <1>1, <2>1, <2>3 DEF SoundInv, disk
  <1> QED
    BY <1>3, <1>4, HistoryComes

\* What is stored was stored or was written.
LEMMA StoreSound ==
  ASSUME TypeInv, NEW n, SoundIn(n, stored), NEW x \in Writes, WriteSound(n, x), Ok(x) \/ Broken(x)
  PROVE  SoundIn(n, stored')
PROOF
  <1>0. x.op \in {"save", "all", "delete", "clear"} /\ Sound(n, None)
    BY WriteIs DEF Sound, Distinct
  <1>1. CASE Broken(x)
    BY <1>1 DEF Broken
  <1>2. CASE Ok(x) /\ x.op \in {"save", "all"}
    <2>1. \A c \in Convs : stored'[c] \in {None, stored[c], x.items[c]}
      BY <1>2 DEF Ok, Merged, Newest
    <2> QED
      BY <1>0, <2>1 DEF WriteSound, SoundIn
  <1>3. CASE Ok(x) /\ x.op = "delete"
    <2>1. \A c \in Convs : stored'[c] \in {None, stored[c]}
      BY <1>3 DEF Ok, TypeInv, DiskT, ItemsT
    <2> QED
      BY <1>0, <2>1 DEF SoundIn
  <1>4. CASE Ok(x) /\ x.op = "clear"
    BY <1>0, <1>4 DEF Ok, SoundIn, NoItems
  <1> QED
    BY <1>0, <1>1, <1>2, <1>3, <1>4

\* The end of a write.
LEMMA WriteOverKeepsSound ==
  ASSUME TypeInv, TypeInv', SoundInv, WriteDone \/ WriteFailed
  PROVE  SoundInv'
PROOF
  <1> DEFINE x == Head(writes)
             b == x.by
  <1>1. PICK ok \in BOOLEAN : WriteEnds(ok)
    BY WriteEndsIs
  <1>2. /\ writes # <<>> /\ writes' = Tail(writes) /\ Resume(b, ok) /\ (Ok(x) \/ Broken(x))
        /\ used' = used /\ used'.turns >= used.turns
    BY <1>1, UsedAre, QueueAssumption DEF WriteEnds
  <1>3. x \in Writes /\ b \in Bys /\ Awaited(b)
    BY <1>2, HeadIs DEF TypeInv
  <1>4. Brought(b, ok)
    BY <1>2, <1>3, ResumeBrings
  <1>5. InQueue' \subseteq InQueue /\ x \in InQueue
    BY <1>2, QueueShrinks DEF TypeInv
  <1>6. WriteSound(used.turns, x)
    BY <1>5 DEF SoundInv, SoundInQueue
  <1> HIDE DEF x
  <1>7. SoundIn(used.turns, stored')
    BY <1>2, <1>3, <1>6, StoreSound DEF SoundInv
  <1>8. SoundIn(used.turns, load'.items) /\ SoundInQueue'
    BY <1>2, <1>4, <1>5, SoundLeft DEF Brought, SoundInv
  <1>9. SoundIn(used.turns, list')
    <2>1. CASE ForScreen(b) /\ ok
      BY <1>4, <2>1 DEF Brought, Shown, SoundInv
    <2>2. CASE b.kind = "delete" /\ ~ok
      <3>1. list' = [list EXCEPT ![b.conv] = MarkAborted(b.before)] /\ b.before \in Conversation
        BY <1>3, <1>4, <2>2, ByIs DEF Brought, Shown
      <3>2. Sound(used.turns, MarkAborted(b.before))
        BY <1>6, <2>2, <3>1, SoundChanged DEF WriteSound
      <3>3. \A c \in Convs : list'[c] \in {list[c], MarkAborted(b.before)}
        BY <3>1 DEF TypeInv, MemoryT, ItemsT
      <3> QED
        BY <3>2, <3>3 DEF SoundInv, SoundIn
    <2>3. CASE b.kind = "clear" /\ ~ok
      <3>1. list' = [c \in Convs |-> MarkAborted(b.before[c])] /\ b.before \in ItemsT
        BY <1>3, <1>4, <2>3, ByIs DEF Brought, Shown
      <3>2. \A c \in Convs : Sound(used.turns, MarkAborted(b.before[c]))
        BY <1>6, <2>3, <3>1, SoundChanged DEF WriteSound, SoundIn, ItemsT
      <3> QED
        BY <3>1, <3>2 DEF SoundIn
    <2>4. CASE UNCHANGED list
      BY <2>4 DEF SoundInv
    <2> QED
      BY <1>3, <1>4, <2>1, <2>2, <2>3, <2>4, ByIs DEF Brought, Unshown
  <1> QED
    BY <1>2, <1>7, <1>8, <1>9 DEF SoundInv

\* A reload.
LEMMA ReloadKeepsSound ==
  ASSUME TypeInv, TypeInv', SoundInv, Reload
  PROVE  SoundInv'
PROOF
  <1>1. Loaded'
    BY ReloadLoads
  <1>2. /\ IF writes = <<>> THEN UNCHANGED disk ELSE Broken(Head(writes))
        /\ used' = used
    BY DEF Reload
  <1>3. stored' = stored
    BY <1>2 DEF disk, Broken
  <1>4. list' = NoItems /\ load'.items = NoItems /\ InQueue' = {}
    BY <1>1 DEF Loaded, InQueue
  <1>5. \A n : SoundIn(n, NoItems)
    BY DEF SoundIn, NoItems, Sound, Distinct
  <1> QED
    BY <1>2, <1>3, <1>4, <1>5 DEF SoundInv, SoundInQueue

\* Every step keeps the ids of turns apart.
LEMMA StepKeepsSound == TypeInv /\ TypeInv' /\ SoundInv /\ [Next]_vars => SoundInv'
PROOF
  <1> SUFFICES ASSUME TypeInv, TypeInv', SoundInv, [Next]_vars PROVE SoundInv'
    OBVIOUS
  <1>1. CASE SitsStill \/ GoesAway \/ Open \/ Clear \/ \E c \in Convs : Submit(c) \/ Delete(c)
    BY <1>1, PageKeepsSound
  <1>2. ASSUME NEW l \in Loops, RunStep(l) PROVE SoundInv'
    BY <1>2, RunKeepsSound
  <1> QED
    BY <1>1, <1>2, StepCases, LoadHistoryKeepsSound, WriteOverKeepsSound, ReloadKeepsSound

\* At first no conversation has turns.
LEMMA InitIsSound == Init => SoundInv
PROOF
  <1> SUFFICES ASSUME Init PROVE SoundInv
    OBVIOUS
  <1>1. list = NoItems /\ load.items = NoItems /\ stored = NoItems /\ InQueue = {}
    BY DEF Init, InQueue
  <1>2. \A n : SoundIn(n, NoItems)
    BY DEF SoundIn, NoItems, Sound, Distinct
  <1> QED
    BY <1>1, <1>2 DEF SoundInv, SoundInQueue

-----------------------------------------------------------------------------
(* What a patient user's history recovers is what is written of it,        *)
(* whether writes fail or not.                                             *)

RecoveryInv == Patient => FreshHistory /\ SavedHistory

\* A step that leaves the store as it is, and what is recovered on its way.
LEMMA RecoveryStays ==
  ASSUME FreshHistory, SavedHistory, UNCHANGED disk, Fresh' => Fresh /\ InQueue' \subseteq InQueue,
         load'.pc = "saving" => UNCHANGED load
  PROVE  FreshHistory' /\ SavedHistory'
PROOF
  <1>1. Recovered(Visible)' = Recovered(Visible)
    BY DEF disk, Visible, Recovered
  <1> QED
    BY <1>1 DEF FreshHistory, SavedHistory

\* The steps of runs and users.
LEMMA OthersKeepRecovery ==
  ASSUME TypeInv, MountsInv, HistoryInv, RecoveryInv,
         \/ \E l \in Loops : RunStep(l)
         \/ SitsStill \/ GoesAway \/ Open \/ Clear \/ \E c \in Convs : Submit(c) \/ Delete(c)
  PROVE  RecoveryInv'
PROOF
  <1> SUFFICES ASSUME Patient' PROVE FreshHistory' /\ SavedHistory'
    BY DEF RecoveryInv
  <1>0. Grows => Patient /\ FreshHistory /\ SavedHistory
    BY PatientBefore DEF RecoveryInv
  <1>1. ASSUME NEW l \in Loops, RunStep(l) PROVE FreshHistory' /\ SavedHistory'
    <2>1. UNCHANGED Elsewhere /\ RunLeaves(l) /\ Grows
      BY <1>1, RunStepLeaves, UsedAre DEF Elsewhere, Grows
    <2>2. UNCHANGED <<load, disk, happened>> /\ SameMount
      BY <2>1 DEF Elsewhere, RunLeaves, SameMount
    <2>3. ASSUME Fresh' PROVE Fresh /\ InQueue' \subseteq InQueue
      <3>1. list' = list
        <4> DEFINE c == loop[l].conv
        <4>1. UNCHANGED list \/ (c \in Convs /\ list'[c] # None)
          BY <2>1, NoneIsNoConversation DEF RunLeaves, EditOf
        <4>2. list' = NoItems
          BY <2>3 DEF Fresh
        <4> HIDE DEF c
        <4> QED
          BY <4>1, <4>2, SomethingListed
      <3>2. Fresh /\ Idle
        BY <1>0, <2>1, <2>2, <2>3, <3>1 DEF Fresh, SameMount, HistoryInv, FreshIsIdle, Deletions
      <3>3. LoopPick(l)
        BY <1>1, <3>2, RestingOnlyPicks DEF Idle
      <3> QED
        BY <3>2, <3>3 DEF LoopPick, InQueue
    <2> QED
      BY <1>0, <2>1, <2>2, <2>3, RecoveryStays
  <1>2. CASE SitsStill
    <2>1. Unmoved /\ Grows
      BY <1>2, SitsStillIs DEF Unmoved
    <2>2. Fresh' => Fresh
      BY <2>1, PatientBefore DEF Fresh, Unmoved, Unshown, SameMount
    <2> QED
      BY <1>0, <2>1, <2>2, RecoveryStays DEF Unmoved, InQueue
  <1>3. CASE GoesAway
    <2>1. LeavesPage /\ Grows
      BY <1>3, GoesAwayIs DEF LeavesPage
    <2>2. ~Deletions
      BY <2>1 DEF LeavesPage, Grows, Patient, ReadBeforeDeletion, Deletions
    <2>3. Fresh' => Fresh
      BY <2>1, <2>2 DEF Fresh, LeavesPage
    <2> QED
      BY <1>0, <2>1, <2>3, RecoveryStays DEF LeavesPage, InQueue
  <1>4. CASE Open
    <2>1. /\ page.mount = 0 /\ load'.pc \in {"reading", "off"} /\ UNCHANGED <<list, disk, writes, used, happened>>
      BY <1>4 DEF Open
    <2>2. Grows
      BY <2>1, UsedAre DEF Grows
    <2>3. Fresh' => Fresh
      BY <2>1 DEF Fresh
    <2> QED
      BY <1>0, <2>1, <2>2, <2>3, RecoveryStays DEF InQueue
  <1>5. ASSUME NEW c \in Convs, Submit(c) PROVE FreshHistory' /\ SavedHistory'
    <2>1. PICK x \in Writes : SubmitDoes(c, x)
      BY <1>5, SubmitSaves
    <2>2. Grows /\ list'[c] # None /\ (Settled \/ Hasty) /\ UNCHANGED <<load, disk>>
      BY <2>1, NoneIsNoConversation DEF SubmitDoes
    <2>3. ~Fresh'
      BY <2>2, SomethingListed DEF Fresh
    <2> QED
      BY <1>0, <2>2, <2>3, RecoveryStays
  <1>6. ASSUME NEW c \in Convs, Delete(c) PROVE FreshHistory' /\ SavedHistory'
    <2>1. PICK x \in Writes : DeleteDoes(c, x)
      BY <1>6, DeleteSaves
    <2>2. Grows /\ page'.mount # 0 /\ load'.pc = "off" /\ Deletions' /\ UNCHANGED disk
      BY <2>1 DEF DeleteDoes, Shown, SameMount, Deletions
    <2>3. ~Fresh'
      BY <2>2 DEF Fresh
    <2> QED
      BY <1>0, <2>2, <2>3, RecoveryStays
  <1>7. CASE Clear
    <2>1. PICK x \in Writes : ClearDoes(x)
      BY <1>7, ClearSaves
    <2>2. Grows /\ page'.mount # 0 /\ load'.pc = "off" /\ Deletions' /\ UNCHANGED disk
      BY <2>1 DEF ClearDoes, Shown, SameMount, Deletions
    <2>3. ~Fresh'
      BY <2>2 DEF Fresh
    <2> QED
      BY <1>0, <2>2, <2>3, RecoveryStays
  <1> QED
    BY <1>1, <1>2, <1>3, <1>4, <1>5, <1>6, <1>7

\* Reading the history.
LEMMA LoadHistoryKeepsRecovery ==
  ASSUME TypeInv, RunsInv, HistoryInv, RecoveryInv, LoadHistory
  PROVE  RecoveryInv'
PROOF
  <1> SUFFICES ASSUME Patient' PROVE FreshHistory' /\ SavedHistory'
    BY DEF RecoveryInv
  <1>1. load.pc = "reading" /\ Waits /\ UNCHANGED <<disk, used, happened>>
    BY LoadHistoryIs DEF LoadHistory
  <1>2. Patient /\ FreshHistory
    BY <1>1, UsedAre, PatientBefore DEF RecoveryInv, Grows
  <1>3. Fresh /\ Idle /\ list = NoItems
    BY <1>1, <1>2, FreshWhileRead
  <1>4. History = Recovered(Visible)
    BY <1>1, <1>3, HistoryIsRecovered
  <1>5. Recovered(Visible)' = Recovered(Visible)
    BY <1>1 DEF disk, Visible, Recovered
  <1>6. \A x \in InQueue : x.op = "all" /\ x.items = Recovered(Visible)
    BY <1>2, <1>3 DEF FreshHistory
  <1>7. CASE HistoryShown
    BY <1>5, <1>6, <1>7 DEF HistoryShown, FreshHistory, SavedHistory, InQueue
  <1>8. ASSUME NEW x \in Writes, HistorySaved(x) PROVE FreshHistory' /\ SavedHistory'
    <2>1. load'.items = Recovered(Visible) /\ x.op = "all" /\ x.items = Recovered(Visible) /\ writes' = Append(writes, x)
      BY <1>4, <1>8 DEF HistorySaved
    <2>2. InQueue' = InQueue \cup {x}
      BY <2>1, QueueGrows DEF TypeInv
    <2> QED
      BY <1>5, <1>6, <2>1, <2>2 DEF FreshHistory, SavedHistory
  <1> QED
    BY <1>7, <1>8, HistoryComes

\* The end of a write.
LEMMA WriteOverKeepsRecovery ==
  ASSUME TypeInv, MountsInv, HistoryInv, RecoveryInv, WriteDone \/ WriteFailed
  PROVE  RecoveryInv'
PROOF
  <1> SUFFICES ASSUME Patient' PROVE FreshHistory' /\ SavedHistory'
    BY DEF RecoveryInv
  <1> DEFINE x == Head(writes)
             b == x.by
  <1>1. PICK ok \in BOOLEAN : WriteEnds(ok)
    BY WriteEndsIs
  <1>2. /\ writes # <<>> /\ writes' = Tail(writes) /\ Resume(b, ok) /\ Grows
        /\ (ok /\ Ok(x)) \/ (~ok /\ Broken(x))
    BY <1>1 DEF WriteEnds
  <1>3. x \in Writes /\ b \in Bys /\ Awaited(b)
    BY <1>2, HeadIs DEF TypeInv
  <1>4. Brought(b, ok)
    BY <1>2, <1>3, ResumeBrings
  <1>5. InQueue' \subseteq InQueue /\ x \in InQueue
    BY <1>2, QueueShrinks DEF TypeInv
  <1>6. Patient /\ FreshHistory /\ SavedHistory /\ WriteKind(x)
    BY <1>2, <1>5, PatientBefore DEF RecoveryInv, MountsInv, KindsInv
  <1> HIDE DEF x
  <1>7. Fresh => Recovered(Visible)' = Recovered(Visible)
    <2> SUFFICES ASSUME Fresh PROVE Recovered(Visible)' = Recovered(Visible)
      OBVIOUS
    <2>1. x.op = "all" /\ x.items = Recovered(Visible)
      BY <1>5, <1>6 DEF FreshHistory
    <2>2. CASE Ok(x)
      BY <1>3, <2>1, <2>2, HistoryIsWritten
    <2>3. CASE Broken(x)
      BY <2>1, <2>3 DEF Broken, Visible, Recovered
    <2> QED
      BY <1>2, <2>2, <2>3
  <1>8. load.pc # "off" => Fresh
    BY <1>6, FreshWhileRead
  <1>9. SavedHistory'
    BY <1>4, <1>6, <1>7, <1>8 DEF Brought, SavedHistory
  <1>10. CASE ForScreen(b)
    <2>1. Fresh
      BY <1>5, <1>8, <1>10 DEF MountsInv, OnceRead, ForScreen, LoadOf, InQueue
    <2> QED
      BY <1>5, <1>6, <1>7, <1>9, <2>1 DEF FreshHistory
  <1>11. CASE Unshown /\ ~ForScreen(b)
    <2>1. Fresh' => Fresh
      BY <1>2, <1>4, <1>11, PatientBefore DEF Brought, Fresh, Unshown, SameMount
    <2> QED
      BY <1>5, <1>6, <1>7, <1>9, <2>1 DEF FreshHistory
  <1>12. CASE b.kind = "delete" /\ ~ok
    <2>1. list' = [list EXCEPT ![b.conv] = MarkAborted(b.before)] /\ b.before \in Conversation /\ b.conv \in Convs
      BY <1>3, <1>4, <1>12, ByIs DEF Brought, Shown
    <2>2. MarkAborted(b.before) # None
      BY <2>1, OverIs, NoneIsNoConversation
    <2>3. list'[b.conv] # None
      BY <2>1, <2>2 DEF TypeInv, MemoryT, ItemsT
    <2>4. ~Fresh'
      BY <2>1, <2>3, SomethingListed DEF Fresh
    <2> QED
      BY <1>9, <2>4 DEF FreshHistory
  <1>13. CASE b.kind = "clear" /\ ~ok
    <2>1. list' = [c \in Convs |-> MarkAborted(b.before[c])] /\ b.before \in ItemsT /\ b.before # NoItems
      BY <1>3, <1>4, <1>6, <1>13, ByIs DEF Brought, Shown, WriteKind
    <2>2. PICK c \in Convs : b.before[c] # None
      BY <2>1 DEF ItemsT, NoItems
    <2>3. list'[c] # None
      BY <2>1, <2>2, OverIs DEF ItemsT
    <2>4. ~Fresh'
      BY <2>3, SomethingListed DEF Fresh
    <2> QED
      BY <1>9, <2>4 DEF FreshHistory
  <1> QED
    BY <1>3, <1>4, <1>10, <1>11, <1>12, <1>13, ByIs DEF Brought

\* Every step keeps what a patient user's history recovers.
LEMMA StepKeepsRecovery == TypeInv /\ RunsInv /\ MountsInv /\ HistoryInv /\ RecoveryInv /\ [Next]_vars => RecoveryInv'
PROOF
  <1> SUFFICES ASSUME TypeInv, RunsInv, MountsInv, HistoryInv, RecoveryInv, [Next]_vars PROVE RecoveryInv'
    OBVIOUS
  <1>1. CASE Reload
    <2>1. list' = NoItems /\ load'.pc = "off" /\ InQueue' = {}
      BY <1>1, ReloadLoads DEF Loaded, InQueue
    <2> QED
      BY <2>1 DEF RecoveryInv, FreshHistory, SavedHistory
  <1> QED
    BY <1>1, StepCases, OthersKeepRecovery, LoadHistoryKeepsRecovery, WriteOverKeepsRecovery

\* At first there is nothing to recover.
LEMMA InitRecovers == Init => RecoveryInv
  BY DEF Init, RecoveryInv, FreshHistory, SavedHistory, InQueue

-----------------------------------------------------------------------------
(* What is written comes after what was written before: a later save has   *)
(* the turns and the answers of the earlier ones and of the store, and so  *)
(* has what is shown and what a deletion has taken off the screen.         *)

Follows(c, conv) == After(conv, stored[c]) /\ \A x \in InQueue : After(conv, x.items[c])
\* What a deletion keeps to bring it back if it fails.
Taken(x, c) ==
    IF x.by.kind = "delete" /\ x.by.conv = c THEN x.by.before
    ELSE IF x.by.kind = "clear" THEN x.by.before[c] ELSE None

QueueFollows(c) ==
    \A k \in DOMAIN writes :
        /\ After(writes[k].items[c], stored[c])
        /\ \A j \in 1 .. k - 1 : After(writes[k].items[c], writes[j].items[c])
TakenFollow(c) == \A x \in InQueue : Follows(c, Taken(x, c))
TakenOnce(c) ==
    \A k \in DOMAIN writes : Taken(writes[k], c) # None =>
        list[c] = None /\ \A j \in DOMAIN writes \ {k} : Taken(writes[j], c) = None
ConvFollows(c) == TakenOnce(c) /\ (c \notin gone => Follows(c, list[c]) /\ QueueFollows(c) /\ TakenFollow(c))
AllFollow == \A c \in Convs : ConvFollows(c)
FollowInv == Patient => AllFollow

\* A step edits a conversation at most.
Lengthens(c) ==
    \/ list'[c] = list[c]
    \/ list[c] \in Conversation /\ list'[c] \in Conversation /\ Extends(list'[c], list[c])

\* Where writes and deletions keep their conversations.
LEMMA ItemsAre ==
  ASSUME TypeInv, NEW c \in Convs
  PROVE  /\ list[c] \in Conversation \cup {None} /\ stored[c] \in Conversation \cup {None}
         /\ \A x \in Writes : x.items[c] \in Conversation \cup {None} /\ Taken(x, c) \in Conversation \cup {None}
         /\ InQueue \subseteq Writes /\ \A k \in DOMAIN writes : writes[k] \in InQueue /\ writes[k] \in Writes
         /\ None \notin Conversation /\ \A conv : After(None, conv) /\ After(conv, None)
PROOF
  <1>1. \A x \in Writes : x.items \in ItemsT /\ x.by \in Bys
    BY WriteIs
  <1>2. \A x \in Writes : /\ x.by.kind = "delete" => x.by.before \in Conversation
                          /\ x.by.kind = "clear" => x.by.before \in ItemsT
    BY <1>1, ByIs
  <1>3. \A x \in Writes : x.items[c] \in Conversation \cup {None} /\ Taken(x, c) \in Conversation \cup {None}
    BY <1>1, <1>2 DEF Taken, ItemsT
  <1>4. InQueue \subseteq Writes /\ \A k \in DOMAIN writes : writes[k] \in InQueue /\ writes[k] \in Writes
    BY DEF InQueue, TypeInv, PendingT
  <1> QED
    BY <1>3, <1>4, NoneIsNoConversation DEF TypeInv, MemoryT, DiskT, ItemsT, After

\* What has the turns of something that follows, follows.
LEMMA FollowsToo ==
  ASSUME TypeInv, NEW c \in Convs, NEW new \in Conversation, NEW old \in Conversation, Extends(new, old), Follows(c, old)
  PROVE  Follows(c, new)
PROOF
  <1>1. /\ stored[c] \in Conversation \cup {None}
        /\ \A x \in InQueue : x.items[c] \in Conversation \cup {None}
    BY ItemsAre
  <1> QED
    BY <1>1, AfterAll DEF Follows

\* A step of which the queue knows nothing.
LEMMA EditFollows ==
  ASSUME TypeInv, NEW c \in Convs, ConvFollows(c), UNCHANGED <<writes, disk>>, Lengthens(c)
  PROVE  ConvFollows(c)'
PROOF
  <1>1. UNCHANGED <<stored, gone>> /\ InQueue' = InQueue
    BY DEF disk, InQueue
  <1>2. TakenOnce(c)'
    BY NoneIsNoConversation DEF ConvFollows, TakenOnce, Lengthens, Taken
  <1>3. ASSUME c \notin gone PROVE Follows(c, list[c])' /\ QueueFollows(c)' /\ TakenFollow(c)'
    <2>1. Follows(c, list[c]) /\ QueueFollows(c) /\ TakenFollow(c)
      BY <1>3 DEF ConvFollows
    <2>2. Follows(c, list'[c])
      BY <2>1, FollowsToo DEF Lengthens
    <2> QED
      BY <1>1, <2>1, <2>2 DEF Follows, QueueFollows, TakenFollow, Taken
  <1> QED
    BY <1>1, <1>2, <1>3 DEF ConvFollows

\* What an appended write does to a conversation: nothing, ...
KeptBy(x, c) == list'[c] = list[c] /\ x.items[c] = None /\ Taken(x, c) = None
\* ... or it saves what is shown of it, which it was before, ...
SavedBy(x, c) == list[c] \in Conversation /\ list'[c] \in Conversation /\ Lengthens(c) /\ x.items[c] = list'[c] /\ Taken(x, c) = None
\* ... or not, ...
BegunBy(x, c) ==
    /\ stored[c] = None /\ \A y \in InQueue : y.items[c] = None /\ Taken(y, c) = None
    /\ list'[c] \in Conversation /\ x.items[c] = list'[c] /\ Taken(x, c) = None
\* ... or it takes it off the screen.
TakenBy(x, c) == list'[c] = None /\ x.items[c] = None /\ Taken(x, c) = list[c]

\* A conversation of which any of these writes is appended keeps its order.
LEMMA AppendFollows ==
  ASSUME TypeInv, NEW c \in Convs, ConvFollows(c), UNCHANGED disk, NEW x \in Writes, writes' = Append(writes, x),
         KeptBy(x, c) \/ SavedBy(x, c) \/ BegunBy(x, c) \/ TakenBy(x, c)
  PROVE  ConvFollows(c)'
PROOF
  <1> DEFINE n == Len(writes) + 1
  <1>1. /\ InQueue' = InQueue \cup {x} /\ DOMAIN writes = 1 .. n - 1 /\ DOMAIN writes' = 1 .. n /\ n \in Nat \ {0}
        /\ (\A k \in DOMAIN writes : writes'[k] = writes[k]) /\ writes'[n] = x
        /\ UNCHANGED <<stored, gone>>
    BY QueueGrows DEF TypeInv, disk
  <1>2. /\ list[c] \in Conversation \cup {None} /\ stored[c] \in Conversation \cup {None} /\ None \notin Conversation
        /\ \A k \in DOMAIN writes : writes[k] \in InQueue
        /\ \A conv : After(None, conv) /\ After(conv, None)
    BY ItemsAre
  <1>3. TakenOnce(c) /\ \A y \in InQueue : \E k \in DOMAIN writes : y = writes[k]
    BY DEF ConvFollows, InQueue
  <1> HIDE DEF n
  <1>4. \A k \in 1 .. n : k = n \/ k \in DOMAIN writes
    BY <1>1
  <1>5. Taken(x, c) = None \/ TakenBy(x, c)
    BY DEF KeptBy, SavedBy, BegunBy
  <1>6. ASSUME list'[c] # None PROVE KeptBy(x, c) \/ \A y \in InQueue' : Taken(y, c) = None
    BY <1>1, <1>2, <1>3, <1>6 DEF SavedBy, BegunBy, TakenBy, TakenOnce
  <1>7. TakenOnce(c)'
    <2> SUFFICES ASSUME NEW k \in 1 .. n, Taken(writes'[k], c) # None
                 PROVE  list'[c] = None /\ \A j \in (1 .. n) \ {k} : Taken(writes'[j], c) = None
      BY <1>1 DEF TakenOnce, Taken
    <2>1. writes'[k] \in InQueue'
      BY <1>1, <1>2, <1>4
    <2>2. CASE k = n
      <3>1. TakenBy(x, c) /\ list[c] # None
        BY <1>1, <1>5, <2>2 DEF TakenBy
      <3>2. \A j \in DOMAIN writes : Taken(writes[j], c) = None
        BY <1>3, <3>1 DEF TakenOnce
      <3> QED
        BY <1>1, <1>4, <2>2, <3>1, <3>2 DEF TakenBy
    <2>3. CASE k \in DOMAIN writes
      <3>1. list[c] = None /\ \A j \in DOMAIN writes \ {k} : Taken(writes[j], c) = None
        BY <1>1, <1>3, <2>3 DEF TakenOnce
      <3>2. Taken(x, c) = None
        BY <1>5, <3>1 DEF TakenBy
      <3>3. list'[c] = None
        BY <1>6, <2>1, <3>1 DEF KeptBy
      <3> QED
        BY <1>1, <1>4, <3>1, <3>2, <3>3
    <2> QED
      BY <1>4, <2>2, <2>3
  <1>8. ASSUME c \notin gone PROVE Follows(c, list[c])' /\ QueueFollows(c)' /\ TakenFollow(c)'
    <2>1. Follows(c, list[c]) /\ QueueFollows(c) /\ TakenFollow(c)
      BY <1>8 DEF ConvFollows
    <2>2. x.items[c] = None \/ x.items[c] = list'[c]
      BY DEF KeptBy, SavedBy, BegunBy, TakenBy
    <2>3. Follows(c, list'[c])
      <3>1. CASE KeptBy(x, c)
        BY <2>1, <3>1 DEF KeptBy
      <3>2. CASE SavedBy(x, c)
        BY <2>1, <3>2, FollowsToo DEF SavedBy, Lengthens
      <3>3. CASE BegunBy(x, c)
        BY <1>2, <3>3 DEF BegunBy, Follows
      <3>4. CASE TakenBy(x, c)
        BY <1>2, <3>4 DEF TakenBy, Follows
      <3> QED
        BY <3>1, <3>2, <3>3, <3>4
    <2>4. After(list'[c], x.items[c])
      <3>1. CASE x.items[c] = None
        BY <1>2, <3>1
      <3>2. CASE list'[c] \in Conversation
        BY <2>2, <3>2, <1>2, AfterAll DEF After
      <3> QED
        BY <3>1, <3>2 DEF KeptBy, SavedBy, BegunBy, TakenBy
    <2>5. Follows(c, list[c])'
      BY <1>1, <2>3, <2>4 DEF Follows
    <2>6. Follows(c, x.items[c])
      BY <1>2, <2>2, <2>3 DEF Follows
    <2>7. QueueFollows(c)'
      <3> SUFFICES ASSUME NEW k \in 1 .. n
                   PROVE  After(writes'[k].items[c], stored[c]) /\ \A j \in 1 .. k - 1 : After(writes'[k].items[c], writes'[j].items[c])
        BY <1>1 DEF QueueFollows
      <3>1. \A j \in 1 .. k - 1 : j \in DOMAIN writes
        BY <1>1
      <3>2. CASE k = n
        BY <1>1, <1>2, <2>6, <3>1, <3>2 DEF Follows
      <3>3. CASE k \in DOMAIN writes
        BY <1>1, <2>1, <3>1, <3>3 DEF QueueFollows
      <3> QED
        BY <1>4, <3>2, <3>3
    <2>8. TakenFollow(c)'
      <3> SUFFICES ASSUME NEW y \in InQueue' PROVE Follows(c, Taken(y, c))'
        BY DEF TakenFollow
      <3>1. Follows(c, Taken(y, c))
        <4>1. CASE y \in InQueue
          BY <2>1, <4>1 DEF TakenFollow
        <4>2. CASE y = x
          <5>1. Taken(x, c) = None \/ Taken(x, c) = list[c]
            BY <1>5 DEF TakenBy
          <5> QED
            BY <1>2, <2>1, <4>2, <5>1 DEF Follows
        <4> QED
          BY <1>1, <4>1, <4>2
      <3>2. Taken(y, c) = None \/ x.items[c] = None
        <4>1. CASE list'[c] = None
          BY <2>2, <4>1
        <4>2. CASE list'[c] # None
          BY <1>6, <4>2 DEF KeptBy
        <4> QED
          BY <4>1, <4>2
      <3> DEFINE z == Taken(y, c)
      <3>3. Taken(y, c)' = z
        BY DEF Taken
      <3> HIDE DEF z
      <3>4. Follows(c, z)
        BY <3>1 DEF z
      <3>5. z = None \/ x.items[c] = None
        BY <3>2 DEF z
      <3>6. After(z, stored'[c]) /\ \A w \in InQueue' : After(z, w.items[c])
        BY <1>1, <1>2, <3>4, <3>5 DEF Follows
      <3> QED
        BY <3>3, <3>6 DEF Follows
    <2> QED
      BY <2>5, <2>7, <2>8
  <1> QED
    BY <1>1, <1>7, <1>8 DEF ConvFollows

\* What a run edits, it lengthens.
LEMMA EditLengthens ==
  ASSUME NEW t, NEW new, NEW old, EditsOne(t, new, old), Distinct(old)
  PROVE  new \in Conversation /\ old \in Conversation /\ Extends(new, old)
  BY DEF EditsOne, Extends

\* A step of a run.
LEMMA RunKeepsFollowing ==
  ASSUME TypeInv, SoundInv, FollowInv, NEW l \in Loops, RunStep(l)
  PROVE  FollowInv'
PROOF
  <1> DEFINE c == loop[l].conv
  <1>1. UNCHANGED Elsewhere /\ RunLeaves(l) /\ Grows /\ (UNCHANGED list \/ Begins(l) \/ GoesOn(l))
    BY RunStepLeaves, RunStepEdits, UsedAre DEF Elsewhere, Grows
  <1> SUFFICES ASSUME Patient', NEW d \in Convs PROVE ConvFollows(d)'
    BY DEF FollowInv, AllFollow
  <1>2. ConvFollows(d) /\ UNCHANGED disk
    BY <1>1, PatientBefore DEF FollowInv, AllFollow, Elsewhere
  <1>3. Lengthens(d)
    <2>1. ASSUME NEW t, EditsOne(t, list'[c], list[c]), c \in Convs, list' = [list EXCEPT ![c] = list'[c]]
          PROVE  Lengthens(d)
      <3>1. CASE d = c
        <4>1. Distinct(list[d])
          BY DEF SoundInv, SoundIn, Sound
        <4> QED
          BY <2>1, <3>1, <4>1, EditLengthens DEF Lengthens
      <3>2. CASE d # c
        BY <2>1, <3>2 DEF Lengthens, TypeInv, MemoryT, ItemsT
      <3> QED
        BY <3>1, <3>2
    <2> QED
      BY <1>1, <2>1 DEF RunLeaves, Begins, GoesOn, Lengthens
  <1>4. CASE UNCHANGED writes
    BY <1>2, <1>3, <1>4, EditFollows
  <1>5. ASSUME NEW x \in Writes, writes' = Append(writes, x), SaveBy(x, c, {"loop", "worker"}), c \in Convs PROVE ConvFollows(d)'
    <2>1. Taken(x, d) = None
      BY <1>5 DEF SaveBy, Taken
    <2>2. CASE d = c
      <3>1. list'[d] \in Conversation /\ x.items[d] = list'[d]
        BY <1>5, <2>2 DEF SaveBy
      <3>2. SavedBy(x, d)
        <4>1. list[d] \in Conversation
          BY <1>3, <3>1 DEF Lengthens
        <4> QED
          BY <1>3, <2>1, <3>1, <4>1 DEF SavedBy
      <3> QED
        BY <1>2, <1>5, <3>2, AppendFollows
    <2>3. CASE d # c
      <3>1. list'[d] = list[d]
        BY <1>1, <2>3 DEF RunLeaves, TypeInv, MemoryT, ItemsT
      <3>2. KeptBy(x, d)
        BY <1>5, <2>1, <2>3, <3>1 DEF KeptBy, SaveBy
      <3> QED
        BY <1>2, <1>5, <3>2, AppendFollows
    <2> QED
      BY <2>2, <2>3
  <1> QED
    BY <1>1, <1>4, <1>5 DEF RunLeaves

\* The steps of the page and its user.
LEMMA PageKeepsFollowing ==
  ASSUME TypeInv, MountsInv, KnownInv, FollowInv,
         SitsStill \/ GoesAway \/ Open \/ Clear \/ \E c \in Convs : Submit(c) \/ Delete(c)
  PROVE  FollowInv'
PROOF
  <1> SUFFICES ASSUME Patient', NEW d \in Convs PROVE ConvFollows(d)'
    BY DEF FollowInv, AllFollow
  <1>0. Grows => ConvFollows(d)
    BY PatientBefore DEF FollowInv, AllFollow
  <1>1. CASE SitsStill \/ GoesAway \/ Open
    <2>1. UNCHANGED <<list, writes, disk>> /\ Grows
      <3>1. CASE SitsStill
        BY <3>1, SitsStillIs DEF Unmoved, Unshown
      <3>2. CASE GoesAway
        BY <3>2, GoesAwayIs DEF LeavesPage
      <3>3. CASE Open
        BY <3>3, UsedAre DEF Open, Grows
      <3> QED
        BY <1>1, <3>1, <3>2, <3>3
    <2> QED
      BY <1>0, <2>1, EditFollows DEF Lengthens
  <1>2. ASSUME NEW c \in Convs, Submit(c) PROVE ConvFollows(d)'
    <2>1. PICK x \in Writes : SubmitDoes(c, x)
      BY <1>2, SubmitSaves
    <2>2. /\ Grows /\ UNCHANGED disk /\ writes' = Append(writes, x) /\ x.by.kind = "submit"
          /\ list'[c] = WithTurn(c) /\ WithTurn(c) \in Conversation /\ x.items[c] = WithTurn(c)
          /\ used.turns + 1 \in Turns
      BY <2>1 DEF SubmitDoes
    <2>3. Taken(x, d) = None
      BY <2>2 DEF Taken
    <2>4. CASE d # c
      <3>1. list'[d] = list[d] /\ x.items[d] = None
        BY <2>1, <2>4 DEF SubmitDoes, Shown, TypeInv, MemoryT, ItemsT
      <3>2. KeptBy(x, d)
        BY <2>3, <3>1 DEF KeptBy
      <3> QED
        BY <1>0, <2>2, <3>2, AppendFollows
    <2>5. CASE d = c /\ list[c] # None
      <3>1. list[c] \in Conversation
        BY <2>5, ItemsAre
      <3>2. Extends(WithTurn(c), list[c])
        <4>1. \A k \in DOMAIN list[c].turns : k \in DOMAIN WithTurn(c).turns /\ WithTurn(c).turns[k] = list[c].turns[k]
          <5> DEFINE n == Len(list[c].turns)
          <5>1. /\ n \in Nat /\ DOMAIN WithTurn(c).turns = 1 .. n + 1
                /\ DOMAIN list[c].turns = 1 .. n /\ \A k \in 1 .. n : WithTurn(c).turns[k] = list[c].turns[k]
            BY <2>2, <2>5, WithTurnKeeps
          <5> HIDE DEF n
          <5> QED
            BY <5>1
        <4> QED
          BY <4>1 DEF Extends, TurnKeeps
      <3>3. SavedBy(x, d)
        BY <2>2, <2>3, <2>5, <3>1, <3>2 DEF SavedBy, Lengthens
      <3> QED
        BY <1>0, <2>2, <3>3, AppendFollows
    <2>6. CASE d = c /\ list[c] = None
      <3>1. c = used.convs + 1 /\ used.convs \in Int
        BY <2>1, <2>6, UsedAre DEF SubmitDoes
      <3>2. stored[c] = None /\ \A y \in InQueue : y.items[c] = None
        BY <3>1 DEF KnownInv, KnownStored, KnownInQueue, KnownTo, WriteKnown
      <3>3. ASSUME NEW y \in InQueue PROVE Taken(y, c) = None
        <4>1. WriteKnown(used.convs, y) /\ WriteKind(y)
          BY DEF KnownInv, KnownInQueue, MountsInv, KindsInv
        <4>2. CASE y.by.kind = "delete"
          BY <3>1, <4>1, <4>2 DEF WriteKnown, WriteKind, Taken
        <4>3. CASE y.by.kind = "clear"
          BY <3>1, <4>1, <4>3 DEF WriteKnown, WriteKind, Taken, KnownTo
        <4> QED
          BY <4>2, <4>3 DEF Taken
      <3>4. BegunBy(x, d)
        BY <2>2, <2>3, <2>6, <3>2, <3>3 DEF BegunBy
      <3> QED
        BY <1>0, <2>2, <3>4, AppendFollows
    <2> QED
      BY <2>4, <2>5, <2>6
  <1>3. ASSUME NEW c \in Convs, Delete(c) PROVE ConvFollows(d)'
    <2>1. PICK x \in Writes : DeleteDoes(c, x)
      BY <1>3, DeleteSaves
    <2>2. /\ Grows /\ UNCHANGED disk /\ writes' = Append(writes, x) /\ x.items[d] = None
          /\ list'[d] = IF d = c THEN None ELSE list[d]
          /\ Taken(x, d) = IF d = c THEN list[d] ELSE None
      BY <2>1 DEF DeleteDoes, Shown, NoItems, Taken, TypeInv, MemoryT, ItemsT
    <2>3. KeptBy(x, d) \/ TakenBy(x, d)
      BY <2>2 DEF KeptBy, TakenBy
    <2> QED
      BY <1>0, <2>2, <2>3, AppendFollows
  <1>4. CASE Clear
    <2>1. PICK x \in Writes : ClearDoes(x)
      BY <1>4, ClearSaves
    <2>2. /\ Grows /\ UNCHANGED disk /\ writes' = Append(writes, x) /\ x.items[d] = None
          /\ list'[d] = None /\ Taken(x, d) = list[d]
      BY <2>1 DEF ClearDoes, Shown, NoItems, Taken
    <2>3. TakenBy(x, d)
      BY <2>2 DEF TakenBy
    <2> QED
      BY <1>0, <2>2, <2>3, AppendFollows
  <1> QED
    BY <1>1, <1>2, <1>3, <1>4

\* All that is shown and written is what was recovered.
AllRecovered ==
    /\ \A x \in InQueue : x.by.kind = "load" /\ x.items = Recovered(Visible)
    /\ \A c \in Convs : list[c] \in {None, Recovered(Visible)[c]}

\* What was recovered, and is written as it was recovered, is in order.
LEMMA RecoveredFollow == TypeInv /\ AllRecovered => AllFollow
PROOF
  <1> SUFFICES ASSUME TypeInv, AllRecovered, NEW c \in Convs PROVE ConvFollows(c)
    BY DEF AllFollow
  <1> DEFINE r == Recovered(Visible)[c]
  <1>1. /\ stored[c] \in Conversation \cup {None} /\ \A conv : After(None, conv) /\ After(conv, None)
        /\ \A k \in DOMAIN writes : writes[k] \in InQueue
    BY ItemsAre
  <1>2. \A x \in InQueue : Taken(x, c) = None /\ x.items[c] = r
    BY DEF AllRecovered, Taken
  <1>3. r = Over(Visible[c], Recover) /\ Visible[c] \in Conversation \cup {None} /\ r \in Conversation \cup {None}
    BY RecoveredOnce, VisibleIs DEF TypeInv, ItemsT
  <1>4. After(r, r)
    BY <1>1, <1>3, AfterAll DEF After
  <1>5. c \notin gone => After(r, stored[c])
    <2> SUFFICES ASSUME c \notin gone, stored[c] \in Conversation PROVE After(r, stored[c])
      BY <1>1
    <2>1. Visible[c] = stored[c]
      BY DEF Visible
    <2>2. SameTurns(r, stored[c])
      BY <1>3, <2>1, OverKeeps
    <2> QED
      BY <2>2 DEF SameTurns, After, Extends
  <1> HIDE DEF r
  <1>6. list[c] \in {None, r}
    BY DEF AllRecovered, r
  <1>7. TakenOnce(c) /\ TakenFollow(c)
    BY <1>1, <1>2 DEF TakenOnce, TakenFollow, Follows
  <1>8. c \notin gone => QueueFollows(c)
    <2> SUFFICES ASSUME c \notin gone, NEW k \in DOMAIN writes
                 PROVE  After(writes[k].items[c], stored[c]) /\ \A j \in 1 .. k - 1 : After(writes[k].items[c], writes[j].items[c])
      BY DEF QueueFollows
    <2>1. \A j \in 1 .. k - 1 : j \in DOMAIN writes
      BY DEF TypeInv, PendingT
    <2> QED
      BY <1>1, <1>2, <1>4, <1>5, <2>1
  <1>9. c \notin gone => Follows(c, list[c])
    BY <1>1, <1>2, <1>4, <1>5, <1>6 DEF Follows
  <1> QED
    BY <1>7, <1>8, <1>9 DEF ConvFollows

\* Reading the history.
LEMMA LoadHistoryKeepsFollowing ==
  ASSUME TypeInv, TypeInv', RunsInv, MountsInv, HistoryInv, RecoveryInv, LoadHistory
  PROVE  FollowInv'
PROOF
  <1> SUFFICES ASSUME Patient' PROVE AllRecovered'
    <2>1. AllRecovered' => AllFollow'
      BY RecoveredFollow, PTL
    <2> QED
      BY <2>1 DEF FollowInv
  <1>1. load.pc = "reading" /\ Waits /\ UNCHANGED <<disk, used, happened>>
    BY LoadHistoryIs DEF LoadHistory
  <1>2. Patient /\ FreshHistory
    BY <1>1, UsedAre, PatientBefore DEF RecoveryInv, Grows
  <1>3. Fresh /\ Idle /\ list = NoItems
    BY <1>1, <1>2, FreshWhileRead
  <1>4. History = Recovered(Visible)
    BY <1>1, <1>3, HistoryIsRecovered
  <1>5. Recovered(Visible)' = Recovered(Visible)
    BY <1>1 DEF disk, Visible, Recovered
  <1>6. \A x \in InQueue : x.by.kind = "load" /\ x.items = Recovered(Visible)
    BY <1>2, <1>3 DEF FreshHistory, MountsInv, KindsInv, WriteKind
  <1>7. CASE HistoryShown
    BY <1>4, <1>5, <1>6, <1>7 DEF HistoryShown, Shown, AllRecovered, InQueue
  <1>8. ASSUME NEW x \in Writes, HistorySaved(x) PROVE AllRecovered'
    <2>1. list' = NoItems /\ x.by.kind = "load" /\ x.items = Recovered(Visible) /\ writes' = Append(writes, x)
      BY <1>3, <1>4, <1>8 DEF HistorySaved, memory
    <2>2. InQueue' = InQueue \cup {x}
      BY <2>1, QueueGrows DEF TypeInv
    <2> QED
      BY <1>5, <1>6, <2>1, <2>2 DEF AllRecovered, NoItems
  <1> QED
    BY <1>7, <1>8, HistoryComes

\* What a write that is over leaves of a conversation in the store.
LEMMA StoreComes ==
  ASSUME TypeInv, NEW x \in Writes, Ok(x) \/ Broken(x), NEW c \in Convs
  PROVE  /\ gone \subseteq gone'
         /\ c \notin gone' => stored'[c] \in {None, stored[c], x.items[c]}
         /\ c \notin gone' /\ stored[c] # None => stored'[c] # None
PROOF
  <1>0. x.op \in {"save", "all", "delete", "clear"} /\ (x.op = "delete" => x.conv \in Convs) /\ stored \in ItemsT
    BY WriteIs DEF TypeInv, DiskT
  <1>1. CASE Broken(x)
    BY <1>1 DEF Broken
  <1>2. CASE Ok(x) /\ x.op \in {"save", "all"}
    <2>1. gone' = gone /\ stored'[c] = Merged(c, x.items[c])
      BY <1>2 DEF Ok
    <2> QED
      BY <2>1 DEF Merged, Newest
  <1>3. CASE Ok(x) /\ x.op = "delete"
    BY <1>0, <1>3 DEF Ok, ItemsT
  <1>4. CASE Ok(x) /\ x.op = "clear"
    BY <1>0, <1>4 DEF Ok, ItemsT, NoItems
  <1> QED
    BY <1>0, <1>1, <1>2, <1>3, <1>4

\* The write that is over leaves what follows.
LEMMA ShrinkFollows ==
  ASSUME TypeInv, NEW c \in Convs, ConvFollows(c), writes # <<>>, writes' = Tail(writes),
         Ok(Head(writes)) \/ Broken(Head(writes)),
         list'[c] \in {list[c], MarkAborted(Taken(Head(writes), c))}
  PROVE  ConvFollows(c)'
PROOF
  <1> DEFINE x == Head(writes)
  <1>1. /\ InQueue' \subseteq InQueue /\ x \in InQueue /\ x = writes[1] /\ 1 \in DOMAIN writes
        /\ \A k \in DOMAIN writes' : k \in Nat /\ k + 1 \in DOMAIN writes /\ k + 1 > 1 /\ writes'[k] = writes[k + 1]
    BY QueueShrinks DEF TypeInv
  <1>2. /\ list[c] \in Conversation \cup {None} /\ Taken(x, c) \in Conversation \cup {None} /\ x \in Writes
        /\ None \notin Conversation /\ \A conv : After(None, conv) /\ After(conv, None)
    BY <1>1, ItemsAre
  <1>3. MarkAborted(None) = None
    BY OverIs
  <1>4. /\ gone \subseteq gone' /\ (c \notin gone' => stored'[c] \in {None, stored[c], x.items[c]})
    BY <1>2, StoreComes
  <1>5. TakenOnce(c)
    BY DEF ConvFollows
  <1>6. list'[c] \in {list[c], MarkAborted(Taken(x, c))}
    OBVIOUS
  <1> HIDE DEF x
  <1>7. TakenOnce(c)'
    <2> SUFFICES ASSUME NEW k \in DOMAIN writes', Taken(writes'[k], c) # None
                 PROVE  list'[c] = None /\ \A j \in DOMAIN writes' \ {k} : Taken(writes'[j], c) = None
      BY DEF TakenOnce, Taken
    <2>1. k \in Nat /\ k + 1 \in DOMAIN writes /\ k + 1 # 1 /\ Taken(writes[k + 1], c) # None
      BY <1>1
    <2>2. list[c] = None /\ \A j \in DOMAIN writes \ {k + 1} : Taken(writes[j], c) = None
      BY <1>5, <2>1 DEF TakenOnce
    <2>3. list'[c] = None
      BY <1>1, <1>3, <1>6, <2>1, <2>2
    <2> QED
      BY <1>1, <2>1, <2>2, <2>3
  <1>8. ASSUME c \notin gone' PROVE Follows(c, list[c])' /\ QueueFollows(c)' /\ TakenFollow(c)'
    <2>1. Follows(c, list[c]) /\ QueueFollows(c) /\ TakenFollow(c)
      BY <1>4, <1>8 DEF ConvFollows
    <2>2. ASSUME NEW z, Follows(c, z) PROVE After(z, stored'[c]) /\ \A y \in InQueue' : After(z, y.items[c])
      BY <1>1, <1>2, <1>4, <1>8, <2>2 DEF Follows
    <2>3. Follows(c, list'[c])
      <3>1. CASE list'[c] = list[c]
        BY <2>1, <3>1
      <3>2. CASE list'[c] = MarkAborted(Taken(x, c)) /\ Taken(x, c) = None
        BY <1>2, <1>3, <3>2 DEF Follows
      <3>3. CASE list'[c] = MarkAborted(Taken(x, c)) /\ Taken(x, c) # None
        <4> DEFINE z == Taken(x, c)
        <4>1. z \in Conversation /\ Follows(c, z)
          BY <1>1, <1>2, <2>1, <3>3 DEF TakenFollow
        <4> HIDE DEF z
        <4>2. MarkAborted(z) \in Conversation /\ Extends(MarkAborted(z), z)
          BY <4>1, OverKeeps DEF SameTurns, Extends
        <4>3. list'[c] = MarkAborted(z)
          BY <3>3 DEF z
        <4> QED
          BY <4>1, <4>2, <4>3, FollowsToo
      <3> QED
        BY <1>6, <3>1, <3>2, <3>3
    <2>4. Follows(c, list[c])'
      BY <2>2, <2>3 DEF Follows
    <2>5. QueueFollows(c)'
      <3> SUFFICES ASSUME NEW k \in DOMAIN writes'
                   PROVE  After(writes'[k].items[c], stored'[c]) /\ \A j \in 1 .. k - 1 : After(writes'[k].items[c], writes'[j].items[c])
        BY DEF QueueFollows
      <3>1. k \in Nat /\ k + 1 \in DOMAIN writes /\ writes'[k] = writes[k + 1] /\ 1 \in 1 .. (k + 1) - 1
        BY <1>1
      <3>2. After(writes'[k].items[c], stored'[c])
        BY <1>1, <1>2, <1>4, <1>8, <2>1, <3>1 DEF QueueFollows
      <3>3. ASSUME NEW j \in 1 .. k - 1 PROVE After(writes'[k].items[c], writes'[j].items[c])
        <4>1. j \in DOMAIN writes'
          <5>1. DOMAIN writes' = 1 .. Len(writes) - 1 /\ Len(writes) \in Nat
            BY DEF TypeInv, PendingT
          <5> QED
            BY <3>1, <5>1
        <4>2. writes'[j] = writes[j + 1] /\ j + 1 \in 1 .. (k + 1) - 1
          BY <1>1, <3>1, <4>1
        <4> QED
          BY <2>1, <3>1, <4>2 DEF QueueFollows
      <3> QED
        BY <3>2, <3>3
    <2>6. TakenFollow(c)'
      <3> SUFFICES ASSUME NEW y \in InQueue' PROVE Follows(c, Taken(y, c))'
        BY DEF TakenFollow
      <3> DEFINE z == Taken(y, c)
      <3>1. Follows(c, z)
        BY <1>1, <2>1 DEF TakenFollow
      <3>2. Taken(y, c)' = z
        BY DEF Taken
      <3> HIDE DEF z
      <3>3. After(z, stored'[c]) /\ \A w \in InQueue' : After(z, w.items[c])
        BY <2>2, <3>1
      <3> QED
        BY <3>2, <3>3 DEF Follows
    <2> QED
      BY <2>4, <2>5, <2>6
  <1> QED
    BY <1>4, <1>7, <1>8 DEF ConvFollows

\* The end of a write.
LEMMA WriteOverKeepsFollowing ==
  ASSUME TypeInv, TypeInv', MountsInv, HistoryInv, RecoveryInv, RecoveryInv', FollowInv, WriteDone \/ WriteFailed
  PROVE  FollowInv'
PROOF
  <1> SUFFICES ASSUME Patient' PROVE \A c \in Convs : ConvFollows(c)'
    BY DEF FollowInv, AllFollow
  <1> DEFINE x == Head(writes)
             b == x.by
  <1>1. PICK ok \in BOOLEAN : WriteEnds(ok)
    BY WriteEndsIs
  <1>2. /\ writes # <<>> /\ writes' = Tail(writes) /\ Resume(b, ok) /\ Grows
        /\ (ok /\ Ok(x)) \/ (~ok /\ Broken(x))
    BY <1>1 DEF WriteEnds
  <1>3. x \in Writes /\ b \in Bys /\ Awaited(b)
    BY <1>2, HeadIs DEF TypeInv
  <1>4. Brought(b, ok)
    BY <1>2, <1>3, ResumeBrings
  <1>5. InQueue' \subseteq InQueue /\ x \in InQueue
    BY <1>2, QueueShrinks DEF TypeInv
  <1>6. Patient /\ FreshHistory /\ SavedHistory /\ FreshHistory' /\ WriteKind(x) /\ \A c \in Convs : ConvFollows(c)
    BY <1>2, <1>5, PatientBefore DEF RecoveryInv, MountsInv, KindsInv, FollowInv, AllFollow
  <1> HIDE DEF x
  <1>7. CASE ForScreen(b) /\ ok
    <2>1. load.pc = "saving" /\ Fresh
      BY <1>5, <1>6, <1>7, FreshWhileRead DEF MountsInv, OnceRead, ForScreen, LoadOf, InQueue
    <2>2. \A y \in InQueue : y.op = "all" /\ y.by.kind = "load" /\ y.items = Recovered(Visible)
      BY <1>6, <2>1 DEF FreshHistory, MountsInv, KindsInv, WriteKind
    <2>3. Recovered(Visible)' = Recovered(Visible)
      BY <1>2, <1>3, <1>5, <1>7, <2>2, HistoryIsWritten
    <2>4. list' = Recovered(Visible)
      BY <1>4, <1>6, <1>7, <2>1 DEF SavedHistory, Brought, Shown
    <2>5. AllRecovered'
      BY <1>5, <2>2, <2>3, <2>4 DEF AllRecovered
    <2>6. AllFollow'
      BY <2>5, RecoveredFollow, PTL
    <2> QED
      BY <2>6 DEF AllFollow
  <1>8. ASSUME NEW c \in Convs, list'[c] \in {list[c], MarkAborted(Taken(x, c))} PROVE ConvFollows(c)'
    BY <1>2, <1>6, <1>8, ShrinkFollows DEF x
  <1>9. CASE UNCHANGED list
    BY <1>8, <1>9
  <1>10. CASE b.kind = "delete" /\ ~ok
    <2> SUFFICES ASSUME NEW c \in Convs PROVE list'[c] \in {list[c], MarkAborted(Taken(x, c))}
      BY <1>8
    <2>1. list' = [list EXCEPT ![b.conv] = MarkAborted(b.before)]
      BY <1>4, <1>10 DEF Brought, Shown
    <2>2. CASE b.conv = c
      BY <1>10, <2>1, <2>2 DEF Taken, TypeInv, MemoryT, ItemsT
    <2>3. CASE b.conv # c
      BY <2>1, <2>3 DEF TypeInv, MemoryT, ItemsT
    <2> QED
      BY <2>2, <2>3
  <1>11. CASE b.kind = "clear" /\ ~ok
    <2> SUFFICES ASSUME NEW c \in Convs PROVE list'[c] \in {list[c], MarkAborted(Taken(x, c))}
      BY <1>8
    <2>1. list' = [d \in Convs |-> MarkAborted(b.before[d])]
      BY <1>4, <1>11 DEF Brought, Shown
    <2> QED
      BY <1>11, <2>1 DEF Taken
  <1> QED
    BY <1>3, <1>4, <1>7, <1>9, <1>10, <1>11, ByIs DEF Brought, Unshown

\* An empty document.
LEMMA NothingFollows ==
  ASSUME TypeInv, list = NoItems, writes = <<>>
  PROVE  FollowInv
PROOF
  <1> SUFFICES ASSUME NEW c \in Convs PROVE ConvFollows(c)
    BY DEF FollowInv, AllFollow
  <1>1. list[c] = None /\ InQueue = {} /\ DOMAIN writes = {} /\ \A conv : After(None, conv)
    BY ItemsAre DEF NoItems, InQueue
  <1> QED
    BY <1>1 DEF ConvFollows, TakenOnce, Follows, QueueFollows, TakenFollow

\* A document that shows and writes nothing is in order.
LEMMA EmptyFollows == TypeInv /\ list = NoItems /\ writes = <<>> => FollowInv
  BY NothingFollows

\* Every step keeps the order of the writes.
LEMMA StepKeepsFollowing ==
  TypeInv /\ TypeInv' /\ RunsInv /\ HeldInv /\ SoundInv /\ RecoveryInv /\ RecoveryInv' /\ FollowInv /\ [Next]_vars => FollowInv'
PROOF
  <1> SUFFICES ASSUME TypeInv, TypeInv', RunsInv, HeldInv, SoundInv, RecoveryInv, RecoveryInv', FollowInv, [Next]_vars PROVE FollowInv'
    OBVIOUS
  <1>0. MountsInv /\ HistoryInv /\ KnownInv
    BY DEF HeldInv
  <1>1. CASE SitsStill \/ GoesAway \/ Open \/ Clear \/ \E c \in Convs : Submit(c) \/ Delete(c)
    BY <1>0, <1>1, PageKeepsFollowing
  <1>2. ASSUME NEW l \in Loops, RunStep(l) PROVE FollowInv'
    BY <1>2, RunKeepsFollowing
  <1>3. CASE Reload
    <2>1. list' = NoItems /\ writes' = <<>>
      BY <1>3, ReloadLoads DEF Loaded
    <2>2. (TypeInv /\ list = NoItems /\ writes = <<>>)' => FollowInv'
      BY EmptyFollows, PTL
    <2> QED
      BY <2>1, <2>2 DEF NoItems
  <1> QED
    BY <1>0, <1>1, <1>2, <1>3, StepCases, LoadHistoryKeepsFollowing, WriteOverKeepsFollowing

\* At first the writes are in order, and there is nothing to recover.
LEMMA InitFollows == Init => FollowInv /\ RecoveryInv
PROOF
  <1>1. TypeInv /\ Init => FollowInv
    BY EmptyFollows DEF Init
  <1> QED
    BY <1>1, InitHasTypes, InitRecovers

\* What the ids and the order of the writes rest on, and these, hold always.
OrderInv == SoundInv /\ RecoveryInv /\ FollowInv

\* Ids, recoveries and writes are in order in every state.
LEMMA OrderIsHeld == Spec => [](TypeInv /\ RunsInv /\ HeldInv /\ OrderInv)
PROOF
  <1>1. Spec => [](TypeInv /\ RunsInv /\ HeldInv)
    BY HistoryIsHeld
  <1>2. Init => OrderInv
    BY InitFollows, InitIsSound DEF OrderInv
  <1>3. TypeInv /\ TypeInv' /\ RunsInv /\ HeldInv /\ OrderInv /\ [Next]_vars => OrderInv'
    <2> SUFFICES ASSUME TypeInv, TypeInv', RunsInv, HeldInv, OrderInv, [Next]_vars PROVE OrderInv'
      OBVIOUS
    <2>1. SoundInv /\ RecoveryInv /\ FollowInv /\ MountsInv /\ HistoryInv
      BY DEF OrderInv, HeldInv
    <2>2. SoundInv' /\ RecoveryInv'
      BY <2>1, StepKeepsSound, StepKeepsRecovery
    <2>3. FollowInv'
      BY <2>1, <2>2, StepKeepsFollowing
    <2> QED
      BY <2>2, <2>3 DEF OrderInv
  <1> QED
    BY <1>1, <1>2, <1>3, PTL DEF Spec

-----------------------------------------------------------------------------
(* What is stored is not lost.                                             *)

\* What extends a conversation has its turns under their ids.
LEMMA TurnsAreFound ==
  ASSUME NEW old, NEW new, new # None, Distinct(new), Extends(new, old), NEW k \in DOMAIN old.turns
  PROVE  /\ Has(new, old.turns[k].id) /\ TurnOf(new, old.turns[k].id) = new.turns[k]
         /\ TurnKeeps(new.turns[k], old.turns[k]) /\ k \in DOMAIN new.turns
PROOF
  <1>1. k \in DOMAIN new.turns /\ TurnKeeps(new.turns[k], old.turns[k])
    BY DEF Extends
  <1>2. Has(new, new.turns[k].id) /\ TurnOf(new, new.turns[k].id) = new.turns[k]
    BY <1>1, TurnOfId
  <1> QED
    BY <1>1, <1>2 DEF TurnKeeps

\* The steps that end no write leave the store.
LEMMA StoreIsLeft ==
  ASSUME TypeInv, [Next]_vars, ~WriteDone, ~WriteFailed
  PROVE  stored' = stored
PROOF
  <1>1. ASSUME NEW l \in Loops, RunStep(l) PROVE stored' = stored
    BY <1>1, RunStepDoes DEF Elsewhere, disk
  <1>2. SitsStill \/ GoesAway \/ Open \/ LoadHistory \/ Clear \/ (\E c \in Convs : Submit(c) \/ Delete(c)) => stored' = stored
    <2>1. SitsStill => stored' = stored
      BY SitsStillIs DEF Unmoved, disk
    <2>2. ASSUME NEW c \in Convs, Submit(c) \/ Delete(c) PROVE stored' = stored
      BY <2>2 DEF Submit, Delete, disk
    <2> QED
      BY <2>1, <2>2 DEF GoesAway, Leave, LogOut, Open, LoadHistory, Clear, disk
  <1>3. Reload => stored' = stored
    BY DEF Reload, Broken, disk
  <1> QED
    BY <1>1, <1>2, <1>3, StepCases

\* No step of a patient user takes a turn or a finished image from the store.
LEMMA StepKeepsStore ==
  ASSUME TypeInv, TypeInv', SoundInv', FollowInv, Patient, [Next]_vars
  PROVE  StoreKeeps
PROOF
  <1> SUFFICES ASSUME NEW c \in Convs, stored[c] # None, c \notin gone'
               PROVE  /\ stored'[c] # None
                      /\ \A k \in DOMAIN stored[c].turns :
                           LET turn == stored[c].turns[k] IN
                           /\ Has(stored'[c], turn.id)
                           /\ \A i \in DOMAIN turn.img : turn.img[i] # "loading" => TurnOf(stored'[c], turn.id).img[i] = turn.img[i]
    BY DEF StoreKeeps
  <1>1. stored[c] \in Conversation /\ Distinct(stored'[c])
    BY ItemsAre DEF SoundInv, SoundIn, Sound
  <1>2. stored'[c] # None /\ Extends(stored'[c], stored[c])
    <2>1. CASE ~WriteDone /\ ~WriteFailed
      BY <1>1, <2>1, StoreIsLeft, AfterAll
    <2>2. CASE WriteDone \/ WriteFailed
      <3> DEFINE x == Head(writes)
      <3>1. PICK ok \in BOOLEAN : WriteEnds(ok)
        BY <2>2, WriteEndsIs
      <3>2. writes # <<>> /\ writes' = Tail(writes) /\ (Ok(x) \/ Broken(x))
        BY <3>1 DEF WriteEnds
      <3>3. x = writes[1] /\ 1 \in DOMAIN writes /\ x \in Writes
        BY <3>2, HeadIs, QueueShrinks DEF TypeInv
      <3> HIDE DEF x
      <3>4. gone \subseteq gone' /\ stored'[c] \in {stored[c], x.items[c]} /\ stored'[c] # None
        BY <3>2, <3>3, StoreComes
      <3>5. After(x.items[c], stored[c])
        BY <3>3, <3>4 DEF FollowInv, AllFollow, ConvFollows, QueueFollows
      <3> QED
        BY <1>1, <3>4, <3>5, AfterAll DEF After
    <2> QED
      BY <2>1, <2>2
  <1>3. ASSUME NEW k \in DOMAIN stored[c].turns
        PROVE  /\ Has(stored'[c], stored[c].turns[k].id)
               /\ TurnKeeps(TurnOf(stored'[c], stored[c].turns[k].id), stored[c].turns[k])
    BY <1>1, <1>2, TurnsAreFound
  <1> QED
    BY <1>2, <1>3 DEF TurnKeeps

\* What is stored is not lost: no step of a user who waits for the history, and does not both leave
\* the page and delete, takes a turn or a finished image from the store, whatever writes fail.
THEOREM StoreIsKept == Spec => StoredIsKept
PROOF
  <1>1. Spec => [](TypeInv /\ RunsInv /\ HeldInv /\ OrderInv)
    BY OrderIsHeld
  <1>2. TypeInv /\ TypeInv' /\ OrderInv /\ OrderInv' /\ [Next]_vars => [Patient => StoreKeeps]_vars
    BY StepKeepsStore DEF OrderInv
  <1>3. Spec => [][Next]_vars
    BY DEF Spec
  <1> QED
    BY <1>1, <1>2, <1>3, PTL DEF StoredIsKept

-----------------------------------------------------------------------------
(* What is queued where somebody reads was never begun: it is unfinished.  *)

\* As long as the page is not left, everybody reads the screen.
StaysOnPage == happened \cap {"leave", "logout"} = {} => \A m \in Mounts : Reads(m) => m = page.mount
UnfinishedIn(c) ==
    list[c] # None => \A k \in DOMAIN list[c].turns, t \in Turns :
        list[c].turns[k].id = t /\ QueuedAt(c, t) => Unfinished(list[c].turns[k])
QueuedIsUnfinished == \A c \in Convs : UnfinishedIn(c)
QueuedInv == StaysOnPage /\ (OneSession => QueuedIsUnfinished)

\* A step of a run reads nothing that was not read.
LEMMA RunReadsLess ==
  ASSUME TypeInv, NEW l \in Loops, RunStep(l)
  PROVE  \A m \in Mounts : Reads(m)' => Reads(m)
PROOF
  <1>1. RunLeaves(l)
    BY RunStepLeaves
  <1>2. OnlyLoop(l) /\ On(l) /\ (On(l)' => loop'[l].mount = loop[l].mount)
    BY RunStaysOnMount
  <1>3. \A k \in Loops, m \in Mounts : Drains(k, m)' => Drains(k, m)
    BY <1>2 DEF OnlyLoop, Drains, On
  <1>4. \A x \in InQueue' : x \in InQueue \/ x.by.kind # "submit"
    BY <1>1, QueueGrows DEF TypeInv, RunLeaves, SaveBy, InQueue
  <1>5. \A x : \A m : Submits(x, m) => x.by.kind = "submit"
    BY DEF Submits
  <1> SUFFICES ASSUME NEW m \in Mounts, Reads(m)' PROVE Reads(m)
    OBVIOUS
  <1>6. (\E k \in Loops : Drains(k, m)') \/ \E x \in InQueue' : Submits(x, m)
    BY DEF Reads, Submits
  <1> QED
    BY <1>3, <1>4, <1>5, <1>6 DEF Reads

\* A drain that starts reads one ref more.
LEMMA DrainReads ==
  ASSUME TypeInv, NEW m \in Mounts, TryDrain(m), InQueue' \subseteq InQueue
  PROVE  \A k \in Mounts : Reads(k)' => Reads(k) \/ k = m
PROOF
  <1>1. CASE UNCHANGED loop
    BY <1>1 DEF Reads, Drains, On, Submits
  <1>2. ASSUME NEW l \in Loops, Starts(l, m) PROVE \A k \in Mounts : Reads(k)' => Reads(k) \/ k = m
    <2> SUFFICES ASSUME NEW k \in Mounts, Reads(k)', k # m PROVE Reads(k)
      OBVIOUS
    <2>1. \A j \in Loops : Drains(j, k)' => Drains(j, k)
      BY <1>2 DEF Starts, OnlyLoop, Drains, On
    <2>2. (\E j \in Loops : Drains(j, k)') \/ \E x \in InQueue : Submits(x, k)
      BY DEF Reads, Submits
    <2> QED
      BY <2>1, <2>2 DEF Reads
  <1> QED
    BY <1>1, <1>2, TryDrainDoes DEF TypeInv

Unread == \A m \in Mounts : ~Reads(m)
\* Nobody reads in a document that was just loaded.
LEMMA LoadedReads == Loaded => Unread
PROOF
  <1> SUFFICES ASSUME Loaded, NEW m \in Mounts, Reads(m) PROVE FALSE
    BY DEF Unread
  <1>1. InQueue = {} /\ \A l \in Loops : loop[l].pc = "off"
    BY DEF Loaded, InQueue, Off
  <1> QED
    BY <1>1 DEF Reads, Drains, On

\* Whoever begins to read, reads the screen.
LEMMA NewReaders ==
  ASSUME TypeInv, [Next]_vars
  PROVE  \A m \in Mounts : Reads(m)' => Reads(m) \/ m = page'.mount
PROOF
  <1>1. ASSUME NEW l \in Loops, RunStep(l) PROVE \A m \in Mounts : Reads(m)' => Reads(m)
    BY <1>1, RunReadsLess
  <1>2. CASE SitsStill
    <2>1. CASE DrainEffect
      <3>1. page.mount # 0 /\ TryDrain(page.mount) /\ page'.mount = page.mount /\ UNCHANGED writes
        BY <2>1, <1>2, SitsStillIs DEF DrainEffect, Unmoved, Unshown, SameMount
      <3> QED
        BY <3>1, PageIs, DrainReads DEF InQueue, TypeInv
    <2>2. CASE SignOut \/ SignIn \/ Notice \/ UNCHANGED vars
      <3>1. UNCHANGED <<loop, writes>>
        BY <2>2 DEF SignOut, SignIn, Notice, vars
      <3> QED
        BY <3>1, ReadersStay
    <2> QED
      BY <1>2, <2>1, <2>2 DEF SitsStill
  <1>3. CASE GoesAway \/ Open
    <2>1. UNCHANGED <<loop, writes>>
      BY <1>3, GoesAwayIs DEF LeavesPage, Open
    <2> QED
      BY <2>1, ReadersStay
  <1>4. CASE LoadHistory
    <2>1. UNCHANGED writes \/ \E x \in Writes : writes' = Append(writes, x) /\ x.by.kind # "submit"
      BY <1>4, HistoryComes DEF HistoryShown, HistorySaved
    <2> QED
      BY <1>4, <2>1, ReadersStay DEF LoadHistory
  <1>5. CASE Clear
    <2>1. PICK x \in Writes : ClearDoes(x)
      BY <1>5, ClearSaves
    <2> QED
      BY <2>1, ReadersStay DEF ClearDoes
  <1>6. ASSUME NEW c \in Convs, Delete(c) PROVE \A m \in Mounts : Reads(m)' => Reads(m)
    <2>1. PICK x \in Writes : DeleteDoes(c, x)
      BY <1>6, DeleteSaves
    <2> QED
      BY <2>1, ReadersStay DEF DeleteDoes
  <1>7. ASSUME NEW c \in Convs, Submit(c) PROVE \A m \in Mounts : Reads(m)' => Reads(m) \/ m = page'.mount
    <2>1. PICK x \in Writes : SubmitDoes(c, x)
      BY <1>7, SubmitSaves
    <2>2. writes' = Append(writes, x) /\ x.by.m = page.mount /\ page'.mount = page.mount /\ UNCHANGED loop
      BY <2>1 DEF SubmitDoes, Shown, SameMount
    <2>3. InQueue' = InQueue \cup {x}
      BY <2>2, QueueGrows DEF TypeInv
    <2> SUFFICES ASSUME NEW m \in Mounts, Reads(m)', m # page'.mount PROVE Reads(m)
      OBVIOUS
    <2>4. (\E k \in Loops : Drains(k, m)') \/ \E y \in InQueue' : Submits(y, m)
      BY DEF Reads, Submits
    <2> QED
      BY <2>2, <2>3, <2>4 DEF Reads, Submits, Drains, On
  <1>8. CASE WriteDone \/ WriteFailed
    <2> DEFINE b == Head(writes).by
    <2>1. PICK ok \in BOOLEAN : WriteEnds(ok)
      BY <1>8, WriteEndsIs
    <2>2. writes # <<>> /\ writes' = Tail(writes) /\ Resume(b, ok)
      BY <2>1 DEF WriteEnds
    <2>3. b \in Bys /\ Awaited(b) /\ InQueue' \subseteq InQueue /\ Head(writes) \in InQueue
      BY <2>2, HeadIs, QueueShrinks DEF TypeInv
    <2> HIDE DEF b
    <2>4. CASE b.kind \in {"loop", "worker"}
      <3>1. \A l \in Loops : Stays(l) /\ (On(l)' <=> On(l))
        BY <2>2, <2>3, <2>4, ResumeRunsOn
      <3> QED
        BY <2>3, <3>1 DEF Reads, Drains, Stays, Submits
    <2>5. CASE UNCHANGED loop
      BY <2>3, <2>5 DEF Reads, Drains, On, Submits
    <2>6. CASE b.kind = "submit" /\ TryDrain(b.m)
      <3>1. b.m \in Mounts /\ Reads(b.m)
        BY <2>3, <2>6, ByIs DEF Reads, Submits, b
      <3> QED
        BY <2>3, <2>6, <3>1, DrainReads
    <2> QED
      BY <2>2, <2>3, <2>4, <2>5, <2>6, ByIs DEF Resume
  <1>9. CASE Reload
    <2>1. Loaded' => Unread'
      BY LoadedReads, PTL
    <2> QED
      BY <1>9, <2>1, ReloadLoads DEF Unread
  <1> QED
    BY <1>1, <1>2, <1>3, <1>4, <1>5, <1>6, <1>7, <1>8, <1>9, StepCases

\* A step shows the list in a ref, or leaves the ref, and stays on the screen unless the page is left or opened.
LEMMA RefsFollow ==
  ASSUME TypeInv, [Next]_vars
  PROVE  /\ \A m \in Mounts : ref'[m] = list' \/ ref'[m] = ref[m]
         /\ Grows /\ (page'.mount = page.mount \/ happened' \cap {"leave", "logout"} # {} \/ page.mount = 0 \/ Reload)
PROOF
  <1> DEFINE P == /\ \A m \in Mounts : ref'[m] = list' \/ ref'[m] = ref[m]
                  /\ Grows /\ (page'.mount = page.mount \/ happened' \cap {"leave", "logout"} # {} \/ page.mount = 0 \/ Reload)
  <1>0. \A m, items : Unshown \/ Shown(m, items) =>
          page'.mount = page.mount /\ \A k \in Mounts : ref'[k] = list' \/ ref'[k] = ref[k]
    BY DEF Unshown, Shown, SameMount
  <1>1. ASSUME NEW l \in Loops, RunStep(l) PROVE P
    <2>1. UNCHANGED Elsewhere /\ RunLeaves(l)
      BY <1>1, RunStepLeaves
    <2> QED
      BY <2>1, UsedAre DEF RunLeaves, Elsewhere, Grows
  <1>2. CASE SitsStill
    BY <1>0, <1>2, SitsStillIs DEF Unmoved
  <1>3. CASE GoesAway
    BY <1>3, GoesAwayIs DEF LeavesPage
  <1>4. CASE Open
    <2>1. page.mount = 0 /\ ref' = [ref EXCEPT ![page.opened + 1] = list] /\ UNCHANGED <<list, used, happened>>
      BY <1>4 DEF Open
    <2> QED
      BY <2>1, UsedAre DEF TypeInv, MemoryT, Grows
  <1>5. CASE LoadHistory
    <2>1. UNCHANGED <<used, happened>>
      BY <1>5, LoadHistoryIs DEF LoadHistory
    <2>2. UNCHANGED memory \/ Shown(page.mount, Visible)
      BY <1>5, HistoryComes DEF HistoryShown, HistorySaved
    <2> QED
      BY <1>0, <2>1, <2>2, UsedAre DEF memory, Grows
  <1>6. CASE Clear
    BY <1>0, <1>6, ClearSaves DEF ClearDoes
  <1>7. ASSUME NEW c \in Convs, Delete(c) PROVE P
    <2>1. PICK x \in Writes : DeleteDoes(c, x)
      BY <1>7, DeleteSaves
    <2>2. Grows /\ \E items : Shown(page.mount, items)
      BY <2>1 DEF DeleteDoes
    <2> QED
      BY <1>0, <2>2
  <1>8. ASSUME NEW c \in Convs, Submit(c) PROVE P
    BY <1>0, <1>8, SubmitSaves DEF SubmitDoes
  <1>9. CASE WriteDone \/ WriteFailed
    <2> DEFINE b == Head(writes).by
    <2>1. PICK ok \in BOOLEAN : WriteEnds(ok)
      BY <1>9, WriteEndsIs
    <2>2. Grows /\ b \in Bys /\ Awaited(b) /\ Resume(b, ok)
      BY <2>1, HeadIs DEF TypeInv, WriteEnds
    <2> HIDE DEF b
    <2>3. Brought(b, ok)
      BY <2>2, ResumeBrings
    <2>4. Unshown \/ \E m, items : Shown(m, items)
      BY <2>2, <2>3, ByIs DEF Brought
    <2> QED
      BY <1>0, <2>2, <2>4
  <1>10. CASE Reload
    <2>1. list' = NoItems /\ ref' = [m \in Mounts |-> NoItems] /\ UNCHANGED used /\ happened \subseteq happened'
      BY <1>10 DEF Reload, Hazard
    <2> QED
      BY <1>10, <2>1, UsedAre DEF Grows
  <1> QED
    BY <1>1, <1>2, <1>3, <1>4, <1>5, <1>6, <1>7, <1>8, <1>9, <1>10, StepCases

\* The page that was not left is the one that is read.
LEMMA StepStaysOnPage ==
  ASSUME TypeInv, StaysOnPage, [Next]_vars
  PROVE  StaysOnPage'
PROOF
  <1> SUFFICES ASSUME happened' \cap {"leave", "logout"} = {}, NEW m \in Mounts, Reads(m)' PROVE m = page'.mount
    BY DEF StaysOnPage
  <1>1. Grows /\ (page'.mount = page.mount \/ page.mount = 0 \/ Reload) /\ (Reads(m) \/ m = page'.mount)
    BY RefsFollow, NewReaders
  <1>2. Reads(m) => m = page.mount
    BY <1>1 DEF StaysOnPage, Grows
  <1>3. ~Reload
    <2>1. Loaded' => Unread'
      BY LoadedReads, PTL
    <2> QED
      BY <2>1, ReloadLoads DEF Unread
  <1>4. m # 0
    BY DEF Mounts
  <1> QED
    BY <1>1, <1>2, <1>3, <1>4

\* A turn that is queued where it is read was so before, or is in the list.
LEMMA QueuedComes ==
  ASSUME TypeInv, MountsInv', [Next]_vars, NEW c \in Convs, NEW t, QueuedAt(c, t)'
  PROVE  InList(c, t)' \/ QueuedAt(c, t)
PROOF
  <1> SUFFICES ASSUME NEW m \in Mounts, Reads(m)', InRef(m, c, t)', ~InList(c, t)' PROVE QueuedAt(c, t)
    BY DEF QueuedAt
  <1>1. ref'[m] # list' /\ (ref'[m] = list' \/ ref'[m] = ref[m]) /\ (Reads(m) \/ m = page'.mount)
    BY RefsFollow, NewReaders DEF InRef, InList
  <1>2. m # 0
    BY DEF Mounts
  <1>3. m # page'.mount
    BY <1>1, <1>2 DEF MountsInv, ScreenInv
  <1>4. Reads(m) /\ InRef(m, c, t)
    BY <1>1, <1>3 DEF InRef
  <1> QED
    BY <1>4 DEF QueuedAt

ReadsTheList == \A c \in Convs, t \in Turns : QueuedAt(c, t) => InList(c, t)

\* While something is deleted, only the list is read.
LEMMA DeletingReads == TypeInv /\ MountsInv /\ StaysOnPage /\ Patient /\ Deletions => ReadsTheList
PROOF
  <1> SUFFICES ASSUME TypeInv, MountsInv, StaysOnPage, Patient, Deletions, NEW c \in Convs, NEW t \in Turns,
                      NEW m \in Mounts, Reads(m), InRef(m, c, t)
               PROVE  InList(c, t)
    BY DEF ReadsTheList, QueuedAt
  <1>1. happened \cap {"leave", "logout"} = {}
    BY DEF Patient, ReadBeforeDeletion, Deletions
  <1>2. m = page.mount /\ m # 0
    BY <1>1 DEF StaysOnPage, Mounts
  <1>3. ref[m] = list
    BY <1>2 DEF MountsInv, ScreenInv
  <1> QED
    BY <1>3 DEF InRef, InList

\* Nobody reads while the history is read.
LEMMA NobodyReads ==
  ASSUME TypeInv, MountsInv, HistoryInv, RecoveryInv, Patient, Waits, load.pc # "off"
  PROVE  \A c \in Convs : \A t : ~QueuedAt(c, t)
PROOF
  <1>1. Fresh /\ Idle /\ list = NoItems
    BY FreshWhileRead
  <1>2. \A l \in Loops : ~On(l)
    BY <1>1 DEF Waits, Idle, Busy, On
  <1>3. \A x \in InQueue : x.by.kind # "submit"
    BY <1>1 DEF RecoveryInv, FreshHistory, MountsInv, KindsInv, WriteKind
  <1>4. \A m \in Mounts : ~Reads(m)
    BY <1>2, <1>3 DEF Reads, Drains, Submits
  <1>5. \A c \in Convs : \A t : ~InList(c, t)
    BY <1>1 DEF InList, QueuedOf, NoItems
  <1> QED
    BY <1>4, <1>5 DEF QueuedAt

\* Where each id is once, what is queued is not finished.
LEMMA QueuedOnce ==
  ASSUME NEW conv, Distinct(conv), conv # None, NEW k \in DOMAIN conv.turns, conv.turns[k].id \in QueuedOf(conv)
  PROVE  Unfinished(conv.turns[k])
PROOF
  <1>1. PICK j \in DOMAIN conv.turns : conv.turns[j].status = "queued" /\ conv.turns[j].id = conv.turns[k].id
    BY DEF QueuedOf
  <1>2. j = k
    BY <1>1 DEF Distinct
  <1> QED
    BY <1>1, <1>2 DEF Unfinished

\* A step of a run begins what is queued, and goes on with what is not queued.
LEMMA RunKeepsUnfinished ==
  ASSUME TypeInv, TypeInv', MountsInv', OnceParts, SoundInv', QueuedIsUnfinished, NEW l \in Loops, RunStep(l), [Next]_vars
  PROVE  QueuedIsUnfinished'
PROOF
  <1> DEFINE c == loop[l].conv
  <1> SUFFICES ASSUME NEW d \in Convs, list'[d] # None, NEW k \in DOMAIN list'[d].turns,
                      NEW t \in Turns, list'[d].turns[k].id = t, QueuedAt(d, t)'
               PROVE  Unfinished(list'[d].turns[k])
    BY DEF QueuedIsUnfinished, UnfinishedIn
  <1>1. RunLeaves(l) /\ (UNCHANGED list \/ Begins(l) \/ GoesOn(l))
    BY RunStepLeaves, RunStepEdits
  <1>2. Distinct(list'[d])
    BY DEF SoundInv, SoundIn, Sound
  <1>3. CASE InList(d, t)'
    BY <1>2, <1>3, QueuedOnce DEF InList
  <1>4. CASE ~InList(d, t)'
    <2>1. QueuedAt(d, t)
      BY <1>4, QueuedComes
    <2>2. CASE list'[d] = list[d]
      BY <2>1, <2>2 DEF QueuedIsUnfinished, UnfinishedIn
    <2>3. CASE list'[d] # list[d]
      <3>1. d = c /\ (Begins(l) \/ GoesOn(l))
        BY <1>1, <2>3 DEF RunLeaves, TypeInv, MemoryT, ItemsT
      <3>2. CASE Begins(l)
        <4>1. CASE t = EnteredTurn(l).id
          BY <3>1, <3>2, <4>1 DEF Begins, EditsOne
        <4>2. CASE t # EnteredTurn(l).id
          <5>1. k \in DOMAIN list[d].turns /\ list'[d].turns[k] = list[d].turns[k] /\ list[d] \in Conversation
            BY <3>1, <3>2, <4>2 DEF Begins, EditsOne
          <5> QED
            BY <2>1, <5>1, NoneIsNoConversation DEF QueuedIsUnfinished, UnfinishedIn
        <4> QED
          BY <4>1, <4>2
      <3>3. CASE GoesOn(l)
        <4>1. On(l) /\ InRun(l) /\ loop[l].pc # "starting"
          BY <3>3 DEF GoesOn, On, InRun
        <4>2. ~QueuedAt(d, loop[l].turn)
          BY <4>1, RunIsAlone DEF OnceParts, RunsAreNew
        <4>3. k \in DOMAIN list[d].turns /\ list'[d].turns[k] = list[d].turns[k] /\ list[d] \in Conversation
          BY <2>1, <3>1, <3>3, <4>2 DEF GoesOn, EditsOne
        <4> QED
          BY <2>1, <4>3, NoneIsNoConversation DEF QueuedIsUnfinished, UnfinishedIn
      <3> QED
        BY <3>1, <3>2, <3>3
    <2> QED
      BY <2>2, <2>3
  <1> QED
    BY <1>3, <1>4

\* The other steps begin nothing, and show or bring back nothing that is queued elsewhere.
LEMMA OthersKeepUnfinished ==
  ASSUME TypeInv, TypeInv', MountsInv, MountsInv', HistoryInv, RecoveryInv, StaysOnPage', Patient, Patient',
         SoundInv', QueuedIsUnfinished, [Next]_vars, \A l \in Loops : ~RunStep(l)
  PROVE  QueuedIsUnfinished'
PROOF
  <1> SUFFICES ASSUME NEW d \in Convs, list'[d] # None, NEW k \in DOMAIN list'[d].turns,
                      NEW t \in Turns, list'[d].turns[k].id = t, QueuedAt(d, t)'
               PROVE  Unfinished(list'[d].turns[k])
    BY DEF QueuedIsUnfinished, UnfinishedIn
  <1>1. Distinct(list'[d])
    BY DEF SoundInv, SoundIn, Sound
  <1>2. ASSUME InList(d, t)' PROVE Unfinished(list'[d].turns[k])
    BY <1>1, <1>2, QueuedOnce DEF InList
  <1> SUFFICES ASSUME ~InList(d, t)' PROVE Unfinished(list'[d].turns[k])
    BY <1>2
  <1>3. QueuedAt(d, t)
    BY QueuedComes
  <1>4. CASE list'[d] = list[d]
    BY <1>3, <1>4 DEF QueuedIsUnfinished, UnfinishedIn
  <1>5. ASSUME Waits, load.pc # "off" PROVE FALSE
    BY <1>3, <1>5, NobodyReads
  <1>6. ASSUME Deletions' PROVE FALSE
    <2>1. TypeInv' /\ MountsInv' /\ StaysOnPage' /\ Patient' /\ Deletions' => ReadsTheList'
      BY DeletingReads, PTL
    <2> QED
      BY <1>6, <2>1 DEF ReadsTheList
  <1>7. CASE SitsStill \/ GoesAway \/ Open
    <2>1. UNCHANGED list
      BY <1>7, SitsStillIs, GoesAwayIs DEF Unmoved, Unshown, LeavesPage, Open
    <2> QED
      BY <1>4, <2>1
  <1>8. CASE LoadHistory
    <2>1. load.pc = "reading" /\ Waits
      BY <1>8, LoadHistoryIs DEF LoadHistory
    <2> QED
      BY <1>5, <2>1
  <1>9. CASE Clear \/ \E c \in Convs : Delete(c)
    <2>1. CASE Clear
      BY <2>1, ClearSaves DEF ClearDoes, Shown, NoItems
    <2>2. ASSUME NEW c \in Convs, Delete(c) PROVE list'[d] = list[d]
      <3>1. PICK x \in Writes : DeleteDoes(c, x)
        BY <2>2, DeleteSaves
      <3>2. list' = [list EXCEPT ![c] = None]
        BY <3>1 DEF DeleteDoes, Shown
      <3> QED
        BY <3>2 DEF TypeInv, MemoryT, ItemsT
    <2> QED
      BY <1>4, <1>9, <2>1, <2>2
  <1>10. ASSUME NEW c \in Convs, Submit(c) PROVE Unfinished(list'[d].turns[k])
    <2>1. PICK x \in Writes : SubmitDoes(c, x)
      BY <1>10, SubmitSaves
    <2>2. list' = [list EXCEPT ![c] = WithTurn(c)] /\ list'[c] = WithTurn(c) /\ used.turns + 1 \in Turns
      BY <2>1 DEF SubmitDoes, Shown
    <2>3. CASE d # c
      BY <1>4, <2>2, <2>3 DEF TypeInv, MemoryT, ItemsT
    <2>4. CASE d = c
      <3> DEFINE n == IF list[c] = None THEN 0 ELSE Len(list[c].turns)
      <3>1. /\ n \in Nat /\ DOMAIN list'[c].turns = 1 .. n + 1
            /\ list[c] # None => DOMAIN list[c].turns = 1 .. n /\ \A i \in 1 .. n : list'[c].turns[i] = list[c].turns[i]
            /\ Unfinished(list'[c].turns[n + 1]) /\ (list[c] = None => n = 0)
        BY <2>2, WithTurnKeeps
      <3> HIDE DEF n
      <3>2. CASE k = n + 1
        BY <2>4, <3>1, <3>2
      <3>3. CASE k # n + 1
        <4>1. list[d] # None /\ k \in DOMAIN list[d].turns /\ list'[d].turns[k] = list[d].turns[k]
          BY <2>4, <3>1, <3>3
        <4> QED
          BY <1>3, <4>1 DEF QueuedIsUnfinished, UnfinishedIn
      <3> QED
        BY <3>2, <3>3
    <2> QED
      BY <2>3, <2>4
  <1>11. CASE WriteDone \/ WriteFailed
    <2> DEFINE b == Head(writes).by
    <2>1. PICK ok \in BOOLEAN : WriteEnds(ok)
      BY <1>11, WriteEndsIs
    <2>2. /\ writes # <<>> /\ Grows /\ b \in Bys /\ Awaited(b) /\ Resume(b, ok) /\ Waits
          /\ Head(writes) = writes[1] /\ 1 \in DOMAIN writes
      BY <2>1, HeadIs, QueueShrinks DEF TypeInv, WriteEnds
    <2>3. Brought(b, ok)
      BY <2>2, ResumeBrings
    <2>4. /\ ForScreen(b) => load.pc = "saving"
          /\ b.kind \in {"delete", "clear"} => Deletions
      BY <2>2 DEF ForScreen, MountsInv, OnceRead, LoadOf, KindsInv, WriteKind, InQueue
    <2> HIDE DEF b
    <2>5. CASE ForScreen(b)
      BY <1>5, <2>2, <2>4, <2>5
    <2>6. CASE b.kind \in {"delete", "clear"}
      BY <1>6, <2>2, <2>4, <2>6 DEF Deletions, Grows
    <2>7. CASE ~ForScreen(b) /\ b.kind \notin {"delete", "clear"}
      BY <1>4, <2>2, <2>3, <2>7, ByIs DEF Brought, Unshown
    <2> QED
      BY <2>5, <2>6, <2>7
  <1>12. CASE Reload
    BY <1>12 DEF Reload, NoItems
  <1> QED
    BY <1>7, <1>8, <1>9, <1>10, <1>11, <1>12, StepCases

\* Every step keeps what is queued unfinished.
LEMMA StepKeepsQueued ==
  /\ TypeInv /\ TypeInv' /\ MountsInv /\ MountsInv' /\ HistoryInv /\ OnceInv /\ RecoveryInv /\ SoundInv'
  /\ QueuedInv /\ [Next]_vars
  => QueuedInv'
PROOF
  <1> SUFFICES ASSUME TypeInv, TypeInv', MountsInv, MountsInv', HistoryInv, OnceInv, RecoveryInv, SoundInv', QueuedInv, [Next]_vars
               PROVE  QueuedInv'
    OBVIOUS
  <1>1. StaysOnPage'
    BY StepStaysOnPage DEF QueuedInv
  <1>2. ASSUME OneSession' PROVE QueuedIsUnfinished'
    <2>1. OneSession /\ Patient /\ Patient'
      BY <1>2, RefsFollow, OneSessionBefore
    <2>2. OnceParts /\ QueuedIsUnfinished
      BY <2>1 DEF OnceInv, QueuedInv
    <2>3. CASE \E l \in Loops : RunStep(l)
      BY <2>2, <2>3, RunKeepsUnfinished
    <2>4. CASE \A l \in Loops : ~RunStep(l)
      BY <1>1, <2>1, <2>2, <2>4, OthersKeepUnfinished
    <2> QED
      BY <2>3, <2>4
  <1> QED
    BY <1>1, <1>2 DEF QueuedInv

\* Nothing is queued at first.
LEMMA InitIsQueued == Init => QueuedInv
PROOF
  <1> SUFFICES ASSUME Init PROVE QueuedInv
    OBVIOUS
  <1>1. Unread
    BY InitLoads, LoadedReads
  <1>2. \A c \in Convs : list[c] = None
    BY DEF Init, NoItems
  <1> QED
    BY <1>1, <1>2 DEF QueuedInv, StaysOnPage, Unread, QueuedIsUnfinished, UnfinishedIn

\* One session queues what is unfinished, in the order of the writes.
LEMMA QueueIsHeld == Spec => [](TypeInv /\ RunsInv /\ HeldInv /\ OrderInv /\ OnceInv /\ QueuedInv)
PROOF
  <1>1. Spec => [](TypeInv /\ RunsInv /\ HeldInv /\ OrderInv)
    BY OrderIsHeld
  <1>2. Init => OnceInv /\ QueuedInv
    BY InitIsOnce, InitIsQueued
  <1>3. TypeInv /\ TypeInv' /\ RunsInv /\ HeldInv /\ OnceInv /\ [Next]_vars => OnceInv'
    BY StepKeepsOnce DEF HeldInv
  <1>4. TypeInv /\ TypeInv' /\ HeldInv /\ HeldInv' /\ OrderInv /\ OrderInv' /\ OnceInv /\ QueuedInv /\ [Next]_vars => QueuedInv'
    BY StepKeepsQueued DEF HeldInv, OrderInv
  <1>5. Spec => Init /\ [][Next]_vars
    BY DEF Spec
  <1> QED
    BY <1>1, <1>2, <1>3, <1>4, <1>5, PTL

-----------------------------------------------------------------------------
(* A turn that is over stays over.                                         *)

\* A conversation with at least the turns of another one, none of which begins anew.
GoesOnFrom(new, old) ==
    Extends(new, old) /\ \A k \in DOMAIN old.turns : Unfinished(new.turns[k]) => Unfinished(old.turns[k])

\* The turn that a run begins with is queued where it is read.
LEMMA EnteredIsQueued ==
  ASSUME TypeInv, NEW l \in Loops, LoopEnter(l)
  PROVE  loop[l].conv \in Convs /\ EnteredTurn(l).id \in Turns /\ QueuedAt(loop[l].conv, EnteredTurn(l).id)
PROOF
  <1> DEFINE c == loop[l].conv
             m == loop[l].mount
             t == EnteredTurn(l).id
  <1>1. loop[l].pc = "enter" /\ HasQueued(ref[m][c])
    BY DEF LoopEnter, Startable
  <1>2. c \in Convs /\ m \in Mounts
    BY <1>1 DEF TypeInv, LoopT
  <1>3. t \in QueuedOf(ref[m][c]) /\ t \in Turns
    <2>1. ref[m][c] \in Conversation /\ ref[m][c] # None
      BY <1>1, <1>2 DEF HasQueued, TypeInv, MemoryT, ItemsT
    <2>2. /\ FirstQueued(ref[m][c]) \in Turn /\ FirstQueued(ref[m][c]).status = "queued"
          /\ \E k \in DOMAIN ref[m][c].turns : ref[m][c].turns[k] = FirstQueued(ref[m][c])
      BY <1>1, <2>1, FirstQueuedIs
    <2>3. t = FirstQueued(ref[m][c]).id
      BY DEF EnteredTurn
    <2> QED
      BY <2>1, <2>2, <2>3, TurnIs DEF QueuedOf
  <1>4. Drains(l, m)
    BY <1>1 DEF Drains, On
  <1> QED
    BY <1>2, <1>3, <1>4 DEF QueuedAt, Reads, InRef

\* A run begins with what is unfinished, ...
LEMMA RunGoesOnFrom ==
  ASSUME TypeInv, SoundInv, QueuedIsUnfinished, NEW l \in Loops, RunStep(l),
         NEW c \in Convs, list[c] # None, list'[c] # list[c]
  PROVE  GoesOnFrom(list'[c], list[c])
PROOF
  <1>1. c = loop[l].conv /\ (Begins(l) \/ GoesOn(l)) /\ Distinct(list[c])
    BY RunStepLeaves, RunStepEdits DEF RunLeaves, TypeInv, MemoryT, ItemsT, SoundInv, SoundIn, Sound
  <1>2. Extends(list'[c], list[c])
    BY <1>1, EditLengthens DEF Begins, GoesOn
  <1>3. CASE GoesOn(l)
    BY <1>1, <1>2, <1>3 DEF GoesOn, GoesOnFrom
  <1>4. CASE Begins(l)
    <2> SUFFICES ASSUME NEW k \in DOMAIN list[c].turns, Unfinished(list'[c].turns[k]) PROVE Unfinished(list[c].turns[k])
      BY <1>2 DEF GoesOnFrom
    <2>1. CASE list[c].turns[k].id = EnteredTurn(l).id
      <3>1. EnteredTurn(l).id \in Turns /\ QueuedAt(c, EnteredTurn(l).id)
        BY <1>1, <1>4, EnteredIsQueued DEF Begins
      <3> QED
        BY <2>1, <3>1 DEF QueuedIsUnfinished, UnfinishedIn
    <2>2. CASE list[c].turns[k].id # EnteredTurn(l).id
      BY <1>1, <1>4, <2>2 DEF Begins, EditsOne
    <2> QED
      BY <2>1, <2>2
  <1> QED
    BY <1>1, <1>3, <1>4

\* ... a submission adds a turn, ...
LEMMA SubmitGoesOnFrom ==
  ASSUME TypeInv, NEW d \in Convs, Submit(d), NEW c \in Convs, list[c] # None, list'[c] # list[c]
  PROVE  GoesOnFrom(list'[c], list[c])
PROOF
  <1>1. PICK x \in Writes : SubmitDoes(d, x)
    BY SubmitSaves
  <1>2. list' = [list EXCEPT ![d] = WithTurn(d)] /\ list'[d] = WithTurn(d) /\ used.turns + 1 \in Turns
    BY <1>1 DEF SubmitDoes, Shown
  <1>3. c = d
    BY <1>2 DEF TypeInv, MemoryT, ItemsT
  <1>4. \A k \in DOMAIN list[c].turns : k \in DOMAIN list'[c].turns /\ list'[c].turns[k] = list[c].turns[k]
    <2> DEFINE n == Len(list[c].turns)
    <2>1. /\ n \in Nat /\ DOMAIN list'[c].turns = 1 .. n + 1
          /\ DOMAIN list[c].turns = 1 .. n /\ \A k \in 1 .. n : list'[c].turns[k] = list[c].turns[k]
      BY <1>2, <1>3, WithTurnKeeps
    <2> HIDE DEF n
    <2> QED
      BY <2>1
  <1> QED
    BY <1>4 DEF GoesOnFrom, Extends, TurnKeeps

\* ... and no other step changes a conversation that it does not take off the screen.
LEMMA OthersGoOnFrom ==
  ASSUME TypeInv, MountsInv, HistoryInv, FollowInv, Patient, [Next]_vars,
         NEW c \in Convs, list[c] # None, list'[c] # None, list'[c] # list[c]
  PROVE  (\E l \in Loops : RunStep(l)) \/ \E d \in Convs : Submit(d)
PROOF
  <1>1. ASSUME SitsStill \/ GoesAway \/ Open PROVE FALSE
    BY <1>1, SitsStillIs, GoesAwayIs DEF Unmoved, Unshown, LeavesPage, Open
  <1>2. ASSUME load.pc # "off" PROVE FALSE
    BY <1>2, FreshWhileRead DEF NoItems
  <1>3. ASSUME LoadHistory PROVE FALSE
    BY <1>2, <1>3 DEF LoadHistory
  <1>4. ASSUME Clear PROVE FALSE
    BY <1>4, ClearSaves DEF ClearDoes, Shown, NoItems
  <1>5. ASSUME NEW d \in Convs, Delete(d) PROVE FALSE
    <2>1. PICK x \in Writes : DeleteDoes(d, x)
      BY <1>5, DeleteSaves
    <2>2. list' = [list EXCEPT ![d] = None]
      BY <2>1 DEF DeleteDoes, Shown
    <2> QED
      BY <2>2 DEF TypeInv, MemoryT, ItemsT
  <1>6. ASSUME WriteDone \/ WriteFailed PROVE FALSE
    <2> DEFINE x == Head(writes)
               b == x.by
    <2>1. PICK ok \in BOOLEAN : WriteEnds(ok)
      BY <1>6, WriteEndsIs
    <2>2. b \in Bys /\ Awaited(b) /\ Resume(b, ok) /\ x = writes[1] /\ 1 \in DOMAIN writes
      BY <2>1, HeadIs, QueueShrinks DEF TypeInv, WriteEnds
    <2>3. Brought(b, ok)
      BY <2>2, ResumeBrings
    <2>4. ~ForScreen(b)
      BY <1>2, <2>2 DEF ForScreen, MountsInv, OnceRead, LoadOf
    <2>5. Taken(x, c) = None
      BY <2>2 DEF FollowInv, AllFollow, ConvFollows, TakenOnce
    <2>6. ASSUME b.kind = "delete", ~ok PROVE FALSE
      <3>1. b.conv \in Convs /\ list' = [list EXCEPT ![b.conv] = MarkAborted(b.before)] /\ b.before \in Conversation
        BY <2>2, <2>3, <2>6, ByIs DEF Brought, Shown
      <3>2. b.conv = c
        BY <3>1 DEF TypeInv, MemoryT, ItemsT
      <3> QED
        BY <2>5, <2>6, <3>1, <3>2, NoneIsNoConversation DEF Taken
    <2>7. ASSUME b.kind = "clear", ~ok PROVE FALSE
      <3>1. list'[c] = MarkAborted(b.before[c]) /\ b.before[c] = None
        BY <2>3, <2>5, <2>7 DEF Brought, Shown, Taken
      <3> QED
        BY <3>1, OverIs
    <2> QED
      BY <2>2, <2>3, <2>4, <2>6, <2>7, ByIs DEF Brought, Unshown
  <1>7. ASSUME Reload PROVE FALSE
    BY <1>7 DEF Reload, NoItems
  <1> QED
    BY <1>1, <1>3, <1>4, <1>5, <1>6, <1>7, StepCases

\* No step of the session begins again what is over.
LEMMA StepStaysOver ==
  ASSUME TypeInv, MountsInv, HistoryInv, OrderInv, OrderInv', QueuedInv, OneSession, [Next]_vars
  PROVE  TurnsStayOver
PROOF
  <1> SUFFICES ASSUME NEW c \in Convs, list[c] # None, list'[c] # None, NEW k \in DOMAIN list[c].turns
               PROVE  LET turn == list[c].turns[k] IN
                      /\ Has(list'[c], turn.id)
                      /\ Unfinished(TurnOf(list'[c], turn.id)) => Unfinished(turn)
                      /\ \A i \in DOMAIN turn.img : turn.img[i] # "loading" => TurnOf(list'[c], turn.id).img[i] = turn.img[i]
    BY DEF TurnsStayOver
  <1>1. SoundInv /\ FollowInv /\ QueuedIsUnfinished /\ Patient /\ list[c] \in Conversation /\ Distinct(list'[c])
    BY ItemsAre DEF OrderInv, QueuedInv, OneSession, SoundInv, SoundIn, Sound
  <1>2. GoesOnFrom(list'[c], list[c])
    <2>1. CASE list'[c] = list[c]
      BY <2>1, <1>1, AfterAll DEF GoesOnFrom
    <2>2. CASE list'[c] # list[c]
      BY <1>1, <2>2, OthersGoOnFrom, RunGoesOnFrom, SubmitGoesOnFrom
    <2> QED
      BY <2>1, <2>2
  <1>3. /\ Has(list'[c], list[c].turns[k].id) /\ TurnOf(list'[c], list[c].turns[k].id) = list'[c].turns[k]
        /\ TurnKeeps(list'[c].turns[k], list[c].turns[k])
    BY <1>2, <1>1, TurnsAreFound DEF GoesOnFrom
  <1> QED
    BY <1>2, <1>3 DEF GoesOnFrom, TurnKeeps

\* A turn that is over stays over, and an image that is no longer loading stays as it is: no step of
\* a session of a user who waits for the history changes that, whatever answers come late.
THEOREM OverIsOver == Spec => OverStaysOver
PROOF
  <1>1. Spec => [](TypeInv /\ RunsInv /\ HeldInv /\ OrderInv /\ OnceInv /\ QueuedInv)
    BY QueueIsHeld
  <1>2. TypeInv /\ HeldInv /\ OrderInv /\ OrderInv' /\ QueuedInv /\ [Next]_vars => [OneSession => TurnsStayOver]_vars
    BY StepStaysOver DEF HeldInv
  <1>3. Spec => [][Next]_vars
    BY DEF Spec
  <1> QED
    BY <1>1, <1>2, <1>3, PTL DEF OverStaysOver

-----------------------------------------------------------------------------
(* The page with the site.                                                 *)

\* An image on its way is the queue of the page, and a request at the site, each with its own steps.
LEMMA BothSides == ImageSpec => Spec /\ RequestSpec
PROOF
  <1>1. ImageInit => Init /\ RequestInit
    BY DEF ImageInit
  <1>2. [ImageNext]_imageVars => [Next]_vars /\ [RequestNext]_requestVars
    BY DEF ImageNext, imageVars
  <1> QED
    BY <1>1, <1>2, PTL DEF ImageSpec, Spec, RequestSpec

\* The variables of the page's queue and of a request at the site keep their types.
THEOREM ImagesTyped == ImageSpec => []ImagesTypeOK
  BY BothSides, QueueTyped, RequestTypesKept, PTL DEF ImagesTypeOK

\* A deleted conversation stays deleted in memory and in the store, and what the page shows when
\* nothing is on its way is what the store has.
THEOREM StoreAlwaysTrue == ImageSpec => []StoreIsTrue
  BY BothSides, DeletedIsGone, ShownIsInTheStore, PTL DEF StoreIsTrue

\* Two loops of the page never run the same conversation, and in one session no image of a turn is requested twice.
THEOREM RunsStaySingle == ImageSpec => []RunsAreSingle
PROOF
  <1>1. RunsInv => OneRunEach
    BY DEF RunsInv
  <1> QED
    BY <1>1, BothSides, RunsAreHeld, ImagesAreRequestedOnce, PTL DEF RunsAreSingle

\* What a turn came to stays: late answers on the page do not undo it in one session, and writes to the store do not
\* in any, of a user who waits for the history and does not both leave the page and delete.
THEOREM OutcomesLast == ImageSpec => OutcomesStay
  BY BothSides, StoreIsKept, OverIsOver, PTL DEF OutcomesStay
=============================================================================
