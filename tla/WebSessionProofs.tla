-------------------------- MODULE WebSessionProofs --------------------------
(***************************************************************************)
(* Proofs about WebSession, for any tabs, keys and bounds: whatever order  *)
(* the functions of all tabs run in, no check clears a session that is not *)
(* its own, and none shows a session that is not the stored one.           *)
(***************************************************************************)
EXTENDS WebSession, TLAPS

-----------------------------------------------------------------------------
(* The strengthening *)

\* A thread has exactly the fields of a thread.  One that is about to remove a session, other than by
\* signing out or by reading, found the session of its own key when it compared, or something failed
\* before; one that signs in has a key.
Reads == {"start", "ok", "lost", "error", "refused"}
Reasons == {"get", "take", "verify", "refused", "failed", "signout"}
Good(r, troubles) ==
    /\ r = [job |-> r.job, pc |-> r.pc, get |-> r.get, clear |-> r.clear, session |-> r.session, want |-> r.want]
    /\ r.get \in Reads /\ r.clear \in Reasons
    /\ r.pc \in {"remove.key", "remove.session"} =>
         r.clear \in {"get", "signout"} \/ r.session = r.want \/ troubles > 0
    /\ r.pc \in {"put.key", "put.session"} => r.want # None
ThreadsOK(th, troubles) == th = [i \in Threads |-> th[i]] /\ \A i \in Threads : Good(th[i], troubles)

\* What tabs, store and server keep.
TabsOK(tb) ==
    /\ tb = [t \in Tabs |-> tb[t]]
    /\ \A t \in Tabs : tb[t] = [route |-> tb[t].route, checking |-> tb[t].checking, session |-> tb[t].session, shell |-> tb[t].shell]
StoreOK(st) == st = [key |-> st.key, session |-> st.session]
KeysOK(ks) == ks = [made |-> ks.made, role |-> ks.role, valid |-> ks.valid] /\ ks.made \in Nat
SpentOK(sp) == sp = [visits |-> sp.visits, troubles |-> sp.troubles] /\ sp.visits \in Nat /\ sp.troubles \in Nat
SessionInv == ThreadsOK(thread, spent.troubles) /\ TabsOK(tab) /\ StoreOK(store) /\ KeysOK(keys) /\ SpentOK(spent)

-----------------------------------------------------------------------------
(* Threads and tabs *)

\* Another thread in the place of one.
LEMMA ThreadSet ==
    ASSUME NEW th, NEW n, ThreadsOK(th, n), NEW i \in Threads, NEW r, Good(r, n)
    PROVE  ThreadsOK([th EXCEPT ![i] = r], n)
BY DEF ThreadsOK

\* Troubles are not forgotten.
LEMMA TroublesStay ==
    ASSUME NEW th, NEW n \in Nat, ThreadsOK(th, n), NEW m \in Nat, m >= n
    PROVE  ThreadsOK(th, m)
BY DEF ThreadsOK, Good

\* A thread that is over.
LEMMA Over == ASSUME NEW n PROVE Good(Off, n)
BY DEF Good, Off, Reads, Reasons

\* A thread that begins.
LEMMA Begins ==
    ASSUME NEW n, NEW job, NEW pc, NEW want,
           pc \notin {"remove.key", "remove.session"}, pc \in {"put.key", "put.session"} => want # None
    PROVE  Good(Begun(job, pc, want), n)
<1> DEFINE r == [Off EXCEPT !.job = job]
           q == [r EXCEPT !.pc = pc]
           p == [q EXCEPT !.want = want]
<1>1. Begun(job, pc, want) = p
  BY DEF Begun
<1>2. r = [job |-> job, pc |-> "off", get |-> "start", clear |-> "get", session |-> None, want |-> None]
  BY DEF Off
<1> HIDE DEF r
<1>3. q = [job |-> job, pc |-> pc, get |-> "start", clear |-> "get", session |-> None, want |-> None]
  BY <1>2
<1> HIDE DEF q
<1>4. p = [job |-> job, pc |-> pc, get |-> "start", clear |-> "get", session |-> None, want |-> want]
  BY <1>3
<1> HIDE DEF p
<1>5. /\ p = [job |-> p.job, pc |-> p.pc, get |-> p.get, clear |-> p.clear, session |-> p.session, want |-> p.want]
      /\ p.get = "start" /\ p.clear = "get" /\ p.pc = pc /\ p.want = want
  BY <1>4
<1> QED
  BY <1>1, <1>5 DEF Good, Reads, Reasons

\* A page that opens begins threads of its own, and leaves the one of the page before it.
LEMMA Opens ==
    ASSUME NEW th, NEW n, ThreadsOK(th, n), NEW t \in Tabs, NEW route
    PROVE  ThreadsOK(Opened(th, t, route), n)
<1> DEFINE shown == Begun(JobOf(route), "get", None)
           framed == IF route \in Public \/ t \notin Framed THEN Off ELSE Begun("shell", "get", None)
           left == [th EXCEPT ![<<t, "left">>] = th[<<t, "page">>]]
           paged == [left EXCEPT ![<<t, "page">>] = shown]
           all == [paged EXCEPT ![<<t, "shell">>] = framed]
<1>1. <<t, "left">> \in Threads /\ <<t, "page">> \in Threads /\ <<t, "shell">> \in Threads
  BY DEF Threads
<1>2. Good(th[<<t, "page">>], n)
  BY <1>1 DEF ThreadsOK
<1>3. Good(Off, n) /\ Good(shown, n) /\ Good(Begun("shell", "get", None), n)
  BY Begins, Over
<1>4. Good(framed, n)
  BY <1>3
<1>5. Opened(th, t, route) = all
  BY DEF Opened
<1> HIDE DEF shown, framed
<1>6. ThreadsOK(left, n)
  BY <1>1, <1>2, ThreadSet
<1> HIDE DEF left
<1>7. ThreadsOK(paged, n)
  BY <1>1, <1>3, <1>6, ThreadSet
<1> HIDE DEF paged
<1>8. ThreadsOK(all, n)
  BY <1>1, <1>4, <1>7, ThreadSet
<1> HIDE DEF all
<1> QED
  BY <1>5, <1>8

\* What a thread's end may change of the tabs: the tab of the thread shows the given session, or none.
Outcome(i, key) ==
    /\ ThreadsOK(thread', spent.troubles) /\ TabsOK(tab')
    /\ \A t \in Tabs : tab'[t].session \in {None, tab[t].session} \/ (t = Of(i) /\ tab'[t].session = key)

\* A page that opens shows nothing yet.
LEMMA Shown ==
    ASSUME NEW tb, TabsOK(tb), NEW t \in Tabs, NEW route
    PROVE  /\ TabsOK([tb EXCEPT ![t] = Fresh(t, route)])
           /\ \A u \in Tabs : [tb EXCEPT ![t] = Fresh(t, route)][u].session \in {None, tb[u].session}
<1>1. Fresh(t, route).session = None
      /\ Fresh(t, route) = [route |-> Fresh(t, route).route, checking |-> Fresh(t, route).checking,
                            session |-> Fresh(t, route).session, shell |-> Fresh(t, route).shell]
  BY DEF Fresh
<1> QED
  BY <1>1 DEF TabsOK

\* A thread that ends, or goes on elsewhere.
LEMMA Ends ==
    ASSUME SessionInv, NEW i \in Threads, NEW key, End(i) \/ \E route : Replace(i, route)
    PROVE  Outcome(i, key)
<1>1. Of(i) \in Tabs
  BY DEF Of, Threads
<1>2. ThreadsOK(Ended(i), spent.troubles)
  BY Over, ThreadSet DEF Ended, SessionInv
<1>3. CASE End(i)
  BY <1>2, <1>3 DEF End, Outcome, SessionInv
<1>4. ASSUME NEW route, Replace(i, route), ~End(i) PROVE Outcome(i, key)
  <2>1. thread' = Opened(Ended(i), Of(i), route) /\ tab' = [tab EXCEPT ![Of(i)] = Fresh(Of(i), route)]
    BY <1>4 DEF Replace
  <2>2. ThreadsOK(thread', spent.troubles)
    BY <1>1, <1>2, <2>1, Opens
  <2>3. TabsOK(tab') /\ \A u \in Tabs : tab'[u].session \in {None, tab[u].session}
    BY <1>1, <2>1, Shown DEF SessionInv
  <2> QED BY <2>2, <2>3 DEF Outcome
<1> QED
  BY <1>3, <1>4

\* A tab that starts again.
LEMMA Reloads ==
    ASSUME SessionInv, NEW i \in Threads, NEW key, Reload(i)
    PROVE  Outcome(i, key)
<1> DEFINE th == [k \in Threads |-> IF Of(k) = Of(i) THEN Off ELSE thread[k]]
<1>1. Of(i) \in Tabs /\ thread' = Opened(th, Of(i), "/login") /\ tab' = [tab EXCEPT ![Of(i)] = Fresh(Of(i), "/login")]
  BY DEF Of, Threads, Reload
<1>2. Good(Off, spent.troubles)
  BY Over
<1>3. \A k \in Threads : th[k] = IF Of(k) = Of(i) THEN Off ELSE thread[k]
  OBVIOUS
<1>4. th = [k \in Threads |-> th[k]]
  OBVIOUS
<1> HIDE DEF th
<1>5. ThreadsOK(th, spent.troubles)
  BY <1>2, <1>3, <1>4 DEF SessionInv, ThreadsOK
<1>6. ThreadsOK(thread', spent.troubles)
  BY <1>1, <1>5, Opens
<1>7. TabsOK(tab') /\ \A u \in Tabs : tab'[u].session \in {None, tab[u].session}
  BY <1>1, Shown DEF SessionInv
<1> QED
  BY <1>6, <1>7 DEF Outcome

\* A tab that checks, or no longer does.
LEMMA Checked ==
    ASSUME NEW tb, TabsOK(tb), NEW t \in Tabs, NEW checking
    PROVE  /\ TabsOK([tb EXCEPT ![t].checking = checking])
           /\ \A u \in Tabs : [tb EXCEPT ![t].checking = checking][u].session = tb[u].session
BY DEF TabsOK

\* A check that ends.
LEMMA Concluding ==
    ASSUME SessionInv, NEW i \in Threads, NEW key, Concludes(i, key)
    PROVE  Outcome(i, key)
<1>1. Of(i) \in Tabs
  BY DEF Of, Threads
<1>2. CASE Shows(i, key)
  <2>1. thread' = Ended(i)
        /\ tab' = IF thread[i].job = "shell" THEN [tab EXCEPT ![Of(i)].shell = key]
                  ELSE [tab EXCEPT ![Of(i)].session = key, ![Of(i)].checking = FALSE]
    BY <1>2 DEF Shows
  <2>2. ThreadsOK(thread', spent.troubles)
    BY <2>1, Over, ThreadSet DEF Ended, SessionInv
  <2>3. TabsOK(tab)
    BY DEF SessionInv
  <2>4. CASE tab' = [tab EXCEPT ![Of(i)].shell = key]
    <3>1. TabsOK(tab') /\ \A t \in Tabs : tab'[t].session = tab[t].session
      BY <1>1, <2>3, <2>4 DEF TabsOK
    <3> QED BY <2>2, <3>1 DEF Outcome
  <2>5. CASE tab' = [tab EXCEPT ![Of(i)].session = key, ![Of(i)].checking = FALSE]
    <3> DEFINE tb == [tab EXCEPT ![Of(i)].session = key]
               tc == [tb EXCEPT ![Of(i)].checking = FALSE]
    <3>1. TabsOK(tb) /\ \A t \in Tabs : tb[t].session = tab[t].session \/ (t = Of(i) /\ tb[t].session = key)
      BY <1>1, <2>3 DEF TabsOK
    <3>2. tab' = tc
      BY <2>5
    <3> HIDE DEF tb
    <3>3. TabsOK(tc) /\ \A t \in Tabs : tc[t].session = tb[t].session
      BY <1>1, <3>1, Checked
    <3> HIDE DEF tc
    <3> QED BY <2>2, <3>1, <3>2, <3>3 DEF Outcome
  <2> QED BY <2>1, <2>4, <2>5
<1> QED
  BY <1>2, Ends DEF Concludes

\* A thread that goes on, with what it has to remember.
LEMMA GoesOn ==
    ASSUME SessionInv, NEW i \in Threads, NEW key, NEW r, Good(r, spent.troubles), thread' = [thread EXCEPT ![i] = r], UNCHANGED tab
    PROVE  Outcome(i, key)
BY ThreadSet DEF SessionInv, Outcome

\* What a thread remembers when it goes to another place.
LEMMA Moved ==
    ASSUME NEW r, NEW n, Good(r, n), NEW pc, pc \notin {"remove.key", "remove.session", "put.key", "put.session"}
    PROVE  Good([r EXCEPT !.pc = pc], n)
BY DEF Good

\* A place that asks for nothing of a thread can be gone to.
LEMMA Going ==
    ASSUME SessionInv, NEW i \in Threads, NEW key, NEW pc, Goes(i, pc),
           pc \notin {"remove.key", "remove.session", "put.key", "put.session"}
    PROVE  Outcome(i, key)
<1>1. Good(thread[i], spent.troubles)
  BY DEF SessionInv, ThreadsOK
<1>2. Good([thread[i] EXCEPT !.pc = pc], spent.troubles)
  BY <1>1, Moved
<1>3. thread' = [thread EXCEPT ![i] = [thread[i] EXCEPT !.pc = pc]] /\ UNCHANGED tab
  BY DEF Goes
<1> QED
  BY <1>2, <1>3, GoesOn

\* The session that a thread asked for.
LEMMA Getting ==
    ASSUME SessionInv, NEW i \in Threads, NEW key, Got(i, key)
    PROVE  Outcome(i, key)
<1>1. Good(thread[i], spent.troubles) /\ thread[i].get \in Reads
  BY DEF SessionInv, ThreadsOK, Good
<1>2. CASE thread[i].get = "start"
  <2>1. \/ End(i) \/ Goes(i, "status") \/ (\E route : Replace(i, route)) \/ Concludes(i, None)
        \/ thread' = [thread EXCEPT ![i].pc = "me", ![i].want = key] /\ UNCHANGED tab
    BY <1>2 DEF Got
  <2>2. CASE thread' = [thread EXCEPT ![i].pc = "me", ![i].want = key] /\ UNCHANGED tab
    <3> DEFINE r == [thread[i] EXCEPT !.pc = "me"]
               q == [r EXCEPT !.want = key]
    <3>1. Good(r, spent.troubles) /\ r.pc = "me"
      BY <1>1, Moved DEF Good
    <3>2. thread' = [thread EXCEPT ![i] = q]
      BY <2>2 DEF SessionInv, ThreadsOK
    <3> HIDE DEF r
    <3>3. Good(q, spent.troubles)
      BY <3>1 DEF Good
    <3> HIDE DEF q
    <3> QED BY <2>2, <3>2, <3>3, GoesOn
  <2>3. CASE Concludes(i, None)
    BY <2>3, Concluding DEF Outcome
  <2>4. CASE Goes(i, "status")
    BY <2>4, Going
  <2> QED BY <2>1, <2>2, <2>3, <2>4, Ends
<1>3. CASE thread[i].get \in {"ok", "lost"}
  BY <1>3, Concluding DEF Got
<1>4. CASE thread[i].get = "error"
  <2>1. Concludes(i, key) \/ Goes(i, "compare")
    BY <1>4 DEF Got
  <2>2. CASE Goes(i, "compare")
    BY <2>2, Going
  <2> QED BY <2>1, <2>2, Concluding
<1>5. CASE thread[i].get = "refused"
  BY <1>5, Reloads, Ends DEF Got
<1> QED
  BY <1>1, <1>2, <1>3, <1>4, <1>5 DEF Reads

\* A thread that has something cleared, for one of the reasons.
LEMMA Clearing ==
    ASSUME SessionInv, NEW i \in Threads, NEW why \in Reasons, NEW n \in Nat, n >= spent.troubles,
           why \in {"get", "signout"} \/ n > 0, Clears(i, why)
    PROVE  ThreadsOK(thread', n) /\ UNCHANGED tab
<1> DEFINE r == [thread[i] EXCEPT !.pc = "remove.key"]
           q == [r EXCEPT !.clear = why]
<1>1. ThreadsOK(thread, n) /\ spent.troubles \in Nat
  BY TroublesStay DEF SessionInv, SpentOK
<1>2. Good(thread[i], n)
  BY <1>1 DEF ThreadsOK
<1>3. /\ r = [job |-> r.job, pc |-> r.pc, get |-> r.get, clear |-> r.clear, session |-> r.session, want |-> r.want]
      /\ r.pc = "remove.key" /\ r.get \in Reads
  BY <1>2 DEF Good
<1>4. thread' = [thread EXCEPT ![i] = q] /\ UNCHANGED tab
  BY <1>1 DEF Clears, ThreadsOK
<1> HIDE DEF r
<1>5. Good(q, n)
  BY <1>3 DEF Good
<1> HIDE DEF q
<1> QED
  BY <1>1, <1>4, <1>5, ThreadSet

\* The store has been cleared: no session is shown.
LEMMA Clearance ==
    ASSUME SessionInv, NEW i \in Threads, Cleared(i)
    PROVE  Outcome(i, None)
<1>1. Of(i) \in Tabs /\ thread[i].clear \in Reasons
  BY DEF Of, Threads, SessionInv, ThreadsOK, Good
<1>2. CASE thread[i].clear = "get"
  BY <1>2, Getting DEF Cleared
<1>3. CASE thread[i].clear = "take"
  <2>1. Goes(i, "revoke") \/ Goes(i, "sent")
    BY <1>3 DEF Cleared
  <2> QED BY <2>1, Going
<1>4. CASE thread[i].clear = "verify"
  BY <1>4, Concluding DEF Cleared
<1>5. CASE thread[i].clear = "refused"
  BY <1>5, Reloads DEF Cleared
<1>6. CASE thread[i].clear = "failed"
  BY <1>6, Ends DEF Cleared
<1>7. CASE thread[i].clear = "signout"
  <2>1. Replace(i, "/login") \/ (thread' = Ended(i) /\ tab' = [tab EXCEPT ![Of(i)].shell = None])
    BY <1>7 DEF Cleared
  <2>2. CASE thread' = Ended(i) /\ tab' = [tab EXCEPT ![Of(i)].shell = None]
    <3>1. ThreadsOK(thread', spent.troubles)
      BY <2>2, Over, ThreadSet DEF Ended, SessionInv
    <3>2. TabsOK(tab)
      BY DEF SessionInv
    <3>3. TabsOK(tab') /\ \A t \in Tabs : tab'[t].session = tab[t].session
      BY <1>1, <2>2, <3>2 DEF TabsOK
    <3> QED BY <3>1, <3>3 DEF Outcome
  <2> QED BY <2>1, <2>2, Ends
<1> QED
  BY <1>1, <1>2, <1>3, <1>4, <1>5, <1>6, <1>7 DEF Reasons

-----------------------------------------------------------------------------
(* The steps *)

\* The server's and the user's steps show no session; what a step removes from the store, and what it shows.
ShowsNothing == \A t \in Tabs : tab'[t].session \in {None, tab[t].session}
RemovesNothing == store.session # None => store'.session # None
ShowsStored(i) ==
    \A t \in Tabs : tab'[t].session \in {None, tab[t].session, store.session} \/ (thread[i].pc = "repair" /\ t = Of(i))

\* A step of a thread that ends in one of these ways, and leaves the rest as it was.
LEMMA Kept ==
    ASSUME SessionInv, NEW i \in Threads, NEW key, Outcome(i, key), StoreOK(store'), KeysOK(keys'), UNCHANGED spent
    PROVE  SessionInv'
BY DEF SessionInv, Outcome

\* Reading the session: what is shown is what is stored.
LEMMA ReadingKeeps ==
    ASSUME SessionInv, NEW i \in Threads, ReadSession(i)
    PROVE  SessionInv' /\ RemovesNothing /\ ShowsStored(i)
<1>1. UNCHANGED <<store, keys, spent>>
  BY DEF ReadSession
<1>2. Good(thread[i], spent.troubles) /\ thread = [k \in Threads |-> thread[k]]
  BY DEF SessionInv, ThreadsOK
<1>3. \/ thread' = [thread EXCEPT ![i].pc = "repair", ![i].session = store.session] /\ UNCHANGED tab
      \/ Clears(i, "get")
      \/ Got(i, store.session)
  BY DEF ReadSession
<1>4. Outcome(i, store.session)
  <2>1. CASE thread' = [thread EXCEPT ![i].pc = "repair", ![i].session = store.session] /\ UNCHANGED tab
    <3> DEFINE r == [thread[i] EXCEPT !.pc = "repair"]
               q == [r EXCEPT !.session = store.session]
    <3>1. Good(r, spent.troubles) /\ r.pc = "repair"
      BY <1>2, Moved DEF Good
    <3>2. thread' = [thread EXCEPT ![i] = q]
      BY <1>2, <2>1
    <3> HIDE DEF r
    <3>3. Good(q, spent.troubles)
      BY <3>1 DEF Good
    <3> HIDE DEF q
    <3> QED BY <2>1, <3>2, <3>3, GoesOn
  <2>2. CASE Clears(i, "get")
    <3>1. spent.troubles \in Nat /\ "get" \in Reasons
      BY DEF SessionInv, SpentOK, Reasons
    <3>2. ThreadsOK(thread', spent.troubles) /\ UNCHANGED tab
      BY <2>2, <3>1, Clearing
    <3> QED BY <3>2 DEF Outcome, SessionInv
  <2> QED BY <1>3, <2>1, <2>2, Getting
<1>5. SessionInv'
  BY <1>1, <1>4, Kept DEF SessionInv
<1> QED
  BY <1>1, <1>4, <1>5 DEF RemovesNothing, ShowsStored, Outcome

\* Putting the key of the session back.
LEMMA RepairKeeps ==
    ASSUME SessionInv, NEW i \in Threads, Repair(i)
    PROVE  SessionInv' /\ RemovesNothing /\ ShowsStored(i)
<1>1. /\ Got(i, thread[i].session) /\ UNCHANGED <<keys, spent>> /\ thread[i].pc = "repair"
      /\ store' = [store EXCEPT !.key = thread[i].session]
  BY DEF Repair
<1>2. Outcome(i, thread[i].session)
  BY <1>1, Getting
<1>3. StoreOK(store') /\ store'.session = store.session
  BY <1>1 DEF SessionInv, StoreOK
<1>4. SessionInv'
  BY <1>1, <1>2, <1>3, Kept DEF SessionInv
<1> QED
  BY <1>1, <1>2, <1>3, <1>4 DEF RemovesNothing, ShowsStored, Outcome

\* Removing the key, and then the session.
LEMMA RemoveKeyKeeps ==
    ASSUME SessionInv, NEW i \in Threads, RemoveKey(i)
    PROVE  SessionInv' /\ RemovesNothing /\ ShowsStored(i)
<1>1. /\ Goes(i, "remove.session") /\ UNCHANGED <<keys, spent>> /\ thread[i].pc = "remove.key"
      /\ store' = [store EXCEPT !.key = None]
  BY DEF RemoveKey
<1>2. Good(thread[i], spent.troubles) /\ thread = [k \in Threads |-> thread[k]]
  BY DEF SessionInv, ThreadsOK
<1>3. Good([thread[i] EXCEPT !.pc = "remove.session"], spent.troubles)
  BY <1>1, <1>2 DEF Good
<1>4. thread' = [thread EXCEPT ![i] = [thread[i] EXCEPT !.pc = "remove.session"]] /\ UNCHANGED tab
  BY <1>1 DEF Goes
<1>5. Outcome(i, None)
  BY <1>3, <1>4, GoesOn
<1>6. StoreOK(store') /\ store'.session = store.session
  BY <1>1 DEF SessionInv, StoreOK
<1>7. SessionInv'
  BY <1>1, <1>5, <1>6, Kept DEF SessionInv
<1> QED
  BY <1>5, <1>6, <1>7 DEF RemovesNothing, ShowsStored, Outcome

\* The session goes for one of the reasons that a thread may have.
LEMMA RemoveSessionKeeps ==
    ASSUME SessionInv, NEW i \in Threads, RemoveSession(i)
    PROVE  SessionInv' /\ ShowsStored(i)
<1>1. Outcome(i, None) /\ UNCHANGED <<keys, spent>> /\ store' = [store EXCEPT !.session = None]
  BY Clearance DEF RemoveSession
<1>2. StoreOK(store')
  BY <1>1 DEF SessionInv, StoreOK
<1>3. SessionInv'
  BY <1>1, <1>2, Kept DEF SessionInv
<1> QED
  BY <1>1, <1>3 DEF ShowsStored, Outcome

\* A trouble is counted.
LEMMA TroubleCounts ==
    ASSUME SpentOK(spent), Trouble
    PROVE  SpentOK(spent') /\ spent'.troubles = spent.troubles + 1 /\ spent.troubles \in Nat
<1>1. spent' = [spent EXCEPT !.troubles = spent.troubles + 1]
  BY DEF Trouble, SessionEvent
<1>2. /\ spent = [visits |-> spent.visits, troubles |-> spent.troubles]
      /\ spent.visits \in Nat /\ spent.troubles \in Nat
  BY DEF SpentOK
<1>3. spent' = [visits |-> spent.visits, troubles |-> spent.troubles + 1]
  BY <1>1, <1>2
<1>4. spent'.visits = spent.visits /\ spent'.troubles = spent.troubles + 1
  BY <1>3
<1> QED
  BY <1>2, <1>3, <1>4 DEF SpentOK

\* A visit is counted and no trouble.
LEMMA VisitCounts ==
    ASSUME SpentOK(spent), Visit
    PROVE  SpentOK(spent') /\ spent'.troubles = spent.troubles
<1>1. spent' = [spent EXCEPT !.visits = spent.visits + 1]
  BY DEF Visit, SessionEvent
<1>2. /\ spent = [visits |-> spent.visits, troubles |-> spent.troubles]
      /\ spent.visits \in Nat /\ spent.troubles \in Nat
  BY DEF SpentOK
<1>3. spent' = [visits |-> spent.visits + 1, troubles |-> spent.troubles]
  BY <1>1, <1>2
<1>4. spent'.visits = spent.visits + 1 /\ spent'.troubles = spent.troubles
  BY <1>3
<1> QED
  BY <1>2, <1>3, <1>4 DEF SpentOK

\* A thread asks the store again.
LEMMA Asks ==
    ASSUME NEW r, NEW n, Good(r, n), NEW get \in Reads
    PROVE  Good([[r EXCEPT !.pc = "get"] EXCEPT !.get = get], n)
<1> DEFINE q == [r EXCEPT !.pc = "get"]
<1>1. Good(q, n) /\ q.pc = "get"
  BY Moved DEF Good
<1> HIDE DEF q
<1>2. Good([q EXCEPT !.get = get], n)
  BY <1>1 DEF Good
<1> QED
  BY <1>2 DEF q

\* What was lost is asked for again.
LEMMA NotClearing ==
    ASSUME SessionInv, NEW i \in Threads, NotCleared(i)
    PROVE  Outcome(i, None)
<1>1. Good(thread[i], spent.troubles) /\ thread = [k \in Threads |-> thread[k]]
  BY DEF SessionInv, ThreadsOK
<1>2. End(i) \/ (thread' = [thread EXCEPT ![i].pc = "get", ![i].get = "lost"] /\ UNCHANGED tab)
  BY DEF NotCleared
<1>3. CASE thread' = [thread EXCEPT ![i].pc = "get", ![i].get = "lost"] /\ UNCHANGED tab
  <2>1. thread' = [thread EXCEPT ![i] = [[thread[i] EXCEPT !.pc = "get"] EXCEPT !.get = "lost"]] /\ UNCHANGED tab
    BY <1>1, <1>3
  <2>2. Good([[thread[i] EXCEPT !.pc = "get"] EXCEPT !.get = "lost"], spent.troubles)
    BY <1>1, Asks DEF Reads
  <2> QED BY <2>1, <2>2, GoesOn
<1> QED
  BY <1>2, <1>3, Ends

\* Comparing before clearing: what is going to be removed is the session of the key that was refused.
LEMMA ComparingKeeps ==
    ASSUME SessionInv, NEW i \in Threads, CompareSession(i)
    PROVE  SessionInv' /\ RemovesNothing /\ ShowsStored(i)
<1>1. UNCHANGED <<store, keys, spent>>
  BY DEF CompareSession
<1>2. Good(thread[i], spent.troubles) /\ thread = [k \in Threads |-> thread[k]]
  BY DEF SessionInv, ThreadsOK
<1>3. PICK why \in {"refused", "verify"} :
         \/ /\ Current = thread[i].want
            /\ thread' = [thread EXCEPT ![i].pc = "remove.key", ![i].session = Current, ![i].clear = why] /\ UNCHANGED tab
         \/ NotCleared(i)
  BY DEF CompareSession, IsCurrent
<1>4. Outcome(i, None)
  <2>1. CASE Current = thread[i].want
             /\ thread' = [thread EXCEPT ![i].pc = "remove.key", ![i].session = Current, ![i].clear = why] /\ UNCHANGED tab
    <3> DEFINE r == [thread[i] EXCEPT !.pc = "remove.key"]
               q == [r EXCEPT !.session = Current]
               p == [q EXCEPT !.clear = why]
    <3>1. /\ r = [job |-> r.job, pc |-> r.pc, get |-> r.get, clear |-> r.clear, session |-> r.session, want |-> r.want]
          /\ r.pc = "remove.key" /\ r.get \in Reads /\ r.want = Current
      BY <1>2, <2>1 DEF Good
    <3>2. thread' = [thread EXCEPT ![i] = p]
      BY <1>2, <2>1
    <3> HIDE DEF r
    <3>3. /\ q = [job |-> q.job, pc |-> q.pc, get |-> q.get, clear |-> q.clear, session |-> q.session, want |-> q.want]
          /\ q.pc = "remove.key" /\ q.get \in Reads /\ q.want = Current /\ q.session = Current
      BY <3>1
    <3> HIDE DEF q
    <3>4. Good(p, spent.troubles)
      BY <3>3 DEF Good, Reasons
    <3> HIDE DEF p
    <3> QED BY <2>1, <3>2, <3>4, GoesOn
  <2> QED BY <1>3, <2>1, NotClearing
<1>5. SessionInv'
  BY <1>1, <1>4, Kept DEF SessionInv
<1> QED
  BY <1>1, <1>4, <1>5 DEF RemovesNothing, ShowsStored, Outcome

\* Storing the key and then the session of somebody who signs in.
LEMMA WriteKeyKeeps ==
    ASSUME SessionInv, NEW i \in Threads, WriteKey(i)
    PROVE  SessionInv' /\ RemovesNothing /\ ShowsStored(i)
<1>1. /\ Goes(i, "put.session") /\ UNCHANGED <<keys, spent>> /\ thread[i].pc = "put.key"
      /\ store' = [store EXCEPT !.key = thread[i].want]
  BY DEF WriteKey
<1>2. Good(thread[i], spent.troubles) /\ thread = [k \in Threads |-> thread[k]]
  BY DEF SessionInv, ThreadsOK
<1>3. Good([thread[i] EXCEPT !.pc = "put.session"], spent.troubles)
  BY <1>1, <1>2 DEF Good
<1>4. thread' = [thread EXCEPT ![i] = [thread[i] EXCEPT !.pc = "put.session"]] /\ UNCHANGED tab
  BY <1>1 DEF Goes
<1>5. Outcome(i, None)
  BY <1>3, <1>4, GoesOn
<1>6. StoreOK(store') /\ store'.session = store.session
  BY <1>1 DEF SessionInv, StoreOK
<1>7. SessionInv'
  BY <1>1, <1>5, <1>6, Kept DEF SessionInv
<1> QED
  BY <1>5, <1>6, <1>7 DEF RemovesNothing, ShowsStored, Outcome

\* The session that is stored is one.
LEMMA WriteSessionKeeps ==
    ASSUME SessionInv, NEW i \in Threads, WriteSession(i)
    PROVE  SessionInv' /\ RemovesNothing /\ ShowsStored(i)
<1>1. /\ Replace(i, DefaultRoute(thread[i].want)) /\ UNCHANGED <<keys, spent>> /\ thread[i].pc = "put.session"
      /\ store' = [store EXCEPT !.session = thread[i].want]
  BY DEF WriteSession
<1>2. thread[i].want # None
  BY <1>1 DEF SessionInv, ThreadsOK, Good
<1>3. Outcome(i, None)
  BY <1>1, Ends
<1>4. StoreOK(store') /\ store'.session = thread[i].want
  BY <1>1 DEF SessionInv, StoreOK
<1>5. SessionInv'
  BY <1>1, <1>3, <1>4, Kept DEF SessionInv
<1> QED
  BY <1>2, <1>3, <1>4, <1>5 DEF RemovesNothing, ShowsStored, Outcome

\* Something fails.
LEMMA FailingKeeps ==
    ASSUME SessionInv, NEW i \in Threads, ThreadFails(i)
    PROVE  SessionInv' /\ RemovesNothing /\ ShowsNothing
<1>1. Trouble /\ UNCHANGED <<store, keys>>
  BY DEF ThreadFails, ReadFails, CompareFails, WriteFails
<1>2. SpentOK(spent') /\ spent'.troubles = spent.troubles + 1 /\ spent.troubles \in Nat
  BY <1>1, TroubleCounts DEF SessionInv
<1>3. ThreadsOK(thread', spent'.troubles) /\ TabsOK(tab') /\ ShowsNothing
  <2>1. CASE \E why \in Reasons : Clears(i, why)
    <3>1. ThreadsOK(thread', spent'.troubles) /\ UNCHANGED tab
      BY <1>2, <2>1, Clearing DEF SpentOK
    <3> QED BY <3>1 DEF SessionInv, ShowsNothing
  <2>2. CASE NotCleared(i)
    <3>1. Outcome(i, None)
      BY <2>2, NotClearing
    <3>2. spent'.troubles \in Nat /\ spent'.troubles >= spent.troubles
      BY <1>2
    <3>3. ThreadsOK(thread', spent'.troubles)
      BY <1>2, <3>1, <3>2, TroublesStay DEF Outcome
    <3> QED BY <3>1, <3>3 DEF Outcome, ShowsNothing
  <2> QED BY <2>1, <2>2 DEF ThreadFails, ReadFails, CompareFails, WriteFails, Reasons
<1> QED
  BY <1>1, <1>2, <1>3 DEF SessionInv, RemovesNothing

\* Fewer keys are valid.
LEMMA KeysShrink ==
    ASSUME KeysOK(keys), UNCHANGED keys \/ \E k : keys' = [keys EXCEPT !.valid = @ \ {k}]
    PROVE  KeysOK(keys')
BY DEF KeysOK

\* The answer about a key.
LEMMA MeKeeps ==
    ASSUME SessionInv, NEW i \in Threads, Me(i)
    PROVE  SessionInv' /\ RemovesNothing /\ ShowsStored(i)
<1>1. /\ UNCHANGED <<store, keys, tab>>
      /\ UNCHANGED spent \/ Trouble
      /\ \E get \in {"ok", "error"} : thread' = [thread EXCEPT ![i].pc = "get", ![i].get = get]
  BY DEF Me
<1>2. PICK get \in {"ok", "error"} : thread' = [thread EXCEPT ![i].pc = "get", ![i].get = get]
  BY <1>1
<1>3. Good(thread[i], spent.troubles) /\ thread = [k \in Threads |-> thread[k]]
  BY DEF SessionInv, ThreadsOK
<1>4. thread' = [thread EXCEPT ![i] = [[thread[i] EXCEPT !.pc = "get"] EXCEPT !.get = get]]
  BY <1>2, <1>3
<1>5. Good([[thread[i] EXCEPT !.pc = "get"] EXCEPT !.get = get], spent.troubles)
  BY <1>3, Asks DEF Reads
<1>6. ThreadsOK(thread', spent.troubles)
  BY <1>4, <1>5, ThreadSet DEF SessionInv
<1>7. /\ SpentOK(spent') /\ spent'.troubles \in Nat /\ spent.troubles \in Nat
      /\ spent'.troubles >= spent.troubles
  <2>1. SpentOK(spent)
    BY DEF SessionInv
  <2>2. CASE UNCHANGED spent
    BY <2>1, <2>2 DEF SpentOK
  <2>3. CASE Trouble
    BY <2>1, <2>3, TroubleCounts
  <2> QED BY <1>1, <2>2, <2>3
<1>8. ThreadsOK(thread', spent'.troubles)
  BY <1>6, <1>7, TroublesStay
<1> QED
  BY <1>1, <1>7, <1>8 DEF SessionInv, RemovesNothing, ShowsStored

\* The other requests, and their answers.
LEMMA RequestsKeep ==
    ASSUME SessionInv, NEW i \in Threads, Status(i) \/ TakeKey(i) \/ Sent(i)
    PROVE  SessionInv' /\ RemovesNothing /\ ShowsStored(i)
<1>1. UNCHANGED <<store, keys, spent>>
  BY DEF Status, TakeKey, Sent
<1>2. Good(thread[i], spent.troubles) /\ thread = [k \in Threads |-> thread[k]]
  BY DEF SessionInv, ThreadsOK
<1>3. Outcome(i, None)
  <2>1. CASE Status(i)
    BY <2>1, Ends DEF Status
  <2>2. CASE TakeKey(i)
    <3>1. PICK pc \in {"revoke", "sent"} : thread' = [thread EXCEPT ![i].pc = pc, ![i].want = store.key] /\ UNCHANGED tab
      BY <2>2 DEF TakeKey
    <3> DEFINE r == [thread[i] EXCEPT !.pc = pc]
               q == [r EXCEPT !.want = store.key]
    <3>2. Good(r, spent.troubles) /\ r.pc = pc
      BY <1>2, Moved DEF Good
    <3>3. thread' = [thread EXCEPT ![i] = q]
      BY <1>2, <3>1
    <3> HIDE DEF r
    <3>4. Good(q, spent.troubles)
      BY <3>2 DEF Good
    <3> HIDE DEF q
    <3> QED BY <3>1, <3>3, <3>4, GoesOn
  <2>3. CASE Sent(i)
    <3>1. End(i) \/ Goes(i, "compare") \/ (thread' = [thread EXCEPT ![i].pc = "get", ![i].get = "refused"] /\ UNCHANGED tab)
      BY <2>3 DEF Sent
    <3>2. CASE thread' = [thread EXCEPT ![i].pc = "get", ![i].get = "refused"] /\ UNCHANGED tab
      <4>1. thread' = [thread EXCEPT ![i] = [[thread[i] EXCEPT !.pc = "get"] EXCEPT !.get = "refused"]] /\ UNCHANGED tab
        BY <1>2, <3>2
      <4>2. Good([[thread[i] EXCEPT !.pc = "get"] EXCEPT !.get = "refused"], spent.troubles)
        BY <1>2, Asks DEF Reads
      <4> QED BY <4>1, <4>2, GoesOn
    <3>3. CASE Goes(i, "compare")
      BY <3>3, Going
    <3> QED BY <3>1, <3>2, <3>3, Ends
  <2> QED BY <2>1, <2>2, <2>3
<1>4. SessionInv'
  BY <1>1, <1>3, Kept DEF SessionInv
<1> QED
  BY <1>1, <1>3, <1>4 DEF RemovesNothing, ShowsStored, Outcome

\* Signing out on the server.
LEMMA RevokedKeeps ==
    ASSUME SessionInv, NEW i \in Threads, Revoked(i)
    PROVE  SessionInv' /\ RemovesNothing /\ ShowsStored(i)
<1>1. /\ Clears(i, "signout") /\ UNCHANGED store
      /\ \/ keys' = [keys EXCEPT !.valid = @ \ {thread[i].want}] /\ UNCHANGED spent
         \/ Trouble /\ UNCHANGED keys
  BY DEF Revoked
<1>2. KeysOK(keys')
  BY <1>1, KeysShrink DEF SessionInv
<1>3. /\ SpentOK(spent') /\ spent'.troubles \in Nat /\ spent.troubles \in Nat
      /\ spent'.troubles >= spent.troubles
  <2>1. SpentOK(spent)
    BY DEF SessionInv
  <2>2. CASE UNCHANGED spent
    BY <2>1, <2>2 DEF SpentOK
  <2>3. CASE Trouble
    BY <2>1, <2>3, TroubleCounts
  <2> QED BY <1>1, <2>2, <2>3
<1>4. ThreadsOK(thread', spent'.troubles) /\ UNCHANGED tab
  <2>1. "signout" \in Reasons
    BY DEF Reasons
  <2> QED BY <1>1, <1>3, <2>1, Clearing
<1> QED
  BY <1>1, <1>2, <1>3, <1>4 DEF SessionInv, RemovesNothing, ShowsStored

\* A user opens a page, signs in or out, or has a page make a request.
LEMMA UsersKeep ==
    ASSUME SessionInv, NEW t \in Tabs, SignIn(t) \/ SignOut(t) \/ Call(t) \/ \E route \in Routes : Go(t, route)
    PROVE  SessionInv' /\ RemovesNothing /\ ShowsNothing
<1>1. SpentOK(spent) /\ KeysOK(keys) /\ ThreadsOK(thread, spent.troubles) /\ <<t, "user">> \in Threads
  BY DEF SessionInv, Threads
<1>2. CASE SignIn(t)
  <2>1. UNCHANGED <<store, tab, spent>> /\ thread' = [thread EXCEPT ![<<t, "user">>] = Begun("signin", "put.key", keys.made + 1)]
    BY <1>2 DEF SignIn
  <2>2. keys.made \in Nat
    BY <1>1 DEF KeysOK
  <2>3. keys.made + 1 # None
    BY <2>2, SessionAssumption
  <2>4. KeysOK(keys')
    BY <1>2, <2>2 DEF SignIn, KeysOK
  <2>5. Good(Begun("signin", "put.key", keys.made + 1), spent.troubles)
    BY <2>3, Begins
  <2>6. ThreadsOK(thread', spent.troubles)
    BY <1>1, <2>1, <2>5, ThreadSet
  <2> QED BY <2>1, <2>4, <2>6 DEF SessionInv, RemovesNothing, ShowsNothing
<1>3. CASE SignOut(t) \/ Call(t)
  <2>1. /\ UNCHANGED <<store, keys, tab>> /\ Visit
        /\ \E job \in {"signout", "call"} : thread' = [thread EXCEPT ![<<t, "user">>] = Begun(job, "take", None)]
    BY <1>3 DEF SignOut, Call
  <2>2. PICK job \in {"signout", "call"} : thread' = [thread EXCEPT ![<<t, "user">>] = Begun(job, "take", None)]
    BY <2>1
  <2>3. Good(Begun(job, "take", None), spent.troubles)
    BY Begins
  <2>4. ThreadsOK(thread', spent.troubles)
    BY <1>1, <2>2, <2>3, ThreadSet
  <2>5. SpentOK(spent') /\ spent'.troubles = spent.troubles
    BY <1>1, <2>1, VisitCounts
  <2> QED BY <2>1, <2>4, <2>5 DEF SessionInv, RemovesNothing, ShowsNothing
<1>4. ASSUME NEW route \in Routes, Go(t, route) PROVE SessionInv' /\ RemovesNothing /\ ShowsNothing
  <2>1. /\ UNCHANGED <<store, keys>> /\ Visit
        /\ thread' = Opened(thread, t, route) /\ tab' = [tab EXCEPT ![t] = Fresh(t, route)]
    BY <1>4 DEF Go
  <2>2. SpentOK(spent') /\ spent'.troubles = spent.troubles
    BY <1>1, <2>1, VisitCounts
  <2>3. ThreadsOK(thread', spent.troubles)
    BY <1>1, <2>1, Opens
  <2>4. TabsOK(tab') /\ \A u \in Tabs : tab'[u].session \in {None, tab[u].session}
    BY <2>1, Shown DEF SessionInv
  <2> QED BY <2>1, <2>2, <2>3, <2>4 DEF SessionInv, RemovesNothing, ShowsNothing
<1> QED
  BY <1>2, <1>3, <1>4

\* A key expires.
LEMMA ExpireKeeps ==
    ASSUME SessionInv, NEW k \in Keys, Expire(k)
    PROVE  SessionInv' /\ RemovesNothing /\ ShowsNothing
<1>1. /\ UNCHANGED <<store, tab, thread>> /\ Visit
      /\ keys' = [keys EXCEPT !.valid = @ \ {k}]
  BY DEF Expire
<1>2. SpentOK(spent') /\ spent'.troubles = spent.troubles
  BY <1>1, VisitCounts DEF SessionInv
<1>3. KeysOK(keys')
  BY <1>1, KeysShrink DEF SessionInv
<1> QED
  BY <1>1, <1>2, <1>3 DEF SessionInv, RemovesNothing, ShowsNothing

-----------------------------------------------------------------------------
(* The theorems *)

\* The invariant holds at the start.
LEMMA BeginsWell == SessionInit => SessionInv
<1> SUFFICES ASSUME SessionInit PROVE SessionInv
  OBVIOUS
<1>1. spent = [visits |-> 0, troubles |-> 0] /\ thread = [i \in Threads |-> Off]
  BY DEF SessionInit
<1>2. SpentOK(spent)
  BY <1>1 DEF SpentOK
<1>3. ThreadsOK(thread, spent.troubles)
  BY <1>1, Over DEF ThreadsOK
<1>4. \A route, key : Resting(route, key) = [route |-> Resting(route, key).route, checking |-> Resting(route, key).checking,
                                            session |-> Resting(route, key).session, shell |-> Resting(route, key).shell]
  BY DEF Resting
<1>5. TabsOK(tab)
  <2>1. \A route, key : \A tb : tb = [t \in Tabs |-> Resting(route, key)] => TabsOK(tb)
    BY <1>4 DEF TabsOK
  <2>2. \A route, first : \A tb : tb = [t \in Tabs |-> IF t = first THEN Resting(route, 1) ELSE Resting("closed", None)] => TabsOK(tb)
    BY <1>4 DEF TabsOK
  <2>3. CASE tab = [t \in Tabs |-> Resting("closed", None)]
    BY <2>1, <2>3
  <2>4. ASSUME NEW role \in AuthRole, NEW first \in Framed,
               tab = [t \in Tabs |-> IF t = first THEN Resting(IF role = "admin" THEN "/admin" ELSE "/image", 1)
                                    ELSE Resting("closed", None)]
        PROVE  TabsOK(tab)
    BY <2>2, <2>4
  <2> QED BY <2>3, <2>4 DEF SessionInit
<1>6. StoreOK(store)
  BY DEF SessionInit, StoreOK
<1>7. KeysOK(keys)
  BY DEF SessionInit, KeysOK
<1> QED
  BY <1>2, <1>3, <1>5, <1>6, <1>7 DEF SessionInv

\* What a thread's step keeps, and what it may remove and show.
LEMMA ThreadStepKeeps ==
    ASSUME SessionInv, NEW i \in Threads, ThreadStep(i)
    PROVE  SessionInv' /\ (RemovesNothing \/ RemoveSession(i)) /\ ShowsStored(i)
<1>1. CASE ReadSession(i) \/ Repair(i) \/ RemoveKey(i)
  BY <1>1, ReadingKeeps, RepairKeeps, RemoveKeyKeeps
<1>2. CASE RemoveSession(i)
  BY <1>2, RemoveSessionKeeps
<1>3. CASE CompareSession(i) \/ WriteKey(i) \/ WriteSession(i)
  BY <1>3, ComparingKeeps, WriteKeyKeeps, WriteSessionKeeps
<1>4. CASE Me(i) \/ Status(i) \/ TakeKey(i) \/ Sent(i) \/ Revoked(i)
  BY <1>4, MeKeeps, RequestsKeep, RevokedKeeps
<1> QED
  BY <1>1, <1>2, <1>3, <1>4 DEF ThreadStep

\* What every step keeps.
LEMMA NextKeeps ==
    ASSUME SessionInv, SessionNext
    PROVE  /\ SessionInv'
           /\ RemovesNothing \/ \E i \in Threads : RemoveSession(i)
           /\ ShowsNothing \/ \E i \in Threads : ShowsStored(i)
<1>1. CASE \E i \in Threads : ThreadStep(i)
  BY <1>1, ThreadStepKeeps
<1>2. CASE \E i \in Threads : ThreadFails(i)
  BY <1>2, FailingKeeps
<1>3. CASE \E t \in Tabs : SignIn(t) \/ SignOut(t) \/ Call(t) \/ \E route \in Routes : Go(t, route)
  BY <1>3, UsersKeep
<1>4. CASE \E k \in Keys : Expire(k)
  BY <1>4, ExpireKeeps
<1> QED
  BY <1>1, <1>2, <1>3, <1>4 DEF SessionNext, SessionStep

\* Nothing happens.
LEMMA StutterKeeps ==
    ASSUME SessionInv, UNCHANGED sessionVars
    PROVE  SessionInv'
BY DEF SessionInv, sessionVars

\* Every thread that is about to remove a session, other than by signing out or by reading a key with
\* no session, found the session of its own key stored, or something has failed.
THEOREM SessionAlways == Spec => []SessionInv
<1>1. SessionInv /\ [SessionNext]_sessionVars => SessionInv'
  BY NextKeeps, StutterKeeps
<1> QED
  BY <1>1, BeginsWell, PTL DEF Spec

\* The answer to a key that is refused clears nobody else's session, whatever other tabs do meanwhile.
THEOREM CleanupAlwaysSparesOthers == Spec => CleanupSparesOthers
<1> DEFINE A == store.session # None /\ store'.session = None /\ spent.troubles = 0 =>
                  \E i \in Threads : /\ thread[i].pc = "remove.session"
                                     /\ thread[i].clear \notin {"signout", "get"} => thread[i].session = thread[i].want
<1>1. SessionInv /\ [SessionNext]_sessionVars => [A]_sessionVars
  <2> SUFFICES ASSUME SessionInv, SessionNext, store.session # None, store'.session = None, spent.troubles = 0
               PROVE  \E i \in Threads : /\ thread[i].pc = "remove.session"
                                         /\ thread[i].clear \notin {"signout", "get"} => thread[i].session = thread[i].want
    OBVIOUS
  <2>1. PICK i \in Threads : RemoveSession(i)
    BY NextKeeps DEF RemovesNothing
  <2>2. thread[i].pc = "remove.session" /\ Good(thread[i], spent.troubles)
    BY <2>1 DEF RemoveSession, SessionInv, ThreadsOK
  <2> QED BY <2>2 DEF Good
<1> QED
  BY <1>1, SessionAlways, PTL DEF Spec, CleanupSparesOthers

\* A check that ends shows the session that is stored then, not the one it began with.
THEOREM AlwaysShowsWhatIsStored == Spec => ShowsWhatIsStored
<1> DEFINE A == \A t \in Tabs : tab'[t].session \notin {None, tab[t].session} =>
                  tab'[t].session = store.session \/ \E i \in Threads : thread[i].pc = "repair" /\ Of(i) = t
<1>1. SessionInv /\ [SessionNext]_sessionVars => [A]_sessionVars
  <2> SUFFICES ASSUME SessionInv, SessionNext PROVE A
    OBVIOUS
  <2> QED BY NextKeeps DEF ShowsNothing, ShowsStored
<1> QED
  BY <1>1, SessionAlways, PTL DEF Spec, ShowsWhatIsStored
=============================================================================
