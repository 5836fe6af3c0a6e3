----------------------------- MODULE WebSession -----------------------------
(***************************************************************************)
(* The session of the web application: the key and the session that all    *)
(* tabs of a browser share in its store (store/auth.ts), their check       *)
(* against the server (lib/auth-session.ts), the guards of the pages       *)
(* (lib/use-auth-guard.ts), the interceptors of the requests               *)
(* (lib/request.ts), the shell around the pages (app-shell.tsx), and       *)
(* signing in and out.                                                     *)
(*                                                                         *)
(* A thread is one asynchronous function of one tab; a step is one         *)
(* operation of the store, or one request, with what runs up to the next.  *)
(* The two items are written and removed one after the other, so that the  *)
(* threads of another tab may come between them; a thread that asks for    *)
(* both reads them at once.                                                *)
(***************************************************************************)
EXTENDS Integers, FiniteSets

CONSTANTS
    Tabs,
    Framed,      \* the tabs whose shell is modelled: it makes the same check as the page
    MaxKeys,     \* bound of the sign-ins
    MaxTroubles, \* bound of the operations of the store and checks that fail
    MaxEvents,   \* bound of those and of what the user and the administrator do besides signing in
    None

ASSUME SessionAssumption ==
    /\ Framed \subseteq Tabs /\ MaxKeys \in Nat /\ MaxEvents \in Nat /\ MaxTroubles \in Nat
    /\ None \notin Nat /\ None \notin Tabs

Keys == 1 .. MaxKeys
AuthRole == {"admin", "user"}

VARIABLES
    store,   \* the stored key, and the stored session, which is named by its key
    keys,    \* what the server has issued: how many, the role of each, which are valid
    tab,     \* the route of a tab, whether its page is checking, the session of the page and of the shell
    thread,
    spent    \* visits and troubles so far

sessionVars == <<store, keys, tab, thread, spent>>

Public == {"/", "/login"}
Routes == Public \cup {"/image", "/admin"}
Allowed(route, key) == route # "/admin" \/ keys.role[key] = "admin"
DefaultRoute(key) == IF keys.role[key] = "admin" THEN "/admin" ELSE "/image"

\* The functions of a tab: of the page on screen and of the shell, of a page that was left, of the user.
Threads == Tabs \X {"page", "shell", "left", "user"}
JobOf(route) == IF route = "/" THEN "home" ELSE IF route = "/login" THEN "redirect" ELSE "guard"
Off == [job |-> "none", pc |-> "off", get |-> "start", clear |-> "get", session |-> None, want |-> None]
Begun(job, pc, want) == [Off EXCEPT !.job = job, !.pc = pc, !.want = want]

\* A page that closes is no longer active, but its check runs on, to no effect except on the store.
\* The new page checks the session, and so does the shell, unless the page is public.
MayOpen(th, t) == th[<<t, "left">>].pc = "off" /\ th[<<t, "shell">>].pc = "off"
Opened(th, t, route) ==
    [th EXCEPT ![<<t, "left">>] = th[<<t, "page">>],
               ![<<t, "page">>] = Begun(JobOf(route), "get", None),
               ![<<t, "shell">>] = IF route \in Public \/ t \notin Framed THEN Off ELSE Begun("shell", "get", None)]

Fresh(t, route) ==
    [route |-> route, checking |-> TRUE, session |-> None, shell |-> IF route \in Public THEN None ELSE tab[t].shell]

\* Nobody is signed in; or a tab shows the page of a session, whose key may have expired since.
Resting(route, key) == [route |-> route, checking |-> FALSE, session |-> key, shell |-> key]
SessionInit ==
    /\ thread = [i \in Threads |-> Off] /\ spent = [visits |-> 0, troubles |-> 0]
    /\ \/ /\ store = [key |-> None, session |-> None]
          /\ keys = [made |-> 0, role |-> [k \in Keys |-> "user"], valid |-> {}]
          /\ tab = [t \in Tabs |-> Resting("closed", None)]
       \/ \E role \in AuthRole, valid \in SUBSET {1}, first \in Framed :
            /\ store = [key |-> 1, session |-> 1]
            /\ keys = [made |-> 1, role |-> [k \in Keys |-> role], valid |-> valid]
            /\ tab = [t \in Tabs |-> IF t = first THEN Resting(IF role = "admin" THEN "/admin" ELSE "/image", 1)
                                     ELSE Resting("closed", None)]

SessionEvent(kind) == spent.visits + spent.troubles < MaxEvents /\ spent' = [spent EXCEPT ![kind] = @ + 1]
Trouble == spent.troubles < MaxTroubles /\ SessionEvent("troubles")
Visit == SessionEvent("visits")

-----------------------------------------------------------------------------
(* What a thread does next: its own state, and what its tab shows. *)

Of(i) == i[1]
Live(i) == i[2] # "left"
Ended(i) == [thread EXCEPT ![i] = Off]
End(i) == thread' = Ended(i) /\ UNCHANGED tab
Goes(i, pc) == thread' = [thread EXCEPT ![i].pc = pc] /\ UNCHANGED tab

\* router.replace, which does nothing when the tab is there already.
Replace(i, route) ==
    IF tab[Of(i)].route = route THEN End(i)
    ELSE /\ MayOpen(Ended(i), Of(i))
         /\ thread' = Opened(Ended(i), Of(i), route)
         /\ tab' = [tab EXCEPT ![Of(i)] = Fresh(Of(i), route)]

\* window.location.replace: the tab starts again, and what it was doing is gone.
Reload(i) ==
    /\ thread' = Opened([k \in Threads |-> IF Of(k) = Of(i) THEN Off ELSE thread[k]], Of(i), "/login")
    /\ tab' = [tab EXCEPT ![Of(i)] = Fresh(Of(i), "/login")]

ShowsWithoutFinally(i, key) ==
    /\ thread' = Ended(i)
    /\ tab' = IF thread[i].job = "shell" THEN [tab EXCEPT ![Of(i)].shell = key]
              ELSE [tab EXCEPT ![Of(i)].session = key, ![Of(i)].checking = (key = None)]
Shows(i, key) ==
    /\ thread' = Ended(i)
    /\ tab' = IF thread[i].job = "shell" THEN [tab EXCEPT ![Of(i)].shell = key]
              ELSE [tab EXCEPT ![Of(i)].session = key, ![Of(i)].checking = FALSE]

\* A session that has been verified, or that has taken the place of the one that was checked.
Concludes(i, key) ==
    LET job == thread[i].job IN
    IF ~Live(i) THEN End(i)
    ELSE IF job = "guard" /\ key = None THEN Replace(i, "/login")
    ELSE IF (job = "redirect" /\ key # None) \/ (job = "guard" /\ ~Allowed(tab[Of(i)].route, key))
         THEN Replace(i, DefaultRoute(key))
    ELSE Shows(i, key)

\* The session that the thread asked the store for.
GotWithoutComparing(i, key) ==
    IF thread[i].get = "ok" THEN Concludes(i, thread[i].want)
    ELSE IF thread[i].get = "start" /\ key # None
         THEN thread' = [thread EXCEPT ![i].pc = "me", ![i].want = key] /\ UNCHANGED tab
    ELSE Concludes(i, key)
Got(i, key) ==
    CASE thread[i].get = "start" ->
           IF ~Live(i) THEN End(i)
           ELSE IF thread[i].job = "home"
                THEN IF key = None THEN Goes(i, "status") ELSE Replace(i, DefaultRoute(key))
           ELSE IF key = None THEN Concludes(i, None)
           ELSE thread' = [thread EXCEPT ![i].pc = "me", ![i].want = key] /\ UNCHANGED tab
      [] thread[i].get \in {"ok", "lost"} -> Concludes(i, key)
      [] thread[i].get = "error" ->
           IF key \notin {None, thread[i].want} THEN Concludes(i, key) ELSE Goes(i, "compare")
      [] thread[i].get = "refused" -> IF key = None THEN Reload(i) ELSE End(i)

\* The store has been cleared for the thread.
Cleared(i) ==
    CASE thread[i].clear = "get" -> Got(i, None)
      [] thread[i].clear = "take" -> Goes(i, IF thread[i].job = "signout" THEN "revoke" ELSE "sent")
      [] thread[i].clear = "verify" -> Concludes(i, None)
      [] thread[i].clear = "refused" -> Reload(i)
      [] thread[i].clear = "failed" -> End(i)
      [] thread[i].clear = "signout" ->
           IF tab[Of(i)].route = "/login" THEN thread' = Ended(i) /\ tab' = [tab EXCEPT ![Of(i)].shell = None]
           ELSE Replace(i, "/login")

Clears(i, why) == thread' = [thread EXCEPT ![i].pc = "remove.key", ![i].clear = why] /\ UNCHANGED tab

-----------------------------------------------------------------------------
(* store/auth.ts: an operation that fails, or takes longer than three      *)
(* seconds, clears the store.                                              *)

\* A session whose key is not the stored one puts its key back; a key without a session is removed.
ReadSession(i) ==
    LET k == store.key
        s == store.session IN
    /\ thread[i].pc = "get"
    /\ IF s # None /\ s # k
       THEN thread' = [thread EXCEPT ![i].pc = "repair", ![i].session = s] /\ UNCHANGED tab
       ELSE IF s = None /\ k # None THEN Clears(i, "get") ELSE Got(i, s)
    /\ UNCHANGED <<store, keys, spent>>

Repair(i) ==
    /\ thread[i].pc = "repair"
    /\ store' = [store EXCEPT !.key = thread[i].session]
    /\ Got(i, thread[i].session)
    /\ UNCHANGED <<keys, spent>>

ReadFails(i) ==
    /\ thread[i].pc \in {"get", "repair", "take"} /\ Trouble
    /\ Clears(i, IF thread[i].pc = "take" THEN "take" ELSE "get")
    /\ UNCHANGED <<store, keys>>

RemoveKey(i) ==
    /\ thread[i].pc = "remove.key"
    /\ store' = [store EXCEPT !.key = None]
    /\ Goes(i, "remove.session") /\ UNCHANGED <<keys, spent>>

RemoveSession(i) ==
    /\ thread[i].pc = "remove.session"
    /\ store' = [store EXCEPT !.session = None]
    /\ Cleared(i) /\ UNCHANGED <<keys, spent>>

\* clearStoredAuthSessionIfCurrent: only the session that was refused is cleared.
Current == IF store.session # None THEN store.session ELSE store.key
IsCurrentAlways(i) == TRUE
IsCurrent(i) == Current = thread[i].want
NotCleared(i) ==
    IF thread[i].job = "call" THEN End(i)
    ELSE thread' = [thread EXCEPT ![i].pc = "get", ![i].get = "lost"] /\ UNCHANGED tab

CompareSession(i) ==
    /\ thread[i].pc = "compare"
    /\ IF IsCurrent(i)
       THEN /\ thread' = [thread EXCEPT ![i].pc = "remove.key", ![i].session = Current,
                                        ![i].clear = IF thread[i].job = "call" THEN "refused" ELSE "verify"]
            /\ UNCHANGED tab
       ELSE NotCleared(i)
    /\ UNCHANGED <<store, keys, spent>>

CompareFails(i) ==
    /\ thread[i].pc = "compare" /\ Trouble
    /\ NotCleared(i) /\ UNCHANGED <<store, keys>>

WriteKey(i) ==
    /\ thread[i].pc = "put.key"
    /\ store' = [store EXCEPT !.key = thread[i].want]
    /\ Goes(i, "put.session") /\ UNCHANGED <<keys, spent>>

WriteSession(i) ==
    /\ thread[i].pc = "put.session"
    /\ store' = [store EXCEPT !.session = thread[i].want]
    /\ Replace(i, DefaultRoute(thread[i].want)) /\ UNCHANGED <<keys, spent>>

WriteFails(i) ==
    /\ thread[i].pc \in {"put.key", "put.session"} /\ Trouble
    /\ Clears(i, "failed") /\ UNCHANGED <<store, keys>>

-----------------------------------------------------------------------------
(* Requests. *)

\* verifyAuthSessionWithDeps: the server accepts the key or not, or does not answer within the
\* three seconds; the store is asked again in either case.
Me(i) ==
    /\ thread[i].pc = "me"
    /\ \/ /\ thread' = [thread EXCEPT ![i].pc = "get",
                                      ![i].get = IF thread[i].want \in keys.valid THEN "ok" ELSE "error"]
          /\ UNCHANGED spent
       \/ /\ Trouble /\ thread' = [thread EXCEPT ![i].pc = "get", ![i].get = "error"]
    /\ UNCHANGED <<store, keys, tab>>

\* The entry page asks whether there is an administrator yet; the answer finds no guard.
Status(i) ==
    /\ thread[i].pc = "status"
    /\ Replace(i, "/login") /\ UNCHANGED <<store, keys, spent>>

\* Any other request takes the stored key.
TakeKey(i) ==
    /\ thread[i].pc = "take"
    /\ thread' = [thread EXCEPT ![i].pc = IF thread[i].job = "signout" THEN "revoke" ELSE "sent", ![i].want = store.key]
    /\ UNCHANGED <<store, keys, tab, spent>>

\* A request that is refused clears its own key, or, sent without one, looks whether there is a session.
Sent(i) ==
    LET refused == thread[i].want \notin keys.valid /\ tab[Of(i)].route \notin Public IN
    /\ thread[i].pc = "sent"
    /\ IF ~refused THEN End(i)
       ELSE IF thread[i].want # None THEN Goes(i, "compare")
       ELSE thread' = [thread EXCEPT ![i].pc = "get", ![i].get = "refused"] /\ UNCHANGED tab
    /\ UNCHANGED <<store, keys, spent>>

\* handleLogout: the server revokes the key, if it can be reached; the store is cleared in any case.
Revoked(i) ==
    /\ thread[i].pc = "revoke"
    /\ \/ keys' = [keys EXCEPT !.valid = @ \ {thread[i].want}] /\ UNCHANGED spent
       \/ Trouble /\ UNCHANGED keys
    /\ Clears(i, "signout") /\ UNCHANGED store

-----------------------------------------------------------------------------
(* The user, and the administrator. *)

\* A tab opens, or goes to another page.
Go(t, route) ==
    /\ tab[t].route # route /\ MayOpen(thread, t) /\ Visit
    /\ thread' = Opened(thread, t, route)
    /\ tab' = [tab EXCEPT ![t] = Fresh(t, route)]
    /\ UNCHANGED <<store, keys>>

Free(t) == thread[<<t, "user">>].pc = "off"

\* handleLogin, and the same of the set-up and the registration page: a new key of either role.
SignIn(t) ==
    /\ tab[t].route = "/login" /\ ~tab[t].checking /\ Free(t) /\ keys.made < MaxKeys
    /\ \E role \in AuthRole :
         keys' = [made |-> keys.made + 1, role |-> [keys.role EXCEPT ![keys.made + 1] = role],
                  valid |-> keys.valid \cup {keys.made + 1}]
    /\ thread' = [thread EXCEPT ![<<t, "user">>] = Begun("signin", "put.key", keys.made + 1)]
    /\ UNCHANGED <<store, tab, spent>>

SignOut(t) ==
    /\ tab[t].route \notin Public \cup {"closed"} /\ tab[t].shell # None /\ Free(t) /\ Visit
    /\ thread' = [thread EXCEPT ![<<t, "user">>] = Begun("signout", "take", None)]
    /\ UNCHANGED <<store, keys, tab>>

\* A page that is shown makes a request.
Call(t) ==
    /\ tab[t].session # None /\ Free(t) /\ Visit
    /\ thread' = [thread EXCEPT ![<<t, "user">>] = Begun("call", "take", None)]
    /\ UNCHANGED <<store, keys, tab>>

\* The account changes or the key expires.
Expire(k) ==
    /\ k \in keys.valid /\ Visit
    /\ keys' = [keys EXCEPT !.valid = @ \ {k}]
    /\ UNCHANGED <<store, tab, thread>>

ThreadStep(i) ==
    \/ ReadSession(i) \/ Repair(i) \/ RemoveKey(i) \/ RemoveSession(i)
    \/ CompareSession(i) \/ WriteKey(i) \/ WriteSession(i)
    \/ Me(i) \/ Status(i) \/ TakeKey(i) \/ Sent(i) \/ Revoked(i)
ThreadFails(i) == ReadFails(i) \/ CompareFails(i) \/ WriteFails(i)
SessionStep == \E i \in Threads : ThreadStep(i)

SessionNext ==
    \/ SessionStep
    \/ \E i \in Threads : ThreadFails(i)
    \/ \E t \in Tabs : SignIn(t) \/ SignOut(t) \/ Call(t) \/ \E route \in Routes : Go(t, route)
    \/ \E k \in Keys : Expire(k)

Spec == SessionInit /\ [][SessionNext]_sessionVars /\ WF_sessionVars(SessionStep)

-----------------------------------------------------------------------------
\* The answer to a key that is refused clears nobody else's session: a stored session disappears
\* only when somebody signs out, when the store or the check fails, by a thread that found the
\* session of its own key stored when it compared them, or that read a key with no session.
CleanupSparesOthers ==
    [][store.session # None /\ store'.session = None /\ spent.troubles = 0 =>
         \E i \in Threads : /\ thread[i].pc = "remove.session"
                            /\ thread[i].clear \notin {"signout", "get"} => thread[i].session = thread[i].want]_sessionVars

\* A check that ends shows the session that is stored then, not the one it began with.
ShowsWhatIsStored ==
    [][\A t \in Tabs : tab'[t].session \notin {None, tab[t].session} =>
         tab'[t].session = store.session \/ \E i \in Threads : thread[i].pc = "repair" /\ Of(i) = t]_sessionVars

\* No page checks for ever and no two pages send the user to each other: every tab comes to rest,
\* on the form that signs in or on a page with a session that may see it.
AtRest(t) ==
    /\ \A i \in Threads : Of(i) = t => thread[i].pc = "off"
    /\ tab[t].route = "closed" \/ ~tab[t].checking
    /\ tab[t].route \in {"/image", "/admin"} => tab[t].session # None /\ Allowed(tab[t].route, tab[t].session)
TabsComeToRest == \A t \in Tabs : []<>AtRest(t)
=============================================================================
