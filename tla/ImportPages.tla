----------------------------- MODULE ImportPages -----------------------------
(***************************************************************************)
(* Connections to other account stores and imports from them: CPA pools    *)
(* (web/src/app/settings/store.ts and its cards and dialogs) and Sub2API   *)
(* servers (sub2api-connections.tsx), and what the site does for both      *)
(* (services/cpa_service.py, sub2api_service.py).  The two are the same    *)
(* but for what is marked.  A secret, and the accounts of a connection,    *)
(* are named after the connection that they belong to.  A job is pending   *)
(* or running, both "unfinished" here, or it is not, however it ended.     *)
(***************************************************************************)
EXTENDS WebPage

NewConnection == 0 \* the connection that a dialog adds
MaxPolls == 1      \* polls under way at a time
Kinds == {"cpa", "sub2api"}

NoBrowser == [open |-> FALSE, of |-> Nothing, files |-> Nothing, chosen |-> Nothing]
ClosedForm == [open |-> FALSE, of |-> NewConnection, secret |-> Nothing]

EmptyImports(kind) ==
    [at |-> "imports", kind |-> kind, mounted |-> TRUE, list |-> <<>>, loading |-> TRUE, timers |-> {}, ref |-> Nothing,
     form |-> ClosedForm, saving |-> FALSE, deleting |-> Nothing, browsing |-> Nothing, browser |-> NoBrowser,
     starting |-> FALSE]

RunnerOf(p, names, n) == [to |-> p, names |-> names, n |-> n, stage |-> "begins", read |-> Nothing]
ListCall(op, by) == [op |-> op, arg |-> Nothing, by |-> by, got |-> Nothing]

\* When the page is opened, an import from one of two connections is under way.
ImportInit ==
    \E kind \in Kinds :
        /\ page = EmptyImports(kind)
        /\ site = [pools |-> [p \in 1 .. 2 |-> [secret |-> p, job |-> IF p = 1 THEN "unfinished" ELSE "finished"]],
                   runners |-> {RunnerOf(1, 1, 0)}, abandoned |-> {}, next |-> 3]
        /\ clicks = 0 /\ calls = {ListCall("connections", 0)}

Importing == At("imports")
Connections == [p \in DOMAIN site.pools |-> site.pools[p].job]
Known(p) == p \in DOMAIN site.pools

-----------------------------------------------------------------------------
(* The page. *)

\* A list that changes runs the effect that polls: the interval in the ref is cleared, and another
\* one is set when a job in the list is not finished.
ShowsUnfinished(list) == \E p \in DOMAIN list : list[p] = "unfinished"
PollingTwice(from, list) ==
    LET new == IF from.mounted /\ ShowsUnfinished(list) THEN 1 + Cardinality(from.timers) ELSE Nothing IN
    [from EXCEPT !.list = list, !.ref = new, !.timers = @ \cup ({new} \ {Nothing})]
Polling(from, list) ==
    LET others == from.timers \ {from.ref}
        new == IF from.mounted /\ ShowsUnfinished(list) THEN 1 + Cardinality(others) ELSE Nothing
    IN [from EXCEPT !.list = list, !.ref = new, !.timers = others \cup ({new} \ {Nothing})]

PollTick ==
    /\ Importing /\ page.timers # {} /\ Cardinality(Under("poll")) < MaxPolls
    /\ calls' = calls \cup {ListCall("poll", 0)} /\ UNCHANGED <<page, site, clicks>>

\* A failed poll of Sub2API servers stops the interval in the ref; one of CPA pools changes nothing.
PollAnswered(c) ==
    /\ Importing /\ c \in Answered("poll")
    /\ page' = IF c.got.ok THEN Polling(page, c.got.list)
               ELSE IF page.kind = "cpa" THEN page
               ELSE [page EXCEPT !.timers = @ \ {page.ref}, !.ref = Nothing]
    /\ calls' = calls \ {c} /\ UNCHANGED <<site, clicks>>

ConnectionsLoaded(c) ==
    /\ Importing /\ c \in Answered("connections")
    /\ page' = LET shown == IF c.got.ok THEN Polling(page, c.got.list) ELSE page IN [shown EXCEPT !.loading = FALSE]
    /\ calls' = calls \ {c} /\ UNCHANGED <<site, clicks>>

\* The dialog of a connection opens empty of secrets.  One is typed for the connection it is open for.
OpenConnectionKept(p) == [open |-> TRUE, of |-> p, secret |-> page.form.secret]
OpenConnection(p) == [open |-> TRUE, of |-> p, secret |-> Nothing]

\* The rows are out of reach under a dialog, and a form under the browser.
Busy(p) == p \in {page.deleting, page.browsing}
Row(p) == page.mounted /\ ~page.form.open /\ ~page.browser.open /\ ~page.loading /\ p \in DOMAIN page.list /\ ~Busy(p)
Filling == Importing /\ page.mounted /\ page.form.open /\ ~page.browser.open
OpenForm(p) ==
    /\ Importing /\ Event("imports")
    /\ Row(p) \/ (p = NewConnection /\ page.mounted /\ ~page.form.open /\ ~page.browser.open)
    /\ page' = [page EXCEPT !.form = OpenConnection(p)] /\ UNCHANGED <<site, calls>>
TypeSecret ==
    /\ Filling /\ page.form.secret = Nothing
    /\ page' = [page EXCEPT !.form.secret = page.form.of] /\ UNCHANGED <<site, calls, clicks>>
CloseForm ==
    /\ Filling /\ page' = [page EXCEPT !.form.open = FALSE, !.form.of = NewConnection] /\ UNCHANGED <<site, calls, clicks>>

SaveConnection ==
    /\ Filling /\ Event("imports") /\ ~page.saving
    /\ page.form.of = NewConnection => page.form.secret # Nothing
    /\ page' = [page EXCEPT !.saving = TRUE]
    /\ calls' = calls \cup {Asks("save", [to |-> page.form.of, secret |-> page.form.secret])} /\ UNCHANGED site
ConnectionSaved(c) ==
    /\ Importing /\ c \in Answered("save")
    /\ page' = LET shown == IF c.got.ok THEN [Polling(page, c.got.list) EXCEPT !.form.open = FALSE, !.form.of = NewConnection] ELSE page
               IN [shown EXCEPT !.saving = FALSE]
    /\ calls' = calls \ {c} /\ UNCHANGED <<site, clicks>>

DeleteConnection(p) ==
    /\ Importing /\ Row(p) /\ Event("imports")
    /\ page' = [page EXCEPT !.deleting = p] /\ calls' = calls \cup {Asks("delete", p)} /\ UNCHANGED site
ConnectionDeleted(c) ==
    /\ Importing /\ c \in Answered("delete")
    /\ page' = LET shown == IF c.got.ok THEN Polling(page, c.got.list) ELSE page IN [shown EXCEPT !.deleting = Nothing]
    /\ calls' = calls \ {c} /\ UNCHANGED <<site, clicks>>

\* The accounts of a connection open the browser when they arrive, with none chosen; the remote list is of the moment.
BrowseAccounts(p) ==
    /\ Importing /\ Row(p) /\ Event("imports")
    /\ page' = [page EXCEPT !.browsing = p] /\ calls' = calls \cup {Asks("browse", p)} /\ UNCHANGED site
BrowsedFilesOnly(c) == [page.browser EXCEPT !.open = TRUE, !.of = c.arg, !.files = c.arg]
Browsed(c) == [open |-> TRUE, of |-> c.arg, files |-> c.arg, chosen |-> Nothing]
AccountsRead(c) ==
    /\ Importing /\ c \in Under("browse")
    /\ page' = [page EXCEPT !.browsing = Nothing, !.browser = IF c.got = Nothing /\ Known(c.arg) THEN Browsed(c) ELSE @]
    /\ calls' = calls \ {c} /\ UNCHANGED <<site, clicks>>
ChooseAccounts ==
    /\ Importing /\ page.mounted /\ page.browser.open
    /\ page' = [page EXCEPT !.browser.chosen = IF @ = Nothing THEN page.browser.files ELSE Nothing]
    /\ UNCHANGED <<site, calls, clicks>>
CloseBrowser ==
    /\ Importing /\ page.mounted /\ page.browser.open
    /\ page' = [page EXCEPT !.browser.open = FALSE] /\ UNCHANGED <<site, calls, clicks>>

\* The job that was started is shown in the list as it is, or, of CPA pools, as it was before the request.
StartImport ==
    /\ Importing /\ page.mounted /\ page.browser.open /\ Event("imports")
    /\ page.browser.chosen # Nothing /\ ~page.starting
    /\ page' = [page EXCEPT !.starting = TRUE]
    /\ calls' = calls \cup {Asks("import", [to |-> page.browser.of, names |-> page.browser.chosen,
                                            list |-> IF page.kind = "cpa" THEN page.list ELSE Nothing])}
    /\ UNCHANGED site
StartFailedBusy == page
StartFailed == [page EXCEPT !.starting = FALSE]
ImportStarted(c) ==
    LET list == IF page.kind = "cpa" THEN c.arg.list ELSE page.list
        shown == [p \in DOMAIN list |-> IF p = c.arg.to THEN "unfinished" ELSE list[p]]
    IN
    /\ Importing /\ c \in Answered("import")
    /\ page' = IF c.got.ok THEN [Polling(page, shown) EXCEPT !.browser.open = FALSE, !.starting = FALSE]
               ELSE StartFailed
    /\ calls' = calls \ {c} /\ UNCHANGED <<site, clicks>>

\* The state of CPA pools outlives the page, and its requests go on; what a Sub2API server showed does not.
LeaveImports ==
    /\ Importing /\ page.mounted /\ Event("imports") /\ UNCHANGED site
    /\ IF page.kind = "cpa"
       THEN page' = [page EXCEPT !.mounted = FALSE, !.timers = {}, !.ref = Nothing] /\ UNCHANGED calls
       ELSE page' = Left /\ calls' = {}
ReturnToImports ==
    /\ Importing /\ ~page.mounted
    /\ page' = Polling([page EXCEPT !.mounted = TRUE, !.loading = TRUE], page.list)
    /\ calls' = calls \cup {ListCall("connections", clicks)} /\ UNCHANGED <<site, clicks>>

-----------------------------------------------------------------------------
(* The site.  What it keeps of a job is written under one lock and read under another. *)

SetJob(p, job) == IF Known(p) THEN [site EXCEPT !.pools[p].job = job] ELSE site

\* An update, and a restart, reads an unfinished job as a failed one.
Normalized == "finished"

Saved(arg) ==
    IF arg.to = NewConnection
    THEN LET secret == IF arg.secret = NewConnection THEN site.next ELSE arg.secret
             new == [p \in {site.next} |-> [secret |-> secret, job |-> "finished"]]
         IN [site EXCEPT !.pools = [p \in DOMAIN @ \cup DOMAIN new |-> IF Known(p) THEN @[p] ELSE new[p]],
                         !.next = @ + 1]
    ELSE [site EXCEPT !.pools[arg.to] = [secret |-> IF arg.secret = Nothing THEN @.secret ELSE arg.secret,
                                         job |-> Normalized]]
Removed(p) == [site EXCEPT !.pools = [q \in DOMAIN @ \ {p} |-> @[q]]]
Started(c) ==
    [SetJob(c.arg.to, "unfinished") EXCEPT !.runners = @ \cup {RunnerOf(c.arg.to, c.arg.names, c.by)}]

Refers(c) == IF c.op \in {"save", "import"} THEN c.arg.to ELSE c.arg
ServeConnections(c) ==
    /\ Importing /\ c \in calls \ Under("browse") /\ c.got = Nothing /\ UNCHANGED <<page, clicks>>
    /\ IF Refers(c) \in {Nothing, NewConnection} \/ Known(Refers(c))
       THEN /\ site' = IF c.op = "save" THEN Saved(c.arg) ELSE IF c.op = "delete" THEN Removed(c.arg)
                       ELSE IF c.op = "import" THEN Started(c) ELSE site
            /\ Served(c, [ok |-> TRUE, list |-> Connections'])
       ELSE Served(c, Failure) /\ UNCHANGED site

\* A runner tells that it runs; for each account, how far it is: it reads the job of the connection, of
\* whatever import it is, and writes it back with the status it read; and how it ended.
Runner(r, now) == [site EXCEPT !.runners = (@ \ {r}) \cup {now}]
Tells(r, status, runners) == [SetJob(r.to, status) EXCEPT !.runners = (@ \ {r}) \cup runners]
RunnerBegins(r) == r.stage = "begins" /\ site' = Tells(r, "unfinished", {[r EXCEPT !.stage = "fetches"]})
Fetching(r) == r.stage = "fetches" /\ r.read = Nothing
RunnerReads(r) == Fetching(r) /\ Known(r.to) /\ site' = Runner(r, [r EXCEPT !.read = site.pools[r.to].job])
RunnerWrites(r) == r.read # Nothing /\ site' = Tells(r, r.read, {[r EXCEPT !.read = Nothing]})
RunnerEnds(r) == Fetching(r) /\ site' = Tells(r, "finished", {})

\* The accounts that were fetched cannot be stored: the runner ends with an exception.
RunnerDies(r) ==
    /\ Importing /\ Event("imports") /\ r \in site.runners /\ Fetching(r)
    /\ site' = [site EXCEPT !.runners = @ \ {r}, !.abandoned = @ \cup {r.to}] /\ UNCHANGED <<page, calls>>

RestartedUnread == [site EXCEPT !.runners = {}, !.abandoned = {}]
Restarted == [site EXCEPT !.runners = {}, !.abandoned = {},
                          !.pools = [p \in DOMAIN @ |-> [@[p] EXCEPT !.job = Normalized]]]
SiteRestarts == Importing /\ Event("imports") /\ site' = Restarted /\ UNCHANGED <<page, calls>>

ImportFails(c) == Importing /\ Event("imports") /\ c \in calls /\ c.got # Failure /\ Fails(c)

-----------------------------------------------------------------------------
ImportAnswered(c) ==
    \/ PollAnswered(c) \/ ConnectionsLoaded(c) \/ ConnectionSaved(c) \/ ConnectionDeleted(c)
    \/ AccountsRead(c) \/ ImportStarted(c)
ImportStep ==
    \/ \E c \in calls : ServeConnections(c) \/ ImportAnswered(c)
    \/ /\ Importing /\ UNCHANGED <<page, calls, clicks>>
       /\ \E r \in site.runners : RunnerBegins(r) \/ RunnerReads(r) \/ RunnerWrites(r) \/ RunnerEnds(r)
ImportConnections ==
    Importing /\ \E p \in DOMAIN page.list : OpenForm(p) \/ DeleteConnection(p) \/ BrowseAccounts(p)
ImportNext ==
    \/ ImportStep \/ PollTick \/ OpenForm(NewConnection) \/ TypeSecret \/ CloseForm \/ SaveConnection
    \/ ImportConnections \/ ChooseAccounts \/ CloseBrowser \/ StartImport \/ LeaveImports \/ ReturnToImports
    \/ SiteRestarts \/ (Importing /\ \E r \in site.runners : RunnerDies(r)) \/ \E c \in calls : ImportFails(c)

-----------------------------------------------------------------------------
\* Only accounts of a connection are imported from it, whatever was browsed before and whichever of
\* several lists of accounts arrives last.
ImportsOwnAccounts == Importing => \A r \in site.runners : r.to = r.names

\* A secret is only ever stored with the connection it was typed for.
SecretsStay == Importing => \A p \in DOMAIN site.pools : site.pools[p].secret = p

\* However lists, failures and visits follow each other, one interval polls at most, it is the one that
\* can be cleared, and only while a job that is not finished is on screen; of CPA pools always then.
OnePollingTimer ==
    Importing =>
        /\ page.timers = {page.ref} \ {Nothing}
        /\ page.timers # {} => page.mounted /\ ShowsUnfinished(page.list)
        /\ page.kind = "cpa" /\ page.mounted /\ ShowsUnfinished(page.list) => page.timers # {}

\* A job that is not finished has a runner, also when the runners of several imports write the same
\* job back and its connection is edited meanwhile, unless its runner died since the site was started.
ImportsEnd ==
    Importing => \A p \in DOMAIN site.pools :
        site.pools[p].job = "unfinished" => p \in site.abandoned \/ \E r \in site.runners : r.to = p

\* What the page waits for is under way.
ImportPagesSettle ==
    Importing =>
        /\ page.loading => Under("connections") # {}
        /\ page.saving => Under("save") # {}
        /\ page.starting => Under("import") # {}
        /\ page.deleting # Nothing => \E c \in Under("delete") : c.arg = page.deleting
        /\ page.browsing # Nothing => \E c \in Under("browse") : c.arg = page.browsing

\* A job that is not finished is worked on, and one interval at most asks for it.
ImportsAreFollowed == OnePollingTimer /\ ImportsEnd
=============================================================================
