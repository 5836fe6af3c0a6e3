----------------------------- MODULE AdminPages -----------------------------
(***************************************************************************)
(* The four lists an administrator keeps: redeem codes, users, promotion   *)
(* codes and membership plans (web/src/app/admin/*/page.tsx).  Each has    *)
(* rows with buttons, a dialog to create, one to edit, one to confirm a    *)
(* deletion; each change is answered with the whole list.                  *)
(*                                                                         *)
(* Dialogs are modal, and Escape closes them, also while their request is  *)
(* under way.  Opening, typing and closing are free; requests are counted. *)
(* The fields of an item besides `on` are the item they were filled from,  *)
(* whatever was typed over it, so that those of another are told apart.    *)
(***************************************************************************)
EXTENDS WebPage

CONSTANT MaxItems \* bound of the items ever made

ASSUME AdminAssumption == MaxItems \in Nat \ {0, 1}

AdminIds == 1 .. MaxItems
NoItem == 0
AdminItem(i) == [on |-> TRUE, used |-> FALSE, fields |-> i]
Self == 1 \* the user that is signed in, on the page of users

AdminLists == {"codes", "users", "promos", "plans"}
EmptyAdmin(list) ==
    [at |-> list, items |-> <<>>, loading |-> TRUE, pending |-> NoItem, busy |-> {}, plans |-> FALSE,
     create |-> FALSE, target |-> NoItem, form |-> NoItem,
     confirm |-> NoItem, result |-> FALSE, generated |-> NoItem]

\* The page has opened and asked for its list.
OpenAdmin(list) ==
    /\ page = EmptyAdmin(list)
    /\ LET n == IF list \in {"codes", "promos"} THEN 1 ELSE 2 \* room for a new code
       IN site = [items |-> [i \in 1 .. n |-> AdminItem(i)], made |-> n]
    /\ clicks = 0 /\ calls = {[op |-> "load", arg |-> Nothing, by |-> 0, got |-> Nothing]}

-----------------------------------------------------------------------------
(* What the pages share. *)

NoDialog == ~page.create /\ page.target = NoItem /\ page.confirm = NoItem /\ ~page.result
RowFree(list, i) == At(list) /\ NoDialog /\ ~page.loading /\ i \in DOMAIN page.items /\ page.pending # i

LoadList(list) ==
    /\ Event(list) /\ NoDialog
    /\ page' = [page EXCEPT !.loading = TRUE]
    /\ calls' = calls \cup {Asks("load", Nothing)} /\ UNCHANGED site

\* A list, or the failure to get it.
LoadedList(list, c) ==
    /\ At(list) /\ c \in Answered("load")
    /\ page' = [page EXCEPT !.items = IF c.got.ok THEN c.got.items ELSE @, !.loading = FALSE]
    /\ calls' = calls \ {c} /\ UNCHANGED <<site, clicks>>

OpenCreate(list) ==
    /\ At(list) /\ NoDialog
    /\ page' = [page EXCEPT !.create = TRUE] /\ UNCHANGED <<site, calls, clicks>>

\* A dialog's submission: its button is disabled while the flag is set.
Submits(list, flag, op, pending, arg) ==
    /\ Event(list) /\ flag \notin page.busy
    /\ page' = [page EXCEPT !.busy = @ \cup {flag}, !.pending = IF pending = NoItem THEN @ ELSE pending]
    /\ calls' = calls \cup {Asks(op, arg)} /\ UNCHANGED site

EditsItemOnly(i) == page' = [page EXCEPT !.target = i] /\ UNCHANGED <<site, calls, clicks>>

\* The fields of the item are put into the form with the item.
EditsItem(i) ==
    /\ page' = [page EXCEPT !.target = i, !.form = page.items[i].fields]
    /\ UNCHANGED <<site, calls, clicks>>

\* A form as it is sent: its box says on or off.
Filled(on) == [id |-> page.target, on |-> on, fields |-> page.form]

\* Escape, or the button to cancel.
ClosesDialog(list) ==
    /\ At(list)
    /\ \/ page.create /\ page' = [page EXCEPT !.create = FALSE]
       \/ page.target # NoItem /\ page' = [page EXCEPT !.target = NoItem]
       \/ page.confirm # NoItem /\ page' = [page EXCEPT !.confirm = NoItem]
       \/ page.result /\ page' = [page EXCEPT !.result = FALSE]
    /\ UNCHANGED <<site, calls, clicks>>

Toggles(list, i) ==
    /\ Event(list)
    /\ page' = [page EXCEPT !.pending = i]
    /\ calls' = calls \cup {Asks("toggle", [id |-> i, on |-> ~page.items[i].on])} /\ UNCHANGED site

ConfirmsItem(i) == page' = [page EXCEPT !.confirm = i] /\ UNCHANGED <<site, calls, clicks>>

\* The handler after its request: `done` when it succeeded, and then what its finally clause resets.
Concluded(list, c, op, done, reset) ==
    /\ At(list) /\ c \in Answered(op)
    /\ page' = LET next == IF c.got.ok THEN [done EXCEPT !.items = c.got.items] ELSE page
               IN [next EXCEPT !.busy = @ \ reset, !.pending = IF op = "create" THEN @ ELSE NoItem]
    /\ calls' = calls \ {c} /\ UNCHANGED <<site, clicks>>

-----------------------------------------------------------------------------
(* Redeem codes. *)

CodesRefresh == ~page.loading /\ LoadList("codes")

\* The plans are asked for after the codes.
CodesLoaded(c) ==
    /\ At("codes") /\ UNCHANGED <<site, clicks>>
    /\ \/ /\ c \in Answered("load") /\ c.got.ok
          /\ page' = [page EXCEPT !.items = c.got.items]
          /\ calls' = (calls \ {c}) \cup {[c EXCEPT !.op = "plans", !.got = Nothing]}
       \/ /\ c \in Answered("load") \cup Answered("plans") /\ (c.got.ok => c.op = "plans")
          /\ page' = [page EXCEPT !.plans = @ \/ c.got.ok, !.loading = FALSE]
          /\ calls' = calls \ {c}

CodesRow(i) == RowFree("codes", i)
CodesToggleable(i) == CodesRow(i) /\ ~page.items[i].used

\* A code for a membership is bound to a plan, of those that were loaded.
CodesGenerateAgain ==
    /\ Event("codes") /\ page.create
    /\ calls' = calls \cup {Asks("create", FALSE)} /\ UNCHANGED <<page, site>>
CodesGenerate ==
    \E membership \in BOOLEAN :
        page.create /\ (membership => page.plans) /\ Submits("codes", "create", "create", NoItem, Nothing)

\* The codes themselves are in this one answer; the lists hold their previews.
CodesGenerated(c) ==
    Concluded("codes", c, "create",
              [page EXCEPT !.generated = c.got.made, !.create = FALSE, !.result = TRUE], {"create"})

CodesEdit(i) == CodesRow(i) /\ EditsItem(i)
CodesUpdate ==
    \E on \in BOOLEAN : page.target # NoItem /\ Submits("codes", "update", "update", page.target, Filled(on))
CodesUpdated(c) == Concluded("codes", c, "update", [page EXCEPT !.target = NoItem], {"update"})
CodesToggle(i) == CodesToggleable(i) /\ Toggles("codes", i)
CodesToggled(c) == Concluded("codes", c, "toggle", page, {})
CodesConfirm(i) == CodesRow(i) /\ ConfirmsItem(i)
CodesDelete == page.confirm # NoItem /\ Submits("codes", "delete", "delete", page.confirm, [id |-> page.confirm])
CodesDeleted(c) == Concluded("codes", c, "delete", [page EXCEPT !.confirm = NoItem], {"delete"})

\* A user redeems a code: it is used from then on.
CodeRedeemed(i) ==
    /\ Event("codes") /\ i \in DOMAIN site.items /\ site.items[i].on /\ ~site.items[i].used
    /\ site' = [site EXCEPT !.items[i].used = TRUE] /\ UNCHANGED <<page, calls>>
CodesDialogs == OpenCreate("codes") \/ ClosesDialog("codes")
CodesStep(c) ==
    CodesLoaded(c) \/ CodesGenerated(c) \/ CodesUpdated(c) \/ CodesToggled(c) \/ CodesDeleted(c)
CodesNext ==
    /\ At("codes")
    /\ \/ CodesRefresh \/ CodesGenerate \/ CodesUpdate \/ CodesDelete \/ CodesDialogs
       \/ \E i \in AdminIds : CodesEdit(i) \/ CodesToggle(i) \/ CodesConfirm(i) \/ CodeRedeemed(i)

-----------------------------------------------------------------------------
(* Users.  The one that is signed in is neither disabled nor deleted. *)

UsersOpen == OpenAdmin("users")

\* The button waits for a list that is loading; the field to search and its button do not.
UsersRefresh == ~page.loading /\ LoadList("users")
UsersSearch == LoadList("users")
UsersLoaded(c) == LoadedList("users", c)

canDisableOrDeleteUser(i) == i # Self
UsersRow(i) == RowFree("users", i)

UsersCreate == page.create /\ Submits("users", "create", "create", NoItem, Nothing)
UsersCreated(c) == Concluded("users", c, "create", [page EXCEPT !.create = FALSE], {"create"})

UsersEdit(i) == UsersRow(i) /\ EditsItem(i)

UsersUpdate ==
    \E on \in BOOLEAN :
        /\ page.target # NoItem /\ (page.target = Self => on)
        /\ Submits("users", "update", "update", page.target, Filled(on))
UsersUpdated(c) == Concluded("users", c, "update", [page EXCEPT !.target = NoItem], {"update"})

UsersToggle(i) == UsersRow(i) /\ canDisableOrDeleteUser(i) /\ Toggles("users", i)
UsersToggled(c) == Concluded("users", c, "toggle", page, {})
UsersConfirm(i) == UsersRow(i) /\ canDisableOrDeleteUser(i) /\ ConfirmsItem(i)
UsersDelete == page.confirm # NoItem /\ Submits("users", "delete", "delete", page.confirm, [id |-> page.confirm])
UsersDeleted(c) == Concluded("users", c, "delete", [page EXCEPT !.confirm = NoItem], {"delete"})

UsersDialogs == OpenCreate("users") \/ ClosesDialog("users")
UsersStep(c) ==
    UsersLoaded(c) \/ UsersCreated(c) \/ UsersUpdated(c) \/ UsersToggled(c) \/ UsersDeleted(c)
UsersNext ==
    /\ At("users")
    /\ \/ UsersRefresh \/ UsersSearch \/ UsersCreate \/ UsersUpdate \/ UsersDelete \/ UsersDialogs
       \/ \E i \in AdminIds : UsersEdit(i) \/ UsersToggle(i) \/ UsersConfirm(i)

-----------------------------------------------------------------------------
(* Promotion codes. *)

PromosOpen == OpenAdmin("promos")
PromosRefresh == ~page.loading /\ LoadList("promos")
PromosLoaded(c) == LoadedList("promos", c)
PromosRow(i) == RowFree("promos", i)
PromosCreate == page.create /\ Submits("promos", "create", "create", NoItem, Nothing)
PromosCreated(c) == Concluded("promos", c, "create", [page EXCEPT !.create = FALSE], {"create"})
PromosEdit(i) == PromosRow(i) /\ EditsItem(i)
PromosUpdate ==
    \E on \in BOOLEAN : page.target # NoItem /\ Submits("promos", "update", "update", page.target, Filled(on))
PromosUpdated(c) == Concluded("promos", c, "update", [page EXCEPT !.target = NoItem], {"update"})
PromosToggle(i) == PromosRow(i) /\ Toggles("promos", i)
PromosToggled(c) == Concluded("promos", c, "toggle", page, {})
PromosConfirm(i) == PromosRow(i) /\ ConfirmsItem(i)
PromosDelete == page.confirm # NoItem /\ Submits("promos", "delete", "delete", page.confirm, [id |-> page.confirm])
PromosDeleted(c) == Concluded("promos", c, "delete", [page EXCEPT !.confirm = NoItem], {"delete"})
PromosDialogs == OpenCreate("promos") \/ ClosesDialog("promos")
PromosStep(c) ==
    PromosLoaded(c) \/ PromosCreated(c) \/ PromosUpdated(c) \/ PromosToggled(c) \/ PromosDeleted(c)
PromosNext ==
    /\ At("promos")
    /\ \/ PromosRefresh \/ PromosCreate \/ PromosUpdate \/ PromosDelete \/ PromosDialogs
       \/ \E i \in AdminIds : PromosEdit(i) \/ PromosToggle(i) \/ PromosConfirm(i)

-----------------------------------------------------------------------------
(* Membership plans.  One flag is shared by the three dialogs. *)

PlansOpen == OpenAdmin("plans")
PlansRefresh == ~page.loading /\ LoadList("plans")
PlansLoaded(c) == LoadedList("plans", c)
PlansRow(i) == RowFree("plans", i)
PlansCreate == page.create /\ Submits("plans", "submit", "create", NoItem, Nothing)
PlansCreated(c) == Concluded("plans", c, "create", [page EXCEPT !.create = FALSE], {"submit"})
PlansEdit(i) == PlansRow(i) /\ EditsItem(i)
PlansUpdate ==
    \E on \in BOOLEAN : page.target # NoItem /\ Submits("plans", "submit", "update", page.target, Filled(on))
PlansUpdated(c) == Concluded("plans", c, "update", [page EXCEPT !.target = NoItem], {"submit"})
PlansToggle(i) == PlansRow(i) /\ Toggles("plans", i)
PlansToggledAll(c) == Concluded("plans", c, "toggle", page, {"submit"})
PlansToggled(c) == Concluded("plans", c, "toggle", page, {})
PlansConfirm(i) == PlansRow(i) /\ ConfirmsItem(i)
PlansDelete == page.confirm # NoItem /\ Submits("plans", "submit", "delete", page.confirm, [id |-> page.confirm])
PlansDeleted(c) == Concluded("plans", c, "delete", [page EXCEPT !.confirm = NoItem], {"submit"})
PlansDialogs == OpenCreate("plans") \/ ClosesDialog("plans")
PlansStep(c) ==
    PlansLoaded(c) \/ PlansCreated(c) \/ PlansUpdated(c) \/ PlansToggled(c) \/ PlansDeleted(c)
PlansNext ==
    /\ At("plans")
    /\ \/ PlansRefresh \/ PlansCreate \/ PlansUpdate \/ PlansDelete \/ PlansDialogs
       \/ \E i \in AdminIds : PlansEdit(i) \/ PlansToggle(i) \/ PlansConfirm(i)

-----------------------------------------------------------------------------
(* The site. *)

Without(items, i) == [j \in DOMAIN items \ {i} |-> items[j]]
WithItem(items, i, item) == [j \in DOMAIN items \cup {i} |-> IF j = i THEN item ELSE items[j]]

\* What a request makes of the items.  Users with a history and plans in use are disabled instead
\* of deleted; a request about an item that is gone, or that the site does not accept, fails.
ItemsAfter(c) ==
    LET items == site.items
        known == c.op # "create" /\ c.arg.id \in DOMAIN items
    IN IF c.op = "create" THEN
           IF site.made < MaxItems THEN {WithItem(items, site.made + 1, AdminItem(site.made + 1))} ELSE {}
       ELSE IF ~known THEN {}
       ELSE IF c.op = "delete" THEN
           {Without(items, c.arg.id)} \cup
           IF At("users") \/ At("plans") THEN {[items EXCEPT ![c.arg.id].on = FALSE]} ELSE {}
       ELSE IF c.op = "toggle" THEN {[items EXCEPT ![c.arg.id].on = c.arg.on]}
       ELSE {[items EXCEPT ![c.arg.id].on = c.arg.on, ![c.arg.id].fields = c.arg.fields]}

AdminServes(c) ==
    /\ c \in calls /\ c.got = Nothing /\ UNCHANGED <<page, clicks>>
    /\ IF c.op \in {"load", "plans"}
       THEN Served(c, [ok |-> TRUE, items |-> site.items]) /\ UNCHANGED site
       ELSE \/ \E items \in ItemsAfter(c) :
                 LET made == IF c.op = "create" THEN site.made + 1 ELSE site.made IN
                 /\ site' = [items |-> items, made |-> made]
                 /\ Served(c, [ok |-> TRUE, items |-> items, made |-> made])
            \/ ItemsAfter(c) = {} /\ Served(c, Failure) /\ UNCHANGED site

\* Another administrator deletes an item, or turns it on or off, but for the one that is signed in here.
AnotherAdmin ==
    /\ page.at \in AdminLists /\ Event(page.at) /\ UNCHANGED <<page, calls>>
    /\ \E i \in DOMAIN site.items \ (IF At("users") THEN {Self} ELSE {}) :
         \/ site' = [site EXCEPT !.items = Without(@, i)]
         \/ site' = [site EXCEPT !.items[i].on = ~@]

AdminFails(c) ==
    /\ page.at \in AdminLists /\ Event(page.at) /\ c \in calls /\ c.got # Failure
    /\ Fails(c)

LeaveAdmin == page.at \in AdminLists /\ Event(page.at) /\ page' = Left /\ calls' = {} /\ UNCHANGED site

AdminInit == OpenAdmin("codes") \/ UsersOpen \/ PromosOpen \/ PlansOpen
AdminStep ==
    page.at \in AdminLists /\
    \E c \in calls : AdminServes(c) \/ CodesStep(c) \/ UsersStep(c) \/ PromosStep(c) \/ PlansStep(c)
AdminNext ==
    \/ AdminStep \/ AnotherAdmin \/ LeaveAdmin \/ (\E c \in calls : AdminFails(c))
    \/ CodesNext \/ UsersNext \/ PromosNext \/ PlansNext

-----------------------------------------------------------------------------
\* No item is given the fields of another: the form that is sent was filled from the item it is
\* sent for, whichever dialogs were opened and closed while answers came.
NoItemGetsAnothersFields ==
    page.at \in AdminLists => \A i \in DOMAIN site.items : site.items[i].fields = i

\* The plain text of a code is shown once, and no later answer takes it from the screen: it stays
\* until the administrator closes the dialog or leaves the page.
GeneratedCodesStay ==
    [][At("codes") /\ page.result /\ page'.at = "codes" /\ page'.result =>
       page'.generated = page.generated]_pageVars

\* The buttons that wait for a request wait for one that is under way, and a dialog's request is
\* not sent twice.
AdminSettles ==
    page.at \in AdminLists =>
        LET submitted == {c \in calls : c.op \in {"create", "update", "delete"}} IN
        /\ page.loading => \E c \in calls : c.op \in {"load", "plans"}
        /\ page.busy = IF At("plans") THEN {"submit" : c \in submitted} ELSE {c.op : c \in submitted}
        /\ Cardinality(page.busy) = Cardinality(submitted)
        /\ page.pending # NoItem =>
             \E c \in calls : c.op \in {"update", "toggle", "delete"} /\ c.arg.id = page.pending
=============================================================================
