---------------------------- MODULE AccountPages ----------------------------
(***************************************************************************)
(* The page of the upstream accounts (web/src/app/accounts/page.tsx): the  *)
(* list with its selection, what is done to accounts of it, the dialog to  *)
(* edit one, and the dialog to import some                                 *)
(* (components/account-import-dialog.tsx).                                 *)
(*                                                                         *)
(* An account is a problem or not, and has fields that are told apart by   *)
(* the account they were filled from.  The list is filtered by nothing or  *)
(* by problems, and fits on one page.  Dialogs are modal, Escape closes    *)
(* them at any time.  Requests are counted; selecting and what is done in  *)
(* dialogs without a request are free.  Exporting changes nothing and is   *)
(* left out.                                                               *)
(***************************************************************************)
EXTENDS WebPage

CONSTANT MaxAccounts \* bound of the accounts ever imported

ASSUME AccountsAssumption == MaxAccounts \in Nat \ {0, 1}

NoAccount == 0
AccountRow(i, problem) == [fields |-> i, problem |-> problem]

\* The dialog to import: whether text is sent or files, whether files were read, whether it is asked to
\* confirm them.  What is typed or put together from a text file is only there to be sent, and the menu
\* of the ways is passed over.
NoImport == [open |-> FALSE, way |-> "text", files |-> FALSE, confirm |-> FALSE]

EmptyAccounts ==
    [at |-> "accounts", items |-> <<>>, selected |-> {}, busy |-> {"list"},
     target |-> NoAccount, form |-> NoAccount, import |-> NoImport]

AccountsInit ==
    /\ page = EmptyAccounts
    /\ site = [items |-> <<AccountRow(1, FALSE), AccountRow(2, TRUE)>>, made |-> 2]
    /\ clicks = 0 /\ calls = {[op |-> "list", arg |-> Nothing, by |-> 0, got |-> Nothing]}

-----------------------------------------------------------------------------
(* The list. *)

OnAccounts == At("accounts") /\ page.target = NoAccount /\ ~page.import.open /\ ~page.import.confirm

\* Each kind of request has a flag, which is set before it and reset after it, and which disables the
\* buttons that would make it again; some buttons wait for several.
AsksAccounts(op, arg) ==
    /\ Event("accounts") /\ op \notin page.busy
    /\ page' = [page EXCEPT !.busy = @ \cup {op}]
    /\ calls' = calls \cup {Asks(op, arg)} /\ UNCHANGED site

AccountsReload == OnAccounts /\ page.busy \cap {"refresh", "delete"} = {} /\ AsksAccounts("list", Nothing)

Problems == {i \in DOMAIN page.items : page.items[i].problem}
AccountRefs == {page.selected \cap DOMAIN page.items, Problems} \cup {{i} : i \in DOMAIN page.items}
AccountsRefresh ==
    \E refs \in AccountRefs \cup {DOMAIN page.items} :
        OnAccounts /\ refs # {} /\ AsksAccounts("refresh", refs)
AccountsDelete == \E refs \in AccountRefs : OnAccounts /\ refs # {} /\ AsksAccounts("delete", refs)

\* Every answer has the whole list; the selection keeps what is still in it.
WithAccountsUnchecked(items) == [page EXCEPT !.items = items]
WithAccounts(items) == [page EXCEPT !.items = items, !.selected = @ \cap DOMAIN items]

\* A handler after its request.
AccountsEnd(c, op, done) ==
    /\ At("accounts") /\ c \in Answered(op)
    /\ page' = [IF c.got.ok THEN done ELSE page EXCEPT !.busy = @ \ {op}]
    /\ calls' = calls \ {c} /\ UNCHANGED <<site, clicks>>

AccountsLoaded(c) == AccountsEnd(c, "list", WithAccounts(c.got.items))
AccountsRefreshed(c) == AccountsEnd(c, "refresh", WithAccounts(c.got.items))
AccountsDeleted(c) == AccountsEnd(c, "delete", WithAccounts(c.got.items))

SelectsAccounts ==
    /\ OnAccounts /\ Event("accounts") /\ UNCHANGED <<site, calls>>
    /\ \/ \E i \in DOMAIN page.items :
            page' = [page EXCEPT !.selected = IF i \in @ THEN @ \ {i} ELSE @ \cup {i}]
       \/ \E rows \in {DOMAIN page.items, Problems} \ {{}} :
            page' = [page EXCEPT !.selected = IF rows \subseteq @ THEN @ \ rows ELSE @ \cup rows]

-----------------------------------------------------------------------------
(* The dialog to edit an account. *)

AccountEditable == "update" \notin page.busy
OpensAccount(i) ==
    /\ OnAccounts /\ AccountEditable /\ i \in DOMAIN page.items
    /\ page' = [page EXCEPT !.target = i, !.form = page.items[i].fields]
    /\ UNCHANGED <<site, calls, clicks>>

\* Escape closes the dialog whether or not its request is under way, the button only if it is not.
ClosesAccount ==
    /\ At("accounts") /\ page.target # NoAccount
    /\ page' = [page EXCEPT !.target = NoAccount] /\ UNCHANGED <<site, calls, clicks>>

AccountUpdate ==
    /\ At("accounts") /\ page.target # NoAccount
    /\ AsksAccounts("update", [id |-> page.target, fields |-> page.form])
AccountUpdated(c) == AccountsEnd(c, "update", [WithAccounts(c.got.items) EXCEPT !.target = NoAccount])

-----------------------------------------------------------------------------
(* The dialog to import accounts. *)

Importer(import) == page' = [page EXCEPT !.import = import] /\ UNCHANGED <<site, calls, clicks>>
NoneImported == "import" \notin page.busy

\* The button waits for the page, not for an import under way.
OpensImport ==
    /\ OnAccounts /\ page.busy \cap {"list", "refresh", "delete"} = {}
    /\ Importer([page.import EXCEPT !.open = TRUE])
ChoosesWay ==
    /\ At("accounts") /\ page.import.open /\ ~page.import.confirm
    /\ \E way \in {"text", "files"} : Importer([page.import EXCEPT !.way = way])

\* Escape forgets what was chosen and read, the button keeps it.
ClosesImport ==
    /\ At("accounts")
    /\ \/ page.import.confirm /\ Importer([page.import EXCEPT !.confirm = FALSE])
       \/ page.import.open /\ ~page.import.confirm
          /\ \/ Importer(NoImport)
             \/ NoneImported /\ Importer([page.import EXCEPT !.open = FALSE])

\* Files are read while the dialog is used on: they may be there when it was closed, or when
\* others were imported.
ReadsFiles ==
    /\ page.import.open /\ ~page.import.confirm /\ page.import.way = "files" /\ NoneImported
    /\ Event("accounts") /\ calls' = calls \cup {Asks("read", Nothing)} /\ UNCHANGED <<page, site>>
FilesRead(c) ==
    /\ At("accounts") /\ c \in Answered("read")
    /\ page' = IF c.got.ok THEN [page EXCEPT !.import.files = TRUE, !.import.confirm = TRUE] ELSE page
    /\ calls' = calls \ {c} /\ UNCHANGED <<site, clicks>>

AsksToConfirm ==
    /\ At("accounts") /\ page.import.open /\ page.import.way = "files" /\ page.import.files /\ NoneImported
    /\ Importer([page.import EXCEPT !.confirm = TRUE])

ImportAccounts ==
    /\ \/ page.import.confirm /\ page.import.files
       \/ page.import.open /\ ~page.import.confirm /\ page.import.way = "text"
    /\ AsksAccounts("import", Nothing)
AccountsImported(c) ==
    AccountsEnd(c, "import", [page EXCEPT !.items = c.got.items, !.selected = {}, !.import = NoImport])

-----------------------------------------------------------------------------
(* The site. *)

Restricted(items, ids) == [i \in ids |-> items[i]]

\* What a request makes of the accounts: a refresh finds problems with some and has some removed, an
\* import may bring none that is new (problems of a new one come later), and an edit may bring or end
\* a problem.
AccountsFound(refs, gone, problems) ==
    [i \in DOMAIN site.items \ gone |->
        IF i \in refs THEN AccountRow(site.items[i].fields, i \in problems) ELSE site.items[i]]
AccountsAdded(new) ==
    [i \in DOMAIN site.items \cup {new} |-> IF i = new THEN AccountRow(new, FALSE) ELSE site.items[i]]
AccountEdited(id, fields) == {[site.items EXCEPT ![id] = AccountRow(fields, problem)] : problem \in BOOLEAN}

AccountsAfter(c) ==
    LET items == site.items
        refs == c.arg \cap DOMAIN items
        new == site.made + 1
    IN IF c.op = "delete" THEN {Restricted(items, DOMAIN items \ refs)}
       ELSE IF c.op = "refresh" THEN
           UNION {{AccountsFound(refs, gone, problems) : problems \in SUBSET refs} : gone \in SUBSET refs}
       ELSE IF c.op = "import" /\ new <= MaxAccounts THEN {items, AccountsAdded(new)}
       ELSE IF c.op = "update" THEN
           IF c.arg.id \in DOMAIN items THEN AccountEdited(c.arg.id, c.arg.fields) ELSE {}
       ELSE {items}

AccountsServe(c) ==
    /\ At("accounts") /\ c \in calls /\ c.got = Nothing /\ UNCHANGED <<page, clicks>>
    /\ \/ \E items \in AccountsAfter(c) :
            /\ site' = [items |-> items,
                        made |-> IF site.made + 1 \in DOMAIN items THEN site.made + 1 ELSE site.made]
            /\ Served(c, [ok |-> TRUE, items |-> items])
       \/ AccountsAfter(c) = {} /\ Served(c, Failure) /\ UNCHANGED site
       \* An account whose limit is edited in may be removed for it: it is answered as not found.
       \/ /\ c.op = "update" /\ Served(c, Failure)
          /\ site' = [site EXCEPT !.items = Restricted(@, DOMAIN @ \ {c.arg.id})]

\* The watcher, requests for images and other administrators change accounts and remove them.
AccountChanges ==
    /\ Event("accounts") /\ UNCHANGED <<page, calls>>
    /\ \E i \in DOMAIN site.items :
         \/ site' = [site EXCEPT !.items[i].problem = ~@]
         \/ site' = [site EXCEPT !.items = Restricted(@, DOMAIN @ \ {i})]

AccountsFail(c) == Event("accounts") /\ c \in calls /\ c.got # Failure /\ Fails(c)
LeaveAccounts == Event("accounts") /\ page' = Left /\ calls' = {} /\ UNCHANGED site

AccountsStep(c) ==
    \/ AccountsServe(c) \/ AccountsLoaded(c) \/ AccountsRefreshed(c) \/ AccountsDeleted(c)
    \/ AccountUpdated(c) \/ FilesRead(c) \/ AccountsImported(c)
AccountsNext ==
    /\ At("accounts")
    /\ \/ \E c \in calls : AccountsStep(c) \/ AccountsFail(c)
       \/ AccountsReload \/ AccountsRefresh \/ AccountsDelete \/ SelectsAccounts
       \/ (\E i \in 1 .. MaxAccounts : OpensAccount(i)) \/ ClosesAccount \/ AccountUpdate
       \/ OpensImport \/ ChoosesWay \/ ClosesImport \/ ReadsFiles \/ AsksToConfirm \/ ImportAccounts
       \/ AccountChanges \/ LeaveAccounts

-----------------------------------------------------------------------------
\* What is done to the selection is done to what is shown as selected, an account gets only fields
\* that were filled for it, an answer closes no dialog of another account, and nobody is asked to
\* confirm files that are not there, whatever was answered, closed and read in between.
AccountsActOnShown ==
    At("accounts") =>
        /\ page.selected \subseteq DOMAIN page.items
        /\ \A i \in DOMAIN site.items : site.items[i].fields = i
        /\ \A c \in Under("update") : page.target \in {NoAccount, c.arg.id}
        /\ page.import.confirm => page.import.files

\* A flag is set while its request is under way, and no request is made twice at a time.
AccountsSettle ==
    At("accounts") =>
        LET flagged == {c \in calls : c.op # "read"} IN
        page.busy = {c.op : c \in flagged} /\ Cardinality(page.busy) = Cardinality(flagged)
=============================================================================
