---------------------------- MODULE SettingsPages ----------------------------
(***************************************************************************)
(* Pages on which an administrator edits settings that the site goes on    *)
(* working with: the register machine (admin/register-machine/page.tsx,    *)
(* register-card.tsx and its part of settings/store.ts) with the runner of *)
(* services/register_service.py; the cards of the configuration and of     *)
(* authentication (config-card.tsx, auth-settings-card.tsx); the update    *)
(* card (update-card.tsx).  Settings are named after the event that typed  *)
(* them.                                                                   *)
(***************************************************************************)
EXTENDS WebPage

MaxRegisterPolls == 1 \* polls of the register machine under way at a time

\* A request of a page that was opened, not of something that happened on it.
Load(op, arg) == [op |-> op, arg |-> arg, by |-> 0, got |-> Nothing]

-----------------------------------------------------------------------------
(* The register machine.  Its state outlives the page, and is shown unless it is being loaded. *)

EmptyMachine ==
    [at |-> "machine", mounted |-> TRUE, value |-> Nothing, enabled |-> FALSE, dirty |-> FALSE, loading |-> TRUE,
     saving |-> FALSE]

\* late: registrations begun since the machine was stopped.  missed: a start found a runner that was
\* past its last look at the switch.  failed: an exception ended the last runner, which leaves the switch on.
MachineInit ==
    \E on \in BOOLEAN :
        /\ page = EmptyMachine
        /\ site = [value |-> 0, enabled |-> on, runner |-> IF on THEN "asks" ELSE "none", late |-> 0, missed |-> FALSE,
                   failed |-> FALSE]
        /\ clicks = 0 /\ calls = {Load("machine", "shown")}

Machine == At("machine")

RegisterPoll ==
    /\ Machine /\ page.mounted
    /\ Cardinality({c \in Under("machine") : c.arg = "silent"}) < MaxRegisterPolls
    /\ calls' = calls \cup {Load("machine", "silent")} /\ UNCHANGED <<page, site, clicks>>

\* A poll leaves what was typed, judged when it answers; it always tells whether the machine runs.
MergedPlain(got, preserve) == [page EXCEPT !.value = got.value, !.enabled = got.enabled]
MergeRegisterConfig(got, preserve) ==
    [page EXCEPT !.value = IF preserve /\ @ # Nothing THEN @ ELSE got.value, !.enabled = got.enabled]

RegisterLoaded(c) ==
    LET silent == c.arg = "silent"
        shown == IF c.got.ok THEN MergeRegisterConfig(c.got, silent /\ page.dirty) ELSE page
    IN
    /\ Machine /\ c \in Answered("machine")
    /\ page' = IF silent THEN shown ELSE [shown EXCEPT !.dirty = @ /\ ~c.got.ok, !.loading = FALSE]
    /\ calls' = calls \ {c} /\ UNCHANGED <<site, clicks>>

Editable == Machine /\ page.mounted /\ ~page.loading /\ page.value # Nothing
Stopped == Editable /\ ~page.enabled
EditRegister ==
    /\ Stopped /\ Event("machine")
    /\ page' = [page EXCEPT !.value = clicks', !.dirty = TRUE] /\ UNCHANGED <<site, calls>>

AskMachine(op) ==
    /\ Editable /\ Event("machine") /\ ~page.saving
    /\ page' = [page EXCEPT !.saving = TRUE] /\ calls' = calls \cup {Asks(op, page.value)} /\ UNCHANGED site
SaveRegister == Stopped /\ AskMachine("keep")
ResetRegister == Stopped /\ AskMachine("reset")

\* A start stores the settings on screen first.
ToggleRegister == AskMachine(IF page.enabled THEN "stop" ELSE "keepAndStart")
NotStartedBusy == page
NotStarted == [page EXCEPT !.saving = FALSE]
StartRegister(c) ==
    /\ Machine /\ c \in Answered("keepAndStart") /\ UNCHANGED <<site, clicks>>
    /\ IF c.got.ok THEN /\ calls' = (calls \ {c}) \cup {[c EXCEPT !.op = "start", !.got = Nothing]}
                        /\ UNCHANGED page
       ELSE calls' = calls \ {c} /\ page' = NotStarted
RegisterAsked(c) ==
    /\ Machine /\ c \in Answered("keep") \cup Answered("reset") \cup Answered("stop") \cup Answered("start")
    /\ page' = [IF c.got.ok THEN [page EXCEPT !.value = c.got.value, !.enabled = c.got.enabled, !.dirty = FALSE] ELSE page
                EXCEPT !.saving = FALSE]
    /\ calls' = calls \ {c} /\ UNCHANGED <<site, clicks>>

LeaveMachine ==
    /\ Machine /\ page.mounted /\ Event("machine")
    /\ page' = [page EXCEPT !.mounted = FALSE] /\ UNCHANGED <<site, calls>>
ReturnToMachine ==
    /\ Machine /\ ~page.mounted /\ Load("machine", "shown") \notin calls
    /\ page' = [page EXCEPT !.mounted = TRUE, !.loading = TRUE]
    /\ calls' = calls \cup {Load("machine", "shown")} /\ UNCHANGED <<site, clicks>>

\* The runner looks at the switch before each registration, and before it leaves; its last act is to
\* turn the switch off.  Until its thread is gone, a start only turns the switch on.
MachineStarted ==
    IF site.runner # "none"
    THEN [site EXCEPT !.enabled = TRUE, !.late = 0, !.missed = @ \/ site.runner \in {"leaves", "gone"}]
    ELSE [site EXCEPT !.enabled = TRUE, !.late = 0, !.missed = FALSE, !.failed = FALSE, !.runner = "asks"]
MachineStopped == [site EXCEPT !.enabled = FALSE]
ServeMachine(c) ==
    /\ Machine /\ c \in calls /\ c.got = Nothing /\ UNCHANGED <<page, clicks>>
    /\ site' = IF c.op \in {"keep", "keepAndStart"} THEN [site EXCEPT !.value = c.arg]
               ELSE IF c.op = "start" THEN MachineStarted
               ELSE IF c.op = "stop" THEN MachineStopped
               ELSE site
    /\ Served(c, [ok |-> TRUE, value |-> site'.value, enabled |-> site'.enabled])

SubmitsUnasked == [site EXCEPT !.late = IF site.enabled THEN 0 ELSE @ + 1]
SubmitsNext == [site EXCEPT !.late = IF site.enabled THEN 0 ELSE @ + 1, !.runner = "asks"]
RunnerAt(stage) == Machine /\ site.runner = stage /\ UNCHANGED <<page, calls, clicks>>
RunnerAsks ==
    /\ RunnerAt("asks")
    /\ \/ site.enabled /\ site' = [site EXCEPT !.runner = "submits"]
       \/ site' = [site EXCEPT !.runner = "waits"] \* switched off, reached its target, or all threads are busy
RunnerSubmits == RunnerAt("submits") /\ site' = SubmitsNext
\* Nothing runs and the machine was switched off, or registers a total; or something ends.
RunnerWaits == RunnerAt("waits") /\ \E next \in {"leaves", "asks"} : site' = [site EXCEPT !.runner = next]
RunnerLeaves == RunnerAt("leaves") /\ site' = [site EXCEPT !.runner = "gone", !.enabled = FALSE]
RunnerGone == RunnerAt("gone") /\ site' = [site EXCEPT !.runner = "none"]
\* The pool cannot be measured, or the settings not be stored: the thread ends when its registrations have.
RunnerFails ==
    \E stage \in {"asks", "submits", "waits", "leaves"} :
        RunnerAt(stage) /\ site' = [site EXCEPT !.runner = "gone", !.failed = TRUE]

\* A process that starts with the switch on starts the machine.
ResumedNever == [site EXCEPT !.runner = "none"]
Resumed == [site EXCEPT !.runner = IF site.enabled THEN "asks" ELSE "none", !.missed = FALSE, !.failed = FALSE]
MachineRestarts == Machine /\ Event("machine") /\ site' = Resumed /\ UNCHANGED <<page, calls>>
AnotherSwitches ==
    /\ Machine /\ Event("machine") /\ UNCHANGED <<page, calls>>
    /\ site' \in {MachineStarted, MachineStopped}

-----------------------------------------------------------------------------
(* The cards of the configuration and of authentication: a form that is saved as a whole, but for a   *)
(* secret that it never shows: the administrator's key, which the form does not have, or the password *)
(* of the mail server, which stays when it is left blank.                                             *)

EmptyForm(card) ==
    [at |-> "forms", card |-> card, mounted |-> TRUE, value |-> Nothing, secret |-> Nothing, loading |-> TRUE,
     saving |-> FALSE, testing |-> FALSE]
\* known: secrets that the page was told are stored.
FormsInit ==
    \E card \in {"config", "auth"} :
        /\ page = EmptyForm(card) /\ site = [value |-> 0, secret |-> 0, known |-> {}]
        /\ clicks = 0 /\ calls = {Load("form", Nothing)}

Forms == At("forms")
FormShown == Forms /\ page.mounted /\ ~page.loading /\ page.value # Nothing

FillsKept(got) == [page EXCEPT !.value = got.value]
Fills(got) == [page EXCEPT !.value = got.value, !.secret = Nothing]
FormLoaded(c) ==
    /\ Forms /\ c \in Answered("form")
    /\ page' = [IF c.got.ok THEN Fills(c.got) ELSE page EXCEPT !.loading = FALSE]
    /\ calls' = calls \ {c} /\ UNCHANGED <<site, clicks>>

EditForm ==
    /\ FormShown /\ Event("forms")
    /\ \/ page' = [page EXCEPT !.value = clicks']
       \/ page.card = "auth" /\ page' = [page EXCEPT !.secret = clicks']
    /\ UNCHANGED <<site, calls>>

SaveForm ==
    /\ FormShown /\ Event("forms") /\ ~page.saving
    /\ page' = [page EXCEPT !.saving = TRUE]
    /\ calls' = calls \cup {Asks("saveForm", [value |-> page.value, secret |-> page.secret])} /\ UNCHANGED site
FormSaved(c) ==
    /\ Forms /\ c \in Answered("saveForm")
    /\ page' = [IF c.got.ok THEN Fills(c.got) ELSE page EXCEPT !.saving = FALSE]
    /\ site' = IF c.got.ok THEN [site EXCEPT !.known = @ \cup {c.arg.secret}] ELSE site
    /\ calls' = calls \ {c} /\ UNCHANGED clicks

TestProxy ==
    /\ FormShown /\ Event("forms") /\ page.card = "config" /\ ~page.testing
    /\ page' = [page EXCEPT !.testing = TRUE] /\ calls' = calls \cup {Asks("test", page.value)} /\ UNCHANGED site
ProxyTested(c) ==
    /\ Forms /\ c \in Answered("test")
    /\ page' = [page EXCEPT !.testing = FALSE] /\ calls' = calls \ {c} /\ UNCHANGED <<site, clicks>>

\* The configuration is kept when the page is left, and its requests go on; the other card is not.
LeaveForms ==
    /\ Forms /\ page.mounted /\ Event("forms") /\ UNCHANGED site
    /\ IF page.card = "config"
       THEN page' = [page EXCEPT !.mounted = FALSE, !.testing = FALSE] /\ calls' = calls \ Under("test")
       ELSE page' = Left /\ calls' = {}
ReturnToForms ==
    /\ Forms /\ ~page.mounted /\ Load("form", Nothing) \notin calls
    /\ page' = [page EXCEPT !.mounted = TRUE, !.loading = TRUE] /\ calls' = calls \cup {Load("form", Nothing)}
    /\ UNCHANGED <<site, clicks>>

MergedSettings(new) == [site EXCEPT !.value = new.value, !.secret = IF new.secret = Nothing THEN @ ELSE new.secret]
ServeForm(c) ==
    /\ Forms /\ c \in calls /\ c.got = Nothing /\ UNCHANGED <<page, clicks>>
    /\ site' = IF c.op = "saveForm" THEN MergedSettings(c.arg) ELSE site
    /\ Served(c, [ok |-> TRUE, value |-> site'.value])
AnotherSaves ==
    /\ Forms /\ Event("forms") /\ UNCHANGED <<page, calls>>
    /\ \E secret \in {Nothing, clicks'} : site' = MergedSettings([value |-> clicks', secret |-> secret])

-----------------------------------------------------------------------------
(* The update card.  A release that was installed or restored waits for a restart; a container is     *)
(* replaced without one.                                                                              *)

\* null is no answer to what the card asks for, and no name of one of its checks.
ASSUME CardAssumption ==
    /\ Nothing # "updated"
    /\ Nothing \notin [ok : BOOLEAN] \cup [ok : BOOLEAN, needRestart : BOOLEAN]

EmptyCard(mode) ==
    [at |-> "update", mode |-> mode, status |-> Nothing, loading |-> TRUE, refreshing |-> FALSE, updating |-> FALSE,
     rolling |-> FALSE, restarting |-> FALSE, needsRestart |-> FALSE]
\* unclear: an answer was lost, or a restart was asked for during a rollback.
CardInit ==
    \E mode \in {"systemd", "docker"} :
        /\ page = EmptyCard(mode) /\ site = [newer |-> TRUE, due |-> FALSE, unclear |-> FALSE]
        /\ clicks = 0 /\ calls = {Load("status", Nothing)}

Card == At("update")
CardBusy == page.updating \/ page.rolling \/ page.restarting
CanUpdate == page.status = "newer" /\ ~page.needsRestart /\ ~CardBusy
CanRollback == page.status # Nothing /\ page.mode = "systemd" /\ ~CardBusy

\* Whichever check answers ends the loading of all of them; after an update without a restart the
\* update ends with the check.
StatusLoaded(c) ==
    /\ Card /\ c \in Answered("status")
    /\ page' = [page EXCEPT !.status = IF c.got.ok THEN c.got.status ELSE @, !.loading = FALSE, !.refreshing = FALSE,
                            !.updating = @ /\ c.arg # "updated"]
    /\ calls' = calls \ {c} /\ UNCHANGED <<site, clicks>>

CardShown == Card /\ ~(page.loading /\ page.status = Nothing)
RefreshStatus ==
    /\ CardShown /\ Event("update") /\ ~page.refreshing
    /\ page' = [page EXCEPT !.refreshing = TRUE] /\ calls' = calls \cup {Asks("status", Nothing)} /\ UNCHANGED site

HandleUpdate ==
    /\ CardShown /\ Event("update") /\ CanUpdate
    /\ page' = [page EXCEPT !.updating = TRUE] /\ calls' = calls \cup {Asks("update", Nothing)} /\ UNCHANGED site
UpdateAnswered(c) ==
    /\ Card /\ c \in Answered("update") /\ UNCHANGED <<site, clicks>>
    /\ IF c.got.ok /\ ~c.got.needRestart
       THEN /\ page' = [page EXCEPT !.needsRestart = FALSE, !.refreshing = TRUE]
            /\ calls' = (calls \ {c}) \cup {[c EXCEPT !.op = "status", !.arg = "updated", !.got = Nothing]}
       ELSE /\ page' = [page EXCEPT !.updating = FALSE, !.needsRestart = @ \/ c.got.ok]
            /\ calls' = calls \ {c}

HandleRollback ==
    /\ CardShown /\ Event("update") /\ CanRollback
    /\ page' = [page EXCEPT !.rolling = TRUE] /\ calls' = calls \cup {Asks("rollback", Nothing)} /\ UNCHANGED site
RollbackSilent(c) == [page EXCEPT !.rolling = FALSE]
RollbackDone(c) == [page EXCEPT !.rolling = FALSE, !.needsRestart = @ \/ c.got.ok]
RollbackAnswered(c) ==
    /\ Card /\ c \in Answered("rollback")
    /\ page' = RollbackDone(c) /\ calls' = calls \ {c} /\ UNCHANGED <<site, clicks>>

HandleRestart ==
    /\ CardShown /\ Event("update") /\ page.needsRestart /\ ~page.restarting
    /\ page' = [page EXCEPT !.restarting = TRUE] /\ calls' = calls \cup {Asks("restart", Nothing)}
    /\ site' = [site EXCEPT !.unclear = @ \/ page.rolling]
RestartAnswered(c) ==
    /\ Card /\ c \in Answered("restart")
    /\ page' = [page EXCEPT !.restarting = FALSE, !.needsRestart = @ /\ ~c.got.ok]
    /\ calls' = calls \ {c} /\ UNCHANGED <<site, clicks>>

\* An update is refused while a release waits for a restart, until when the old one answers and names
\* its own version; a rollback is refused when there is nothing to roll back to.
ServeCard(c) ==
    /\ Card /\ c \in calls /\ c.got = Nothing /\ UNCHANGED <<page, clicks>>
    /\ \/ /\ c.op = "status" /\ UNCHANGED site
          /\ Served(c, [ok |-> TRUE, status |-> IF site.newer THEN "newer" ELSE "newest"])
       \/ /\ c.op = "update" /\ site.newer /\ ~site.due
          /\ site' \in IF page.mode = "systemd" THEN {[site EXCEPT !.due = TRUE]}
                      ELSE {[site EXCEPT !.newer = newer] : newer \in BOOLEAN}
          /\ Served(c, [ok |-> TRUE, needRestart |-> page.mode = "systemd"])
       \/ /\ c.op = "rollback" /\ site' = [site EXCEPT !.due = TRUE] /\ Served(c, [ok |-> TRUE])
       \/ /\ c.op = "restart" /\ Served(c, [ok |-> TRUE])
          /\ \E newer \in BOOLEAN : site' = [site EXCEPT !.due = FALSE, !.newer = newer]
       \/ /\ c.op \in {"update", "rollback", "restart"} /\ Served(c, Failure) /\ UNCHANGED site
CardFails(c) ==
    /\ Card /\ Event("update") /\ c \in calls /\ c.got # Failure /\ Served(c, Failure) /\ UNCHANGED page
    /\ site' = [site EXCEPT !.unclear = @ \/ c.got # Nothing]

-----------------------------------------------------------------------------
SettingsFails(c) == (Machine \/ Forms) /\ Event(page.at) /\ c \in calls /\ c.got # Failure /\ Fails(c)

SettingsInit == MachineInit \/ FormsInit \/ CardInit
SettingsStep ==
    \/ RunnerAsks \/ RunnerSubmits \/ RunnerWaits \/ RunnerLeaves \/ RunnerGone \/ RunnerFails
    \/ \E c \in calls :
          \/ RegisterLoaded(c) \/ StartRegister(c) \/ RegisterAsked(c) \/ ServeMachine(c)
          \/ FormLoaded(c) \/ FormSaved(c) \/ ProxyTested(c) \/ ServeForm(c)
          \/ StatusLoaded(c) \/ UpdateAnswered(c) \/ RollbackAnswered(c) \/ RestartAnswered(c) \/ ServeCard(c)
SettingsNext ==
    \/ SettingsStep \/ RegisterPoll \/ EditRegister \/ SaveRegister \/ ResetRegister \/ ToggleRegister
    \/ LeaveMachine \/ ReturnToMachine \/ MachineRestarts \/ AnotherSwitches
    \/ EditForm \/ SaveForm \/ TestProxy \/ LeaveForms \/ ReturnToForms \/ AnotherSaves
    \/ RefreshStatus \/ HandleUpdate \/ HandleRollback \/ HandleRestart
    \/ \E c \in calls : SettingsFails(c) \/ CardFails(c)

-----------------------------------------------------------------------------
\* What was typed on the page of the register machine and not saved yet is changed by typing only, however
\* many polls asked before and answer after.
RegisterDraftKept ==
    [][Machine /\ page.dirty /\ page'.at = "machine" /\ page'.dirty =>
         page'.value = page.value \/ (clicks' = clicks + 1 /\ calls' = calls)]_pageVars

\* After the machine was stopped, it begins one more registration at most: the one it had looked at the
\* switch for.
RegistersOneAfterStop == Machine => site.late <= 1

\* A machine that is switched on has a runner, across restarts and switching by two administrators,
\* unless a start came too late for the runner it found, or an exception ended the runner.
RegisterRuns == Machine => (site.enabled /\ site.runner = "none" => site.missed \/ site.failed)

\* Saving a form never takes a secret away that it does not show, and a secret that the page knows to be
\* stored is not sent a second time, over what another administrator stored since.
SettingsSecretsKept ==
    Forms => site.secret # Nothing /\ \A c \in Pending("saveForm") : c.arg.secret \notin site.known \ {Nothing}

\* A release that the page installed or restored, and that waits for a restart, has its button once all
\* is answered, unless an answer was lost or a restart was asked for during a rollback.
RestartStaysOffered == Card /\ calls = {} /\ site.due /\ ~site.unclear => page.needsRestart

\* What a page waits for is under way.
SettingsPagesSettle ==
    /\ Machine => /\ page.loading => Load("machine", "shown") \in calls \/ \E c \in Answered("machine") : c.arg = "shown"
                  /\ page.saving => \E c \in calls : c.op # "machine"
    /\ Forms => /\ page.loading => Under("form") # {}
                /\ page.saving => Under("saveForm") # {}
                /\ page.testing => Under("test") # {}
    /\ Card => /\ page.loading \/ page.refreshing => Under("status") # {}
               /\ page.updating => \E c \in calls : c.op = "update" \/ (c.op = "status" /\ c.arg = "updated")
               /\ page.rolling => Under("rollback") # {}
               /\ page.restarting => Under("restart") # {}

\* The machine works while it is switched on, and stops soon after it is switched off.
RegisterFollowsSwitch == RegistersOneAfterStop /\ RegisterRuns
=============================================================================
