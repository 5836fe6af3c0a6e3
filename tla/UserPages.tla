------------------------------ MODULE UserPages ------------------------------
(***************************************************************************)
(* Where a user's coins come from: registering, redeeming codes, checking  *)
(* in (web/src/app/register, redeem and membership/page.tsx), and what the *)
(* site does for it (services/user_service.py).                            *)
(***************************************************************************)
EXTENDS WebPage

-----------------------------------------------------------------------------
(* Redeeming codes. *)

RedeemCodes == {1, 2}

EmptyRedeem == [at |-> "redeem", balance |-> 0, history |-> {}, loading |-> TRUE, loadError |-> FALSE,
                submitting |-> FALSE, feedback |-> "none"]

RedeemInit ==
    /\ page = EmptyRedeem
    /\ site = [used |-> {}, taken |-> {}, balance |-> 0]
    /\ clicks = 0 /\ calls = {[op |-> "history", arg |-> "load", by |-> 0, got |-> Nothing]}

\* The user and the history are fetched together, again after a failure.
RedeemRetry ==
    /\ Event("redeem") /\ page.loadError
    /\ page' = [page EXCEPT !.loading = TRUE, !.loadError = FALSE]
    /\ calls' = calls \cup {Asks("history", "load")} /\ UNCHANGED site

RedeemLoaded(c) ==
    /\ At("redeem") /\ c \in Answered("history") /\ c.arg = "load"
    /\ page' = IF c.got.ok
               THEN [page EXCEPT !.balance = c.got.balance, !.history = c.got.used, !.loading = FALSE]
               ELSE [page EXCEPT !.loadError = TRUE, !.loading = FALSE]
    /\ calls' = calls \ {c} /\ UNCHANGED <<site, clicks>>

\* The button waits for the last request; the Enter key does not.
HandleRedeem(code) ==
    /\ Event("redeem")
    /\ page' = [page EXCEPT !.submitting = TRUE, !.feedback = "none"]
    /\ calls' = calls \cup {Asks("redeem", code)} /\ UNCHANGED site

RedeemFreeToMe(code) == code \notin site.taken
RedeemFree(code) == code \notin site.used \cup site.taken
ServeRedeem(c) ==
    /\ At("redeem") /\ c \in Pending("redeem") /\ UNCHANGED <<page, clicks>>
    /\ IF RedeemFree(c.arg)
       THEN /\ site' = [site EXCEPT !.used = @ \cup {c.arg}, !.balance = @ + 1]
            /\ Served(c, [ok |-> TRUE, balance |-> site'.balance])
       ELSE Served(c, Failure) /\ UNCHANGED site

ServeHistory(c) ==
    /\ At("redeem") /\ c \in Pending("history")
    /\ Served(c, [ok |-> TRUE, balance |-> site.balance, used |-> site.used])
    /\ UNCHANGED <<page, site, clicks>>

\* A code that was redeemed is only reported when the history has been fetched after it.
RedeemAnswered(c) ==
    /\ At("redeem") /\ c \in Answered("redeem") /\ UNCHANGED <<site, clicks>>
    /\ IF c.got.ok
       THEN /\ page' = [page EXCEPT !.balance = c.got.balance]
            /\ calls' = (calls \ {c}) \cup {[op |-> "history", arg |-> "redeem", by |-> c.by, got |-> Nothing]}
       ELSE /\ page' = [page EXCEPT !.feedback = "error", !.submitting = FALSE]
            /\ calls' = calls \ {c}

RedeemReportedBusy(c) ==
    /\ At("redeem") /\ c \in Answered("history") /\ c.arg = "redeem"
    /\ page' = IF c.got.ok THEN [page EXCEPT !.history = c.got.used, !.feedback = "success"]
               ELSE [page EXCEPT !.feedback = "error"]
    /\ calls' = calls \ {c} /\ UNCHANGED <<site, clicks>>
RedeemReported(c) ==
    /\ At("redeem") /\ c \in Answered("history") /\ c.arg = "redeem"
    /\ page' = IF c.got.ok
               THEN [page EXCEPT !.history = c.got.used, !.feedback = "success", !.submitting = FALSE]
               ELSE [page EXCEPT !.feedback = "error", !.submitting = FALSE]
    /\ calls' = calls \ {c} /\ UNCHANGED <<site, clicks>>

\* Somebody else redeems a code.
CodeTaken(code) ==
    /\ Event("redeem") /\ RedeemFree(code)
    /\ site' = [site EXCEPT !.taken = @ \cup {code}] /\ UNCHANGED <<page, calls>>

RedeemStep(c) ==
    ServeRedeem(c) \/ ServeHistory(c) \/ RedeemLoaded(c) \/ RedeemAnswered(c) \/ RedeemReported(c)
RedeemNext == RedeemRetry \/ \E code \in RedeemCodes : HandleRedeem(code) \/ CodeTaken(code)

-----------------------------------------------------------------------------
(* Checking in. *)

EmptyMembership == [at |-> "membership", loading |-> TRUE, checkLoading |-> TRUE, error |-> FALSE,
                    status |-> Nothing, claiming |-> FALSE]

\* statusFromCheckinResponse: the status that the site tells, or the answer of a check-in, which does
\* not say that checking in is enabled and so reads as if it were not.
Offered == [enabled |-> TRUE, checked |-> site.checked]
Claimed(again) == [enabled |-> FALSE, checked |-> again]

\* loadMembershipData and loadCheckinStatus, of the page or of a check-in.
MemberLoads(by, of) == {[op |-> op, arg |-> of, by |-> by, got |-> Nothing] : op \in {"member", "status"}}
MemberLoading(from) == [from EXCEPT !.loading = TRUE, !.checkLoading = TRUE, !.error = FALSE]

MemberInit ==
    /\ page = EmptyMembership /\ site = [checked |-> FALSE] /\ clicks = 0
    /\ calls = MemberLoads(0, "page")

MemberRefresh ==
    /\ Event("membership") /\ ~page.loading /\ ~page.checkLoading
    /\ page' = MemberLoading(page) /\ calls' = calls \cup MemberLoads(clicks', "page") /\ UNCHANGED site

CheckinRetry ==
    /\ Event("membership") /\ page.error /\ ~page.checkLoading
    /\ page' = [page EXCEPT !.checkLoading = TRUE, !.error = FALSE]
    /\ calls' = calls \cup {Asks("status", "page")} /\ UNCHANGED site

CanCheckin ==
    /\ ~page.checkLoading /\ ~page.error /\ page.status # Nothing
    /\ page.status.enabled /\ ~page.status.checked /\ ~page.claiming
HandleClaimCheckin ==
    /\ Event("membership") /\ CanCheckin
    /\ page' = [page EXCEPT !.claiming = TRUE]
    /\ calls' = calls \cup {Asks("claim", Nothing)} /\ UNCHANGED site

\* The handler ends when both of its loads have ended, which never fail.
ClaimOver(c) == c.arg = "claim" /\ ~\E d \in calls \ {c} : d.op \in {"member", "status"} /\ d.arg = "claim"

ClaimAnsweredOnly(c) ==
    /\ At("membership") /\ c \in Answered("claim") /\ UNCHANGED <<site, clicks>>
    /\ page' = IF c.got.ok THEN [page EXCEPT !.status = c.got.status, !.claiming = FALSE]
               ELSE [page EXCEPT !.claiming = FALSE]
    /\ calls' = calls \ {c}
ClaimAnswered(c) ==
    /\ At("membership") /\ c \in Answered("claim") /\ UNCHANGED <<site, clicks>>
    /\ IF c.got.ok
       THEN /\ page' = MemberLoading([page EXCEPT !.status = c.got.status])
            /\ calls' = (calls \ {c}) \cup MemberLoads(c.by, "claim")
       ELSE page' = [page EXCEPT !.claiming = FALSE] /\ calls' = calls \ {c}

MemberLoaded(c) ==
    /\ At("membership") /\ c \in Answered("member")
    /\ page' = [page EXCEPT !.loading = FALSE, !.claiming = @ /\ ~ClaimOver(c)]
    /\ calls' = calls \ {c} /\ UNCHANGED <<site, clicks>>

CheckinLoaded(c) ==
    /\ At("membership") /\ c \in Answered("status")
    /\ page' = [page EXCEPT !.status = IF c.got.ok THEN c.got.status ELSE Nothing, !.error = @ \/ ~c.got.ok,
                            !.checkLoading = FALSE, !.claiming = @ /\ ~ClaimOver(c)]
    /\ calls' = calls \ {c} /\ UNCHANGED <<site, clicks>>

ServeMembership(c) ==
    /\ At("membership") /\ c \in calls /\ c.got = Nothing /\ UNCHANGED <<page, clicks>>
    /\ IF c.op = "claim"
       THEN site' = [checked |-> TRUE] /\ Served(c, [ok |-> TRUE, status |-> Claimed(site.checked)])
       ELSE Served(c, [ok |-> TRUE, status |-> Offered]) /\ UNCHANGED site

MembershipStep(c) == ServeMembership(c) \/ ClaimAnswered(c) \/ MemberLoaded(c) \/ CheckinLoaded(c)
MembershipNext == MemberRefresh \/ CheckinRetry \/ HandleClaimCheckin

-----------------------------------------------------------------------------
(* Registering. *)

Visitor == 1 \* on this page
Another == 2
MaxGuesses == 2 \* verify_max_attempts

EmptyRegister == [at |-> "register", settings |-> Nothing, loading |-> TRUE, submitting |-> FALSE, sending |-> FALSE]

\* The other visitor has a code already.  A code is the row it is kept in.
RegisterInit ==
    \E verify, invite \in BOOLEAN :
        /\ page = EmptyRegister
        /\ site = [settings |-> [verify |-> verify, invite |-> invite], accounts |-> {}, lock |-> Nothing,
                   codes |-> <<[who |-> Another, guesses |-> 0, used |-> FALSE]>>, gone |-> {},
                   invitation |-> [on |-> TRUE, by |-> 0], promo |-> [on |-> TRUE, used |-> 0]]
        /\ clicks = 0 /\ calls = {[op |-> "settings", arg |-> Nothing, by |-> 0, got |-> Nothing]}

HandleReloadSettings ==
    /\ Event("register") /\ ~page.loading /\ page.settings = Nothing
    /\ page' = [page EXCEPT !.loading = TRUE]
    /\ calls' = calls \cup {Asks("settings", Nothing)} /\ UNCHANGED site

ServeSettings(c) ==
    /\ At("register") /\ c \in Pending("settings")
    /\ Served(c, [ok |-> TRUE, settings |-> site.settings]) /\ UNCHANGED <<page, site, clicks>>

RegisterSettings(c) ==
    /\ At("register") /\ c \in Answered("settings")
    /\ page' = [page EXCEPT !.settings = IF c.got.ok THEN c.got.settings ELSE Nothing, !.loading = FALSE]
    /\ calls' = calls \ {c} /\ UNCHANGED <<site, clicks>>

RegisterForm == At("register") /\ ~page.loading /\ page.settings # Nothing

HandleSendCode ==
    /\ RegisterForm /\ Event("register") /\ page.settings.verify /\ ~page.sending /\ ~page.submitting
    /\ page' = [page EXCEPT !.sending = TRUE]
    /\ calls' = calls \cup {Asks("send", Visitor)} /\ UNCHANGED site

SendCodeDone(c) ==
    /\ At("register") /\ c \in Answered("send")
    /\ page' = [page EXCEPT !.sending = FALSE]
    /\ calls' = calls \ {c} /\ UNCHANGED <<site, clicks>>

\* Every field that the settings ask for is filled; the code may be any, or none that was sent.
HandleRegister ==
    RegisterForm /\ \E code \in 0 .. Len(site.codes), promo \in BOOLEAN :
        /\ Event("register") /\ ~page.submitting
        /\ page' = [page EXCEPT !.submitting = TRUE]
        /\ calls' = calls \cup {Asks("register", [who |-> Visitor, code |-> code, promo |-> promo])}
        /\ UNCHANGED site

\* The answer is stored as the session, and the page goes on to the one of a user.
RegisterAnswered(c) ==
    /\ At("register") /\ c \in Answered("register") /\ UNCHANGED <<site, clicks>>
    /\ page' = IF c.arg.who # Visitor THEN page
               ELSE IF c.got.ok THEN Left ELSE [page EXCEPT !.submitting = FALSE]
    /\ calls' = calls \ {c}

\* Another visitor registers, with the same invitation and promotion code.
AnotherVisitor ==
    \E promo \in BOOLEAN :
        /\ Event("register")
        /\ calls' = calls \cup {Asks("register", [who |-> Another, code |-> 1, promo |-> promo])}
        /\ UNCHANGED <<page, site>>

\* An administrator disables the invitation or the promotion code.
CodesWithdrawn ==
    /\ Event("register") /\ UNCHANGED <<page, calls>>
    /\ \/ site.invitation.on /\ site' = [site EXCEPT !.invitation.on = FALSE]
       \/ site.promo.on /\ site' = [site EXCEPT !.promo.on = FALSE]

Registering == "accounts" \in DOMAIN site
Registered(who) == \E a \in site.accounts : a.who = who
InvitationEnabled == site.invitation.on
InvitationFree == site.invitation.on /\ site.invitation.by = 0
PromoFree == site.promo.on /\ site.promo.used < 1 \* max_uses

\* The codes that were sent to a visitor, of which the newest one that is not used counts.
CodeRows(who) == {n \in 1 .. Len(site.codes) \ site.gone : site.codes[n].who = who /\ ~site.codes[n].used}
ValidRow(who) == {n \in CodeRows(who) : \A m \in CodeRows(who) : m <= n}
Guessable(who) == {n \in ValidRow(who) : site.codes[n].guesses < MaxGuesses}
Guessed(who) ==
    [n \in DOMAIN site.codes |->
        IF n \in Guessable(who) THEN [site.codes[n] EXCEPT !.guesses = @ + 1] ELSE site.codes[n]]
Spent(row) == [n \in DOMAIN site.codes |-> [site.codes[n] EXCEPT !.used = @ \/ n \in row]]

\* A code is stored, unless one was sent a short time ago; then it is mailed, or discarded when that fails.
StoreCode(c) ==
    /\ Registering /\ c \in Pending("send") /\ UNCHANGED <<page, clicks>>
    /\ \/ /\ ~Registered(c.arg)
          /\ site' = [site EXCEPT !.codes = Append(@, [who |-> c.arg, guesses |-> 0, used |-> FALSE])]
          /\ calls' = (calls \ {c}) \cup {[c EXCEPT !.op = "mailing", !.got = Len(site.codes) + 1]}
       \/ /\ Registered(c.arg) \/ \E n \in DOMAIN site.codes \ site.gone : site.codes[n].who = c.arg
          /\ Served(c, Failure) /\ UNCHANGED site
MailCode(c) ==
    /\ Registering /\ c \in Under("mailing") /\ UNCHANGED <<page, clicks>>
    /\ \/ UNCHANGED site /\ calls' = (calls \ {c}) \cup {[c EXCEPT !.op = "send", !.got = [ok |-> TRUE]]}
       \/ /\ site' = IF site.codes[c.got].used THEN site ELSE [site EXCEPT !.gone = @ \cup {c.got}]
          /\ calls' = (calls \ {c}) \cup {[c EXCEPT !.op = "send", !.got = Failure]}

\* A registration holds a lock, reads, and then writes what still is as it was read.  Others change
\* codes without the lock.  A wrong guess is written at once.
Refused(c) == Served(c, Failure)
CheckRegistration(c) ==
    LET who == c.arg.who
        guessed == ~site.settings.verify \/ c.arg.code \in Guessable(who)
    IN
    /\ Registering /\ c \in Pending("register") /\ site.lock = Nothing /\ UNCHANGED <<page, clicks>>
    /\ IF Registered(who) THEN Refused(c) /\ UNCHANGED site
       ELSE IF ~guessed
       THEN /\ Refused(c)
            /\ site' = [site EXCEPT !.codes = Guessed(who)]
       ELSE IF (site.settings.invite => InvitationFree) /\ (c.arg.promo => PromoFree)
       THEN /\ site' = [site EXCEPT !.lock = c.by]
            /\ calls' = (calls \ {c}) \cup {[c EXCEPT !.op = "registering"]}
       ELSE Refused(c) /\ UNCHANGED site

CommitRegistration(c) ==
    LET who == c.arg.who
        unlocked == [site EXCEPT !.lock = Nothing]
        row == IF site.settings.verify THEN {c.arg.code} ELSE {}
        fits == /\ \A n \in row : n \notin site.gone /\ ~site.codes[n].used
                /\ site.settings.invite => InvitationFree
                /\ c.arg.promo => PromoFree
        answer == IF fits THEN [ok |-> TRUE] ELSE Failure
    IN
    /\ Registering /\ c \in Under("registering") /\ UNCHANGED <<page, clicks>>
    /\ calls' = (calls \ {c}) \cup {[c EXCEPT !.op = "register", !.got = answer]}
    /\ site' = IF ~fits THEN unlocked
               ELSE [unlocked EXCEPT
                       !.accounts = @ \cup {[who |-> who, promo |-> c.arg.promo, row |-> row]},
                       !.codes = Spent(row),
                       !.invitation.by = IF site.settings.invite THEN who ELSE @,
                       !.promo.used = @ + (IF c.arg.promo THEN 1 ELSE 0)]

RegisterStep(c) ==
    \/ ServeSettings(c) \/ RegisterSettings(c) \/ SendCodeDone(c) \/ RegisterAnswered(c)
    \/ StoreCode(c) \/ MailCode(c) \/ CheckRegistration(c) \/ CommitRegistration(c)
RegisterNext ==
    HandleReloadSettings \/ HandleSendCode \/ HandleRegister \/ AnotherVisitor \/ CodesWithdrawn

-----------------------------------------------------------------------------
UserPageNames == {"redeem", "membership", "register"}
UserPageFails(c) ==
    /\ page.at \in UserPageNames /\ Event(page.at)
    /\ c \in calls /\ c.op \notin {"mailing", "registering"} /\ c.got # Failure /\ Fails(c)
LeaveUserPage ==
    /\ page.at \in UserPageNames \ {"register"} /\ Event(page.at)
    /\ page' = Left /\ calls' = {} /\ UNCHANGED site

UserInit == RedeemInit \/ MemberInit \/ RegisterInit
UserStep == \E c \in calls : RedeemStep(c) \/ MembershipStep(c) \/ RegisterStep(c)
UserNext ==
    \/ UserStep \/ LeaveUserPage \/ (\E c \in calls : UserPageFails(c))
    \/ RedeemNext \/ MembershipNext \/ RegisterNext

-----------------------------------------------------------------------------
\* A code pays one user once, however often it is sent: what was paid is what the user's codes are worth.
RedeemPaysOnce ==
    At("redeem") => site.balance = Cardinality(site.used) /\ site.used \cap site.taken = {}

\* A page that shows a status of checking in shows that it is enabled, as it is here: what the
\* answer of a check-in leaves out is never on screen, whichever of the loads ends first.
CheckinStaysOffered ==
    At("membership") /\ ~page.checkLoading /\ page.status # Nothing => page.status.enabled

\* Accounts and what they were made with fit: one account for an email address and for an
\* invitation, one use of the promotion code for each account that has its coins, never more than
\* it allows, and a code of its own, that was not guessed too often, where codes are asked for.
RegistrationsPaidFor ==
    Registering =>
        LET paid == {a \in site.accounts : a.promo} IN
        /\ site.promo.used = Cardinality(paid) /\ site.promo.used <= 1
        /\ \A a, b \in site.accounts : a # b => a.who # b.who /\ a.row \cap b.row = {}
        /\ site.settings.invite => /\ Cardinality(site.accounts) <= 1
                                   /\ \A a \in site.accounts : site.invitation.by = a.who
        /\ site.settings.verify =>
             \A a \in site.accounts : \E n \in a.row : site.codes[n].who = a.who /\ site.codes[n].guesses < MaxGuesses

\* What a page waits for is under way.
UserPagesSettle ==
    /\ At("redeem") =>
         /\ page.loading => \E c \in Under("history") : c.arg = "load"
         /\ page.submitting => \E c \in calls : c.op = "redeem" \/ c.arg = "redeem"
    /\ At("membership") =>
         /\ page.loading => Under("member") # {}
         /\ page.checkLoading => Under("status") # {}
         /\ page.claiming => \E c \in calls : c.op = "claim" \/ c.arg = "claim"
    /\ At("register") =>
         /\ page.loading => Under("settings") # {}
         /\ page.sending => Under("send") \cup Under("mailing") # {}
         /\ page.submitting => \E c \in Under("register") \cup Under("registering") : c.arg.who = Visitor

\* A code of any kind pays for what it was given for, once, however often and in whatever order the
\* requests that carry it are sent, answered and lost.
CodesPayOnce == RedeemPaysOnce /\ RegistrationsPaidFor
=============================================================================
