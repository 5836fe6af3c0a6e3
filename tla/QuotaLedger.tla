---------------------------- MODULE QuotaLedger ----------------------------
(***************************************************************************)
(* The dog-coin (GGB) ledger of services/user_service.py: what a user may  *)
(* spend on images, what a running request has set aside, and what comes   *)
(* back when the request ends, fails, is lost or outlives its period.      *)
(*                                                                         *)
(* Each action is one service call.  The calls that touch these rows are   *)
(* atomic in the program: they run on the single event-loop thread or hold *)
(* _quota_lock, and each writes in one database transaction.  The recovery *)
(* of stale reservations is one transaction over many rows; it is split    *)
(* into one step per row, and no other action runs until it is finished.   *)
(***************************************************************************)
EXTENDS Integers, FiniteSets

CONSTANTS
    Users,        \* accounts with role "user" (admins bypass the ledger)
    Slots,        \* image usage events that may ever be created
    Codes,        \* redeem codes
    CodeGrant,    \* [Codes -> what the code gives]
    Counts,       \* image counts a request may ask for
    Deliveries,   \* image counts a settlement may report
    ImageCost,    \* IMAGE_COST_GGB
    InitialQuota, \* coins an account is created with
    InitialConcurrency,
    ManagedUsers, ManagedCodes,  \* rows an administrator edits in this instance
    AdminQuotas,  \* balances an administrator may type in
    AdminLimits,  \* concurrency limits an administrator may type in
    CheckinEnabled, DailyReward,            \* check-in settings
    BonusEvery, BonusReward,                \* streak bonus, 0 days: no bonus
    StaleAfter,   \* age at which a reservation counts as abandoned
    Throttle,     \* least time between two recovery passes
    MaxTime,      \* bound of the clock
    None

\* A code gives coins, concurrency or a membership with its plan snapshot;
\* fields that do not apply to the type are 1.
Plans  == [duration : Nat \ {0}, period : Nat \ {0}, quota : Nat]
Grants == [type : {"image_quota", "concurrency", "membership"},
           value : Nat \ {0}, plan : Plans, expires : Nat]

ASSUME LedgerAssumption ==
    /\ IsFiniteSet(Slots) /\ IsFiniteSet(Codes)
    /\ CodeGrant \in [Codes -> Grants]
    /\ Counts \subseteq Nat \ {0}
    /\ Deliveries \subseteq Nat
    /\ ImageCost \in Nat \ {0}
    /\ InitialQuota \in Nat
    /\ InitialConcurrency \in Nat \ {0}
    /\ ManagedUsers \subseteq Users /\ ManagedCodes \subseteq Codes
    /\ AdminQuotas \subseteq Int
    /\ AdminLimits \subseteq Int
    /\ CheckinEnabled \in BOOLEAN
    /\ DailyReward \in Nat /\ BonusEvery \in Nat /\ BonusReward \in Nat
    /\ StaleAfter \in Nat
    /\ Throttle \in Nat \ {0}
    /\ MaxTime \in Nat
    /\ None \notin Users \cup Nat

VARIABLES
    now,                 \* the clock, in units of a check-in day
    exists, enabled,     \* users.id, users.enabled
    imageQuota,          \* users.image_quota
    imageConcurrency,    \* users.image_concurrency
    activeRequests,      \* users.active_image_requests
    membership,          \* user_memberships, at most one row per user
    activations,         \* memberships activated so far (stands for activated_at)
    events,              \* image_usage_events
    codes,               \* redeem_codes
    streakOn,            \* daily_checkins: the streak recorded on a day, 0 for no row
    live,                \* reservations some running request still holds
    recovering,          \* stale events of the recovery pass under way
    lastRecovery,        \* _LAST_STALE_RECOVERY_AT
    adjustment           \* sum of the changes administrators made to the balance

userVars   == <<exists, enabled, imageQuota, imageConcurrency, activeRequests>>
memberVars == <<membership, activations>>
passVars   == <<recovering, lastRecovery>>
vars == <<now, userVars, memberVars, events, codes, streakOn, live, passVars,
          adjustment>>

Minimum(a, b) == IF a <= b THEN a ELSE b
Maximum(a, b) == IF a >= b THEN a ELSE b

-----------------------------------------------------------------------------
(* Rows *)

\* The activation key stored with an event: which activation of which
\* membership, and which of its periods, paid for the member part.
Keys  == [activation : Nat, start : Nat, end : Nat]
NoKey == [activation |-> 0, start |-> 0, end |-> 0]

Memberships == [status : {"none", "active", "expired"}, key : Keys,
                expires : Nat, quota : Nat, plan : Plans]
NoMembership == [status |-> "none", key |-> NoKey, expires |-> 0, quota |-> 0,
                 plan |-> [duration |-> 1, period |-> 1, quota |-> 0]]

Final  == {"success", "failed", "recovered"}
Events == [status : {"unused", "reserved"} \cup Final, user : Users \cup {None},
           requested : Nat, created : Nat, key : Keys,
           member : Nat, regular : Nat,              \* reserved coins
           actual : Nat, memberActual : Nat, regularActual : Nat]
NoEvent == [status |-> "unused", user |-> None, requested |-> 0, created |-> 0,
            key |-> NoKey, member |-> 0, regular |-> 0,
            actual |-> 0, memberActual |-> 0, regularActual |-> 0]

CodeRows == [present : BOOLEAN, enabled : BOOLEAN, usedBy : Users \cup {None}]
Days     == 0 .. MaxTime

TypeOK ==
    /\ now \in 0 .. MaxTime
    /\ exists \in [Users -> BOOLEAN]
    /\ enabled \in [Users -> BOOLEAN]
    /\ imageQuota \in [Users -> Nat]
    /\ imageConcurrency \in [Users -> Nat]
    /\ activeRequests \in [Users -> Nat]
    /\ membership \in [Users -> Memberships]
    /\ activations \in Nat
    /\ events \in [Slots -> Events]
    /\ codes \in [Codes -> CodeRows]
    /\ streakOn \in [Users -> [Days -> Nat]]
    /\ live \in SUBSET Slots
    /\ recovering \in SUBSET Slots
    /\ lastRecovery \in Nat \cup {None}
    /\ adjustment \in [Users -> Int]

Init ==
    /\ now = 0
    /\ exists = [u \in Users |-> TRUE]
    /\ enabled = [u \in Users |-> TRUE]
    /\ imageQuota = [u \in Users |-> InitialQuota]
    /\ imageConcurrency = [u \in Users |-> InitialConcurrency]
    /\ activeRequests = [u \in Users |-> 0]
    /\ membership = [u \in Users |-> NoMembership]
    /\ activations = 0
    /\ events = [e \in Slots |-> NoEvent]
    /\ codes = [c \in Codes |-> [present |-> TRUE, enabled |-> TRUE, usedBy |-> None]]
    /\ streakOn = [u \in Users |-> [d \in Days |-> 0]]
    /\ live = {}
    /\ recovering = {}
    /\ lastRecovery = 0       \* the constructor ran a pass at start-up
    /\ adjustment = [u \in Users |-> 0]

Reserved == {e \in Slots : events[e].status = "reserved"}

-----------------------------------------------------------------------------
(* Membership periods *)

\* The period the refresh loop stops in: whole periods are skipped from the
\* stored start until the one that contains t, the last one cut at expiry.
PeriodAt_NeverRolls(m, t) == m.key       \* mutant
PeriodAt(m, t) ==
    IF t < m.key.end \/ m.key.end >= m.expires
    THEN m.key
    ELSE LET start == m.key.start
                      + m.plan.period * ((t - m.key.start) \div m.plan.period)
         IN  [m.key EXCEPT !.start = start,
                           !.end = Minimum(start + m.plan.period, m.expires)]

\* _refresh_user_membership: expire, or roll the period and refill it.
Refreshed(m, t) ==
    IF m.status = "none" THEN m
    ELSE IF m.expires <= t
    THEN [m EXCEPT !.status = "expired", !.quota = 0]
    ELSE LET key == PeriodAt(m, t)
         IN  IF key = m.key /\ m.status = "active" THEN m
             ELSE [m EXCEPT !.status = "active", !.key = key, !.quota = m.plan.quota]

\* _membership_refund_matches, for events that carry the full activation key.
RefundMatches_AnyMembership(m, event) == m.status # "none"   \* mutant
RefundMatches(m, event) ==
    m.status # "none" /\ m.key = event.key

\* Crediting the member part of a refund; lost when the period is over.
WithRefund(m, event, coins) ==
    IF coins > 0 /\ RefundMatches(m, event)
    THEN [m EXCEPT !.quota = @ + coins] ELSE m

-----------------------------------------------------------------------------
(* Stale recovery.  A pass runs when a reservation is asked for and the last *)
(* pass is at least Throttle old, and at every start of the service.         *)

RecoveryDue_OncePerProcess == lastRecovery = None   \* mutant
RecoveryDue == lastRecovery = None \/ now - lastRecovery >= Throttle
Stale == {e \in Reserved : events[e].created + StaleAfter <= now}
Quiet == recovering = {}

StartRecovery ==
    /\ Quiet
    /\ RecoveryDue
    /\ recovering' = Stale
    /\ lastRecovery' = now
    /\ UNCHANGED <<now, userVars, memberVars, events, codes, streakOn, live, adjustment>>

\* What a settlement or a recovery does to the event's owner.
Release(e, memberRefund, regularRefund) ==
    LET u == events[e].user
    IN  /\ membership' = [membership EXCEPT ![u] = WithRefund(@, events[e], memberRefund)]
        /\ imageQuota' = [imageQuota EXCEPT ![u] = @ + regularRefund]
        /\ activeRequests' = [activeRequests EXCEPT ![u] = IF @ > 0 THEN @ - 1 ELSE 0]

RecoverOne(e) ==
    /\ e \in recovering
    /\ recovering' = recovering \ {e}
    /\ events' = [events EXCEPT ![e].status = "recovered"]
    /\ Release(e, events[e].member, events[e].regular)
    /\ UNCHANGED <<now, exists, enabled, imageConcurrency, activations, codes,
                   streakOn, live, lastRecovery, adjustment>>

\* The process dies and starts again: requests in flight are gone, and the
\* constructor runs a recovery pass at once.
Restart ==
    /\ Quiet
    /\ live' = {}
    /\ recovering' = Stale
    /\ lastRecovery' = now
    /\ UNCHANGED <<now, userVars, memberVars, events, codes, streakOn, adjustment>>

-----------------------------------------------------------------------------
(* Requests *)

\* require_identity: a valid token refreshes the membership and commits.
Authenticate(u) ==
    /\ Quiet
    /\ exists[u] /\ enabled[u]
    /\ membership' = [membership EXCEPT ![u] = Refreshed(@, now)]
    /\ UNCHANGED <<now, userVars, activations, events, codes, streakOn, live,
                   passVars, adjustment>>

\* reserve_image_quota.  The recovery pass it starts with is StartRecovery;
\* every early return (401, 429) rolls back and changes nothing.  Member coins
\* are spent first.
Reserve(u, e, n) ==
    LET m          == Refreshed(membership[u], now)
        available  == IF m.status = "active" THEN m.quota ELSE 0
        amount     == n * ImageCost
        memberUse  == Minimum(available, amount)
        regularUse == amount - memberUse
        limit      == IF imageConcurrency[u] = 0 THEN 1 ELSE imageConcurrency[u]
    IN  /\ Quiet /\ ~RecoveryDue
        /\ events[e].status = "unused"
        /\ exists[u] /\ enabled[u]
        /\ activeRequests[u] < limit
        /\ available + imageQuota[u] >= amount
        /\ membership' = [membership EXCEPT ![u] =
                             [m EXCEPT !.quota = Maximum(0, @ - memberUse)]]
        /\ imageQuota' = [imageQuota EXCEPT ![u] = Maximum(0, @ - regularUse)]
        /\ activeRequests' = [activeRequests EXCEPT ![u] = @ + 1]
        /\ events' = [events EXCEPT ![e] =
                         [NoEvent EXCEPT !.status = "reserved", !.user = u,
                                         !.requested = n, !.created = now,
                                         !.key = IF memberUse > 0 THEN m.key ELSE NoKey,
                                         !.member = memberUse,
                                         !.regular = regularUse]]
        /\ live' = live \cup {e}
        /\ UNCHANGED <<now, exists, enabled, imageConcurrency, activations, codes,
                       streakOn, passVars, adjustment>>

\* The split of a settlement over the two purses.
MemberActual(event, coins)  == Minimum(event.member, coins)
\* mutant: the member part is charged again
RegularActual_MemberForgotten(event, coins) == Minimum(event.regular, coins)
RegularActual(event, coins) ==
    Minimum(event.regular, Maximum(0, coins - MemberActual(event, coins)))

\* The row the settlement's UPDATE matches.
Settleable_ById(e) == e \in Slots      \* mutant: WHERE without the status
Settleable(e) == events[e].status = "reserved"

\* settle_image_quota, called by whoever still holds the reservation and
\* possibly more than once: a call that matches no row rolls back.
Settle(e, success, delivered) ==
    LET actual == IF success
                  THEN Maximum(0, Minimum(delivered, events[e].requested)) ELSE 0
        coins  == actual * ImageCost
        paidMember  == MemberActual(events[e], coins)
        paidRegular == RegularActual(events[e], coins)
    IN  /\ Quiet
        /\ e \in live
        /\ Settleable(e)
        /\ events' = [events EXCEPT ![e].status = IF success THEN "success" ELSE "failed",
                                    ![e].actual = actual,
                                    ![e].memberActual = paidMember,
                                    ![e].regularActual = paidRegular]
        /\ Release(e, Maximum(0, events[e].member - paidMember),
                      Maximum(0, events[e].regular - paidRegular))
        /\ UNCHANGED <<now, exists, enabled, imageConcurrency, activations, codes,
                       streakOn, live, passVars, adjustment>>

\* The request is over, settled or not (a stream nobody closed, a crash of
\* its thread): nobody will settle its reservation any more.
EndRequest(e) ==
    /\ e \in live
    /\ live' = live \ {e}
    /\ UNCHANGED <<now, userVars, memberVars, events, codes, streakOn, passVars,
                   adjustment>>

-----------------------------------------------------------------------------
(* Grants *)

\* _find_valid_redeem_code and the WHERE of the UPDATE that takes the code.
Usable_Again(c) == codes[c].present /\ codes[c].enabled /\ CodeGrant[c].expires >= now   \* mutant
Usable(c) == codes[c].present /\ codes[c].enabled /\ codes[c].usedBy = None
             /\ CodeGrant[c].expires >= now

Activated(plan) ==
    [status |-> "active", quota |-> plan.quota, plan |-> plan,
     expires |-> now + plan.duration,
     key |-> [activation |-> activations + 1, start |-> now,
              end |-> now + Minimum(plan.period, plan.duration)]]

\* redeem: take the code, apply what it gives, refresh.
Redeem(u, c) ==
    LET grant == CodeGrant[c]
    IN  /\ Quiet
        /\ exists[u] /\ enabled[u]
        /\ Usable(c)
        /\ codes' = [codes EXCEPT ![c].usedBy = u]
        /\ imageQuota' = [imageQuota EXCEPT ![u] =
               @ + IF grant.type = "image_quota" THEN grant.value ELSE 0]
        /\ imageConcurrency' = [imageConcurrency EXCEPT ![u] =
               @ + IF grant.type = "concurrency" THEN grant.value ELSE 0]
        /\ membership' = [membership EXCEPT ![u] =
               Refreshed(IF grant.type = "membership" THEN Activated(grant.plan) ELSE @, now)]
        /\ activations' = activations + IF grant.type = "membership" THEN 1 ELSE 0
        /\ UNCHANGED <<now, exists, enabled, activeRequests, events, streakOn, live,
                       passVars, adjustment>>

\* Streak and reward of a check-in today.
\* mutant: the streak survives a missed day
StreakToday_NoReset(u) ==
    LET before == {d \in Days : d < now /\ streakOn[u][d] > 0}
    IN  IF before = {} THEN 1
        ELSE 1 + streakOn[u][CHOOSE d \in before : \A x \in before : x <= d]
StreakToday(u) == IF now > 0 /\ streakOn[u][now - 1] > 0
                  THEN streakOn[u][now - 1] + 1 ELSE 1
Reward(streak) ==
    DailyReward + IF BonusEvery > 0 /\ streak % BonusEvery = 0 THEN BonusReward ELSE 0

\* checkin: one row per user and day, the reward credited with it.
Checkin(u) ==
    /\ Quiet
    /\ CheckinEnabled
    /\ exists[u] /\ enabled[u]
    /\ streakOn[u][now] = 0
    /\ streakOn' = [streakOn EXCEPT ![u][now] = StreakToday(u)]
    /\ imageQuota' = [imageQuota EXCEPT ![u] = @ + Reward(StreakToday(u))]
    /\ membership' = [membership EXCEPT ![u] = Refreshed(@, now)]
    /\ UNCHANGED <<now, exists, enabled, imageConcurrency, activeRequests, activations,
                   events, codes, live, passVars, adjustment>>

-----------------------------------------------------------------------------
(* Administration *)

\* _payload_int: what is stored for a balance somebody typed in.
BalanceInput_NotClamped(coins) == coins   \* mutant: no lower bound
BalanceInput(coins) == Maximum(0, coins)

\* update_user with a balance: the balance is overwritten, whatever is
\* reserved at the moment stays reserved.
SetQuota(u, coins) ==
    /\ Quiet /\ exists[u]
    /\ imageQuota' = [imageQuota EXCEPT ![u] = BalanceInput(coins)]
    /\ adjustment' = [adjustment EXCEPT ![u] = @ + BalanceInput(coins) - imageQuota[u]]
    /\ UNCHANGED <<now, exists, enabled, imageConcurrency, activeRequests, memberVars,
                   events, codes, streakOn, live, passVars>>

\* update_user with a concurrency limit, at least 1 for role "user".
SetConcurrency(u, limit) ==
    /\ Quiet /\ exists[u]
    /\ imageConcurrency' = [imageConcurrency EXCEPT ![u] = Maximum(1, limit)]
    /\ UNCHANGED <<now, exists, enabled, imageQuota, activeRequests, memberVars, events,
                   codes, streakOn, live, passVars, adjustment>>

\* update_user with enabled.
SetEnabled(u, on) ==
    /\ Quiet /\ exists[u]
    /\ enabled' = [enabled EXCEPT ![u] = on]
    /\ UNCHANGED <<now, exists, imageQuota, imageConcurrency, activeRequests, memberVars,
                   events, codes, streakOn, live, passVars, adjustment>>

\* mutant: image usage is not counted as history
HasHistory_NoEvents(u) ==
    \/ \E d \in Days : streakOn[u][d] > 0
    \/ \E c \in Codes : codes[c].present /\ codes[c].usedBy = u
HasHistory(u) ==
    \/ \E e \in Slots : events[e].user = u
    \/ \E d \in Days : streakOn[u][d] > 0
    \/ \E c \in Codes : codes[c].present /\ codes[c].usedBy = u

\* delete_user: an account with history is only disabled.
DeleteUser(u) ==
    /\ Quiet /\ exists[u]
    /\ exists' = [exists EXCEPT ![u] = HasHistory(u)]
    /\ enabled' = [enabled EXCEPT ![u] = FALSE]
    /\ UNCHANGED <<now, imageQuota, imageConcurrency, activeRequests, memberVars, events,
                   codes, streakOn, live, passVars, adjustment>>

\* update_redeem_code with enabled; delete_redeem_code.
SetCodeEnabled(c, on) ==
    /\ Quiet /\ codes[c].present
    /\ codes' = [codes EXCEPT ![c].enabled = on]
    /\ UNCHANGED <<now, userVars, memberVars, events, streakOn, live, passVars, adjustment>>

DeleteCode(c) ==
    /\ Quiet /\ codes[c].present
    /\ codes' = [codes EXCEPT ![c].present = FALSE]
    /\ UNCHANGED <<now, userVars, memberVars, events, streakOn, live, passVars, adjustment>>

Tick ==
    /\ Quiet
    /\ now < MaxTime
    /\ now' = now + 1
    /\ UNCHANGED <<userVars, memberVars, events, codes, streakOn, live, passVars, adjustment>>

-----------------------------------------------------------------------------
(* Specification *)

UserStep(u) ==
    \/ Authenticate(u)
    \/ \E e \in Slots, n \in Counts : Reserve(u, e, n)
    \/ \E c \in Codes : Redeem(u, c)
    \/ Checkin(u)

RequestStep(e) ==
    \/ \E success \in BOOLEAN, k \in Deliveries : Settle(e, success, k)
    \/ EndRequest(e)

AdminStep(u) ==
    \/ \E coins \in AdminQuotas : SetQuota(u, coins)
    \/ \E limit \in AdminLimits : SetConcurrency(u, limit)
    \/ \E on \in BOOLEAN : SetEnabled(u, on)
    \/ DeleteUser(u)

CodeStep(c) ==
    \/ \E on \in BOOLEAN : SetCodeEnabled(c, on)
    \/ DeleteCode(c)

Recovery == StartRecovery \/ \E e \in Slots : RecoverOne(e)

Next ==
    \/ \E u \in Users : UserStep(u)
    \/ \E u \in ManagedUsers : AdminStep(u)
    \/ \E e \in Slots : RequestStep(e)
    \/ \E c \in ManagedCodes : CodeStep(c)
    \/ Recovery
    \/ Restart
    \/ Tick

Spec == Init /\ [][Next]_vars

\* Time passes, and somebody keeps asking for images: that is what starts a
\* recovery pass, and a pass that began is finished.
Fairness ==
    /\ WF_vars(Tick)
    /\ WF_vars(Recovery)

FairSpec == Spec /\ Fairness

-----------------------------------------------------------------------------
(* Safety *)

OpenOf(u) == {e \in Reserved : events[e].user = u}

\* users.active_image_requests, the counter the concurrency limit is checked
\* against, is the number of the user's events still "reserved", although it
\* is incremented by reserve_image_quota and decremented by two other
\* functions that may race for the same event: a drift would lock the user
\* out (429) or lift the limit.
ActiveMatchesReserved ==
    \A u \in Users : activeRequests[u] = Cardinality(OpenOf(u))

\* Member coins are only spent inside the period they were granted for, though
\* reserve_image_quota may find a row nobody refreshed for several periods.
MemberCoinsInPeriod ==
    \A e \in Slots :
        events[e].member > 0 =>
            /\ events[e].key.start <= events[e].created
            /\ events[e].created < events[e].key.end

\* A finished event charges exactly the delivered images (none unless it
\* succeeded), member coins before regular ones, never beyond what it reserved.
ChargesAreExact ==
    \A e \in Slots : LET event == events[e] IN
        /\ event.status # "unused" => event.member + event.regular = event.requested * ImageCost
        /\ event.status \in Final =>
            /\ event.memberActual + event.regularActual = event.actual * ImageCost
            /\ event.actual <= event.requested
            /\ event.regularActual > 0 => event.memberActual = event.member
            /\ event.status # "success" => event.actual = 0

\* delete_user never removes an account that a reservation still refers to:
\* a settlement that finds no user row rolls back and the event stays open.
OwnersExist == \A e \in Reserved : exists[events[e].user]

\* The streak stored with a check-in is the length of the run of consecutive
\* check-in days that ends on its day.
StreaksAreRuns ==
    \A u \in Users, d \in Days :
        LET s == streakOn[u][d]
        IN  s > 0 =>
            /\ s <= d + 1
            /\ \A i \in (d - s + 1) .. d : streakOn[u][i] > 0
            /\ d >= s => streakOn[u][d - s] = 0

-----------------------------------------------------------------------------
(* What a step may never do *)

\* An event that was settled or recovered is never written again, by a late
\* settlement, a second one, or a recovery pass.
FinishedEventsAreFinal ==
    [][\A e \in Slots : events[e].status \in Final => events'[e] = events[e]]_vars

\* A used code stays used by the same account: no coins twice for one code.
CodesAreSpentOnce ==
    [][\A c \in Codes : codes[c].usedBy # None => codes'[c].usedBy = codes[c].usedBy]_vars

\* What was settled or spent is not settled or spent again.
DoneOnce == FinishedEventsAreFinal /\ CodesAreSpentOnce

-----------------------------------------------------------------------------
(* Refinement *)

HoldState(status) ==
    CASE status = "unused"   -> "unused"
      [] status = "reserved" -> "open"
      [] status \in Final    -> "closed"

\* The abstract ledger: regular coins are the purse, an event is a hold.
Contract == INSTANCE CoinHolds WITH
    Holds <- Slots,
    purse <- imageQuota,
    hold  <- [e \in Slots |-> [state   |-> HoldState(events[e].status),
                               user    |-> events[e].user,
                               coins   |-> events[e].regular,
                               charged |-> events[e].regularActual]]

\* Reserve, settle and recover, with memberships, expiry, redeeming, retries
\* and restarts around them, only ever open a hold, close it once with an
\* exact refund, or change one purse by a grant.
HonoursContract == Contract!Spec

-----------------------------------------------------------------------------
(* Liveness *)

\* A reservation whose request vanished does not hold its owner's coins and
\* concurrency slot for ever: once it is old enough a recovery pass frees it.
AbandonedAreRecovered ==
    \A e \in Slots :
        (events[e].status = "reserved" /\ events[e].created + StaleAfter + Throttle <= MaxTime)
            ~> (events[e].status \in Final)

=============================================================================
