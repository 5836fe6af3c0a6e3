------------------------- MODULE QuotaLedgerProofs -------------------------
(***************************************************************************)
(* Proofs about QuotaLedger, for any users, events, codes, plans, prices   *)
(* and bounds: the counter of requests is exact, nothing is settled twice, *)
(* and no order of calls makes or loses a coin.                            *)
(***************************************************************************)
EXTENDS QuotaAudit, FiniteSetTheorems, TLAPS

-----------------------------------------------------------------------------
(* Arithmetic of periods *)

\* Whole periods divide a duration with less than a period left over.
LEMMA WholePeriods ==
    ASSUME NEW a \in Nat, NEW b \in Nat \ {0}
    PROVE  /\ a \div b \in Nat
           /\ b * (a \div b) \in Nat
           /\ b * (a \div b) <= a
           /\ a < b * (a \div b) + b
<1>1. a \div b \in Nat /\ b * (a \div b) <= a
  BY SMT
<1>2. a < b * (a \div b) + b
  BY SMT
<1>3. b * (a \div b) \in Nat
  BY <1>1, SMT
<1> QED
  BY <1>1, <1>2, <1>3

\* A membership row whose period has begun.
Begun(m, t) == m.status # "none" => m.key.start <= t

\* Rolling ends in the period that contains the moment, unless the
\* membership has expired.
LEMMA PeriodContainsNow ==
    ASSUME NEW m \in Memberships, NEW t \in Nat, m.key.start <= t, t < m.expires
    PROVE  /\ PeriodAt(m, t) \in Keys
           /\ PeriodAt(m, t).start <= t
           /\ t < PeriodAt(m, t).end
<1> USE DEF Memberships, Keys, Plans
<1>1. CASE t < m.key.end \/ m.key.end >= m.expires
  BY <1>1 DEF PeriodAt
<1>2. CASE ~(t < m.key.end \/ m.key.end >= m.expires)
  <2> DEFINE whole == m.plan.period * ((t - m.key.start) \div m.plan.period)
             start == m.key.start + whole
  <2>1. t - m.key.start \in Nat /\ m.plan.period \in Nat \ {0}
    OBVIOUS
  <2>2. whole \in Nat /\ whole <= t - m.key.start /\ t - m.key.start < whole + m.plan.period
    BY <2>1, WholePeriods
  <2> HIDE DEF whole
  <2>3. start \in Nat /\ start <= t /\ t < start + m.plan.period
    BY <2>1, <2>2
  <2>4. PeriodAt(m, t) = [m.key EXCEPT !.start = start,
                                       !.end = Minimum(start + m.plan.period, m.expires)]
    BY <1>2 DEF PeriodAt, whole
  <2> HIDE DEF start
  <2>5. /\ Minimum(start + m.plan.period, m.expires) \in Nat
        /\ t < Minimum(start + m.plan.period, m.expires)
    BY <2>3 DEF Minimum
  <2> QED
    BY <2>3, <2>4, <2>5
<1> QED
  BY <1>1, <1>2

\* A membership that is refreshed is a membership, begun, and its period is the current one if it is active.
LEMMA RefreshedRow ==
    ASSUME NEW m \in Memberships, NEW t \in Nat, Begun(m, t)
    PROVE  /\ Refreshed(m, t) \in Memberships
           /\ Begun(Refreshed(m, t), t)
           /\ Refreshed(m, t).status = "active" =>
                  /\ Refreshed(m, t).key.start <= t
                  /\ t < Refreshed(m, t).key.end
<1>1. CASE m.status = "none"
  BY <1>1 DEF Refreshed, Begun, Memberships
<1>2. CASE m.status # "none" /\ m.expires <= t
  BY <1>2 DEF Refreshed, Begun, Memberships
<1>3. CASE m.status # "none" /\ ~(m.expires <= t)
  <2>1. /\ PeriodAt(m, t) \in Keys
        /\ PeriodAt(m, t).start <= t
        /\ t < PeriodAt(m, t).end
    BY <1>3, PeriodContainsNow DEF Begun, Memberships
  <2>2. Refreshed(m, t) = IF PeriodAt(m, t) = m.key /\ m.status = "active" THEN m
                          ELSE [m EXCEPT !.status = "active", !.key = PeriodAt(m, t),
                                         !.quota = m.plan.quota]
    BY <1>3 DEF Refreshed
  <2>3. CASE PeriodAt(m, t) = m.key /\ m.status = "active"
    BY <2>1, <2>2, <2>3 DEF Begun
  <2>4. CASE ~(PeriodAt(m, t) = m.key /\ m.status = "active")
    <3> DEFINE r == [m EXCEPT !.status = "active", !.key = PeriodAt(m, t),
                              !.quota = m.plan.quota]
    <3>1. r \in Memberships /\ r.key = PeriodAt(m, t)
      BY <2>1 DEF Memberships, Plans
    <3> QED
      BY <2>1, <2>2, <2>4, <3>1 DEF Begun
  <2> QED
    BY <2>3, <2>4
<1> QED
  BY <1>1, <1>2, <1>3 DEF Memberships

\* A refund changes neither the key nor the status of a membership.
LEMMA RefundedRow ==
    ASSUME NEW m \in Memberships, NEW event \in Events, NEW coins \in Nat
    PROVE  /\ WithRefund(m, event, coins) \in Memberships
           /\ WithRefund(m, event, coins).key = m.key
           /\ WithRefund(m, event, coins).status = m.status
BY DEF WithRefund, Memberships

-----------------------------------------------------------------------------
(* Types.  TypeOK is not inductive alone: a recovery step credits the owner  *)
(* of an event, which has to exist, and rolling a period only yields natural *)
(* numbers when the period has begun.                                        *)

EventsOwned  == \A e \in Slots : events[e].status # "unused" => events[e].user \in Users
PassIsOpen   == recovering \subseteq Reserved
PeriodsBegun == \A u \in Users : Begun(membership[u], now)

Rows == TypeOK /\ EventsOwned /\ PassIsOpen /\ PeriodsBegun

\* The rows have their types initially.
LEMMA InitRows == Init => Rows
BY LedgerAssumption
   DEF Init, Rows, TypeOK, EventsOwned, PassIsOpen, PeriodsBegun, Begun, Reserved, NoEvent,
       Events, NoMembership, Memberships, Keys, NoKey, Plans, CodeRows, Days, Final

\* What a settlement or a recovery writes to the owner has the right types.
LEMMA ReleaseRows ==
    ASSUME Rows, NEW e \in Slots, events[e].status = "reserved",
           NEW a \in Nat, NEW b \in Nat, Release(e, a, b)
    PROVE  /\ membership' \in [Users -> Memberships]
           /\ imageQuota' \in [Users -> Nat]
           /\ activeRequests' \in [Users -> Nat]
           /\ \A u \in Users : Begun(membership'[u], now)
<1> DEFINE owner == events[e].user
<1>1. owner \in Users /\ events[e] \in Events /\ now \in Nat
  BY LedgerAssumption DEF Rows, EventsOwned, TypeOK
<1>2. membership' = [membership EXCEPT ![owner] = WithRefund(membership[owner], events[e], a)]
  BY DEF Release
<1>3. /\ WithRefund(membership[owner], events[e], a) \in Memberships
      /\ Begun(WithRefund(membership[owner], events[e], a), now)
  BY <1>1, RefundedRow DEF Rows, TypeOK, PeriodsBegun, Begun
<1>4. membership' \in [Users -> Memberships] /\ \A u \in Users : Begun(membership'[u], now)
  BY <1>1, <1>2, <1>3 DEF Rows, TypeOK, PeriodsBegun
<1>5. /\ imageQuota' \in [Users -> Nat]
      /\ activeRequests' \in [Users -> Nat]
  BY <1>1 DEF Release, Rows, TypeOK
<1> QED
  BY <1>4, <1>5

\* A user's step keeps the rows typed.
LEMMA UserStepRows ==
    ASSUME Rows, NEW u \in Users, UserStep(u)
    PROVE  Rows'
<1> USE DEF Rows
<1>m. /\ Refreshed(membership[u], now) \in Memberships
      /\ Begun(Refreshed(membership[u], now), now)
  BY LedgerAssumption, RefreshedRow DEF TypeOK, PeriodsBegun
<1>1. CASE Authenticate(u)
  BY <1>1, <1>m DEF Authenticate, TypeOK, EventsOwned, PassIsOpen, PeriodsBegun, Reserved,
     userVars, passVars
<1>2. ASSUME NEW e \in Slots, NEW n \in Counts, Reserve(u, e, n) PROVE Rows'
  <2> DEFINE m      == Refreshed(membership[u], now)
             amount == n * ImageCost
             available  == IF m.status = "active" THEN m.quota ELSE 0
             memberUse  == Minimum(available, amount)
             regularUse == amount - memberUse
  <2>0. now' = now /\ now \in Nat
    BY <1>2, LedgerAssumption DEF Reserve, TypeOK
  <2>1. amount \in Nat /\ available \in Nat /\ n \in Nat
    BY <1>m, LedgerAssumption DEF Memberships
  <2> HIDE DEF amount, available
  <2>2. memberUse \in Nat /\ regularUse \in Nat
    BY <2>1 DEF Minimum
  <2>3. /\ membership' = [membership EXCEPT ![u] =
                             [m EXCEPT !.quota = Maximum(0, m.quota - memberUse)]]
        /\ imageQuota' = [imageQuota EXCEPT ![u] = Maximum(0, @ - regularUse)]
        /\ events' = [events EXCEPT ![e] =
                         [NoEvent EXCEPT !.status = "reserved", !.user = u,
                                         !.requested = n, !.created = now,
                                         !.key = IF memberUse > 0 THEN m.key ELSE NoKey,
                                         !.member = memberUse,
                                         !.regular = regularUse]]
    BY <1>2 DEF Reserve, amount, available
  <2> HIDE DEF memberUse, regularUse
  <2>m. m \in Memberships /\ Begun(m, now)
    BY <1>m
  <2> HIDE DEF m
  <2>4. /\ [m EXCEPT !.quota = Maximum(0, m.quota - memberUse)] \in Memberships
        /\ Begun([m EXCEPT !.quota = Maximum(0, m.quota - memberUse)], now)
    BY <2>m, <2>2 DEF Memberships, Maximum, Begun
  <2>5. membership' \in [Users -> Memberships] /\ PeriodsBegun'
    BY <2>0, <2>3, <2>4 DEF TypeOK, PeriodsBegun
  <2>6. imageQuota' \in [Users -> Nat]
    BY <2>2, <2>3 DEF TypeOK, Maximum
  <2> DEFINE key   == IF memberUse > 0 THEN m.key ELSE NoKey
             event == [NoEvent EXCEPT !.status = "reserved", !.user = u, !.requested = n,
                                      !.created = now, !.key = key,
                                      !.member = memberUse, !.regular = regularUse]
  <2>k. key \in Keys
    BY <2>m DEF Memberships, NoKey, Keys
  <2>e. events' = [events EXCEPT ![e] = event]
    BY <2>3
  <2> HIDE DEF key
  <2>7. event \in Events /\ event.status = "reserved" /\ event.user = u
    BY <2>0, <2>1, <2>2, <2>k DEF NoEvent, Events, Final
  <2> HIDE DEF event
  <2>8. events' \in [Slots -> Events] /\ EventsOwned'
    BY <2>e, <2>7 DEF TypeOK, EventsOwned
  <2>9. PassIsOpen'
    BY <1>2, <2>3 DEF Reserve, PassIsOpen, Quiet, passVars
  <2> QED
    BY <1>2, <2>5, <2>6, <2>8, <2>9 DEF Reserve, TypeOK, passVars
<1>3. ASSUME NEW c \in Codes, Redeem(u, c) PROVE Rows'
  <2> DEFINE m == IF CodeGrant[c].type = "membership"
                  THEN Activated(CodeGrant[c].plan) ELSE membership[u]
  <2>1. CodeGrant[c] \in Grants
    BY LedgerAssumption
  <2>2. Activated(CodeGrant[c].plan) \in Memberships /\ Begun(Activated(CodeGrant[c].plan), now)
    BY <2>1, LedgerAssumption DEF Grants, Plans, Activated, Memberships, Keys, Minimum, Begun, TypeOK
  <2>3. m \in Memberships /\ Begun(m, now)
    BY <2>2 DEF TypeOK, PeriodsBegun
  <2>4. Refreshed(m, now) \in Memberships /\ Begun(Refreshed(m, now), now)
    BY <2>3, RefreshedRow, LedgerAssumption DEF TypeOK
  <2>5. membership' = [membership EXCEPT ![u] = Refreshed(m, now)]
    BY <1>3 DEF Redeem
  <2> HIDE DEF m
  <2>6. membership' \in [Users -> Memberships] /\ PeriodsBegun'
    BY <1>3, <2>4, <2>5 DEF Redeem, TypeOK, PeriodsBegun
  <2>7. imageQuota' \in [Users -> Nat] /\ imageConcurrency' \in [Users -> Nat] /\ activations' \in Nat
    BY <1>3, <2>1 DEF Redeem, TypeOK, Grants
  <2>8. codes' \in [Codes -> CodeRows]
    BY <1>3 DEF Redeem, TypeOK, CodeRows
  <2> QED
    BY <1>3, <2>6, <2>7, <2>8
    DEF Redeem, TypeOK, EventsOwned, PassIsOpen, Reserved, passVars
<1>4. CASE Checkin(u)
  <2>1. StreakToday(u) \in Nat
    BY LedgerAssumption DEF StreakToday, TypeOK, Days
  <2>2. Reward(StreakToday(u)) \in Nat
    BY LedgerAssumption DEF Reward
  <2>3. imageQuota' \in [Users -> Nat]
    BY <1>4, <2>2 DEF Checkin, TypeOK
  <2>4. streakOn' \in [Users -> [Days -> Nat]]
    BY <1>4, <2>1 DEF Checkin, TypeOK
  <2> QED
    BY <1>4, <1>m, <2>3, <2>4
    DEF Checkin, TypeOK, EventsOwned, PassIsOpen, PeriodsBegun, Reserved, passVars
<1> QED
  BY <1>1, <1>2, <1>3, <1>4 DEF UserStep

\* A step of a request keeps the rows typed.
LEMMA RequestStepRows ==
    ASSUME Rows, NEW e \in Slots, RequestStep(e)
    PROVE  Rows'
<1>1. ASSUME NEW success \in BOOLEAN, NEW k \in Deliveries, Settle(e, success, k) PROVE Rows'
  <2> DEFINE actual == IF success
                       THEN Maximum(0, Minimum(k, events[e].requested)) ELSE 0
             coins  == actual * ImageCost
             paidMember  == MemberActual(events[e], coins)
             paidRegular == RegularActual(events[e], coins)
  <2>0. events[e] \in Events /\ k \in Nat /\ events[e].status = "reserved"
    BY <1>1, LedgerAssumption DEF Rows, TypeOK, Settle, Settleable
  <2>1. actual \in Nat
    BY <2>0 DEF Maximum, Minimum, Events
  <2>2. coins \in Nat
    BY <2>1, LedgerAssumption
  <2>3. /\ events' = [events EXCEPT ![e].status = IF success THEN "success" ELSE "failed",
                                    ![e].actual = actual,
                                    ![e].memberActual = paidMember,
                                    ![e].regularActual = paidRegular]
        /\ Release(e, Maximum(0, events[e].member - paidMember),
                      Maximum(0, events[e].regular - paidRegular))
    BY <1>1 DEF Settle
  <2> HIDE DEF actual, coins
  <2>4. paidMember \in Nat /\ paidRegular \in Nat
    BY <2>0, <2>2 DEF MemberActual, RegularActual, Minimum, Maximum, Events
  <2> HIDE DEF paidMember, paidRegular
  <2>5. /\ Maximum(0, events[e].member - paidMember) \in Nat
        /\ Maximum(0, events[e].regular - paidRegular) \in Nat
    BY <2>0, <2>4 DEF Maximum, Events
  <2>6. events' \in [Slots -> Events] /\ EventsOwned'
    BY <2>0, <2>1, <2>3, <2>4 DEF Rows, TypeOK, EventsOwned, Events, Final
  <2>7. /\ membership' \in [Users -> Memberships]
        /\ imageQuota' \in [Users -> Nat]
        /\ activeRequests' \in [Users -> Nat]
        /\ \A u \in Users : Begun(membership'[u], now)
    BY <2>0, <2>3, <2>5, ReleaseRows
  <2> QED
    BY <1>1, <2>6, <2>7
    DEF Settle, Rows, TypeOK, PeriodsBegun, PassIsOpen, Quiet, passVars
<1>2. CASE EndRequest(e)
  BY <1>2 DEF EndRequest, Rows, TypeOK, EventsOwned, PassIsOpen, PeriodsBegun, Reserved,
     userVars, memberVars, passVars
<1> QED
  BY <1>1, <1>2 DEF RequestStep

\* So do the steps of administrators, of codes, of the recovery pass, of restarts and of the clock.
LEMMA OtherStepRows ==
    ASSUME Rows,
           \/ \E u \in ManagedUsers : AdminStep(u)
           \/ \E c \in ManagedCodes : CodeStep(c)
           \/ Recovery \/ Restart \/ Tick
    PROVE  Rows'
<1> USE DEF userVars, memberVars, passVars
<1>1. ASSUME NEW u \in ManagedUsers, AdminStep(u) PROVE Rows'
  <2>0. u \in Users
    BY LedgerAssumption
  <2>1. ASSUME NEW coins \in AdminQuotas, SetQuota(u, coins) PROVE Rows'
    <3>1. coins \in Int /\ BalanceInput(coins) \in Nat
      BY LedgerAssumption DEF BalanceInput, Maximum
    <3> QED
      BY <2>0, <2>1, <3>1
      DEF SetQuota, Rows, TypeOK, EventsOwned, PassIsOpen, PeriodsBegun, Reserved
  <2>2. ASSUME NEW limit \in AdminLimits, SetConcurrency(u, limit) PROVE Rows'
    <3>1. Maximum(1, limit) \in Nat
      BY LedgerAssumption DEF Maximum
    <3> QED
      BY <2>0, <2>2, <3>1
      DEF SetConcurrency, Rows, TypeOK, EventsOwned, PassIsOpen, PeriodsBegun, Reserved
  <2>3. ASSUME NEW on \in BOOLEAN, SetEnabled(u, on) PROVE Rows'
    BY <2>0, <2>3 DEF SetEnabled, Rows, TypeOK, EventsOwned, PassIsOpen, PeriodsBegun, Reserved
  <2>4. CASE DeleteUser(u)
    <3>1. HasHistory(u) \in BOOLEAN
      BY DEF HasHistory
    <3> QED
      BY <2>0, <2>4, <3>1
      DEF DeleteUser, Rows, TypeOK, EventsOwned, PassIsOpen, PeriodsBegun, Reserved
  <2> QED
    BY <1>1, <2>1, <2>2, <2>3, <2>4 DEF AdminStep
<1>2. ASSUME NEW c \in ManagedCodes, CodeStep(c) PROVE Rows'
  <2>1. ASSUME NEW on \in BOOLEAN, SetCodeEnabled(c, on) PROVE codes' \in [Codes -> CodeRows]
    BY <2>1 DEF SetCodeEnabled, Rows, TypeOK, CodeRows
  <2>2. CASE DeleteCode(c)
    BY <2>2 DEF DeleteCode, Rows, TypeOK, CodeRows, EventsOwned, PassIsOpen, PeriodsBegun, Reserved
  <2>3. ASSUME NEW on \in BOOLEAN, SetCodeEnabled(c, on) PROVE Rows'
    BY <2>1, <2>3
    DEF SetCodeEnabled, Rows, TypeOK, EventsOwned, PassIsOpen, PeriodsBegun, Reserved
  <2> QED
    BY <1>2, <2>2, <2>3 DEF CodeStep
<1>3. CASE StartRecovery
  BY <1>3, LedgerAssumption
  DEF StartRecovery, Stale, Reserved, Rows, TypeOK, EventsOwned, PassIsOpen, PeriodsBegun
<1>4. ASSUME NEW e \in Slots, RecoverOne(e) PROVE Rows'
  <2>1. events[e] \in Events /\ events[e].status = "reserved"
    BY <1>4 DEF RecoverOne, Rows, TypeOK, PassIsOpen, Reserved
  <2>2. /\ membership' \in [Users -> Memberships]
        /\ imageQuota' \in [Users -> Nat]
        /\ activeRequests' \in [Users -> Nat]
        /\ \A u \in Users : Begun(membership'[u], now)
    BY <1>4, <2>1, ReleaseRows DEF RecoverOne, Events
  <2>3. /\ events' = [events EXCEPT ![e].status = "recovered"]
        /\ recovering' = recovering \ {e}
    BY <1>4 DEF RecoverOne
  <2>4. events' \in [Slots -> Events] /\ EventsOwned' /\ PassIsOpen'
    BY <2>1, <2>3 DEF Rows, TypeOK, EventsOwned, PassIsOpen, Reserved, Events, Final
  <2> QED
    BY <1>4, <2>2, <2>3, <2>4 DEF RecoverOne, Rows, TypeOK, PeriodsBegun
<1>5. CASE Restart
  BY <1>5, LedgerAssumption
  DEF Restart, Stale, Reserved, Rows, TypeOK, EventsOwned, PassIsOpen, PeriodsBegun
<1>6. CASE Tick
  <2>1. ASSUME NEW u \in Users PROVE Begun(membership'[u], now')
    <3>1. membership' = membership /\ now' = now + 1 /\ now \in Nat
      BY <1>6, LedgerAssumption DEF Tick, Rows, TypeOK
    <3>2. membership[u] \in Memberships /\ Begun(membership[u], now)
      BY DEF Rows, TypeOK, PeriodsBegun
    <3> QED
      BY <3>1, <3>2 DEF Begun, Memberships, Keys
  <2> QED
    BY <1>6, <2>1, LedgerAssumption
    DEF Tick, Rows, TypeOK, EventsOwned, PassIsOpen, PeriodsBegun, Reserved, Quiet
<1> QED
  BY <1>1, <1>2, <1>3, <1>4, <1>5, <1>6 DEF Recovery

\* The inductive invariant behind the types, and behind every proof below.
THEOREM RowsAlways == Spec => []Rows
<1>1. Rows /\ [Next]_vars => Rows'
  <2> SUFFICES ASSUME Rows, [Next]_vars PROVE Rows'
    OBVIOUS
  <2>1. CASE Next
    BY <2>1, UserStepRows, RequestStepRows, OtherStepRows DEF Next
  <2>2. CASE UNCHANGED vars
    BY <2>2 DEF vars, userVars, memberVars, passVars, Rows, TypeOK, EventsOwned, PassIsOpen,
       PeriodsBegun, Reserved
  <2> QED
    BY <2>1, <2>2
<1> QED
  BY <1>1, InitRows, PTL DEF Spec

\* Every row of the ledger keeps its type: no balance, counter or reserved
\* amount goes negative, whatever a request delivers or an administrator types.
THEOREM TypesAreKept == Spec => []TypeOK
BY RowsAlways, PTL DEF Rows

-----------------------------------------------------------------------------
(* The concurrency counter *)

\* A user's open events are finitely many.
LEMMA OpenIsFinite == \A u : IsFiniteSet(OpenOf(u)) /\ Cardinality(OpenOf(u)) \in Nat
BY LedgerAssumption, FS_Subset, FS_CardinalityType DEF OpenOf, Reserved

\* An event that opens counts for its owner, and for nobody else.
LEMMA OpeningCounts ==
    ASSUME ActiveMatchesReserved, activeRequests \in [Users -> Nat], events \in [Slots -> Events],
           NEW u \in Users, NEW e \in Slots, NEW event,
           events[e].status = "unused",
           event.status = "reserved", event.user = u,
           events' = [events EXCEPT ![e] = event],
           activeRequests' = [activeRequests EXCEPT ![u] = @ + 1]
    PROVE  ActiveMatchesReserved'
<1>1. OpenOf(u)' = OpenOf(u) \cup {e} /\ e \notin OpenOf(u)
  BY DEF OpenOf, Reserved
<1>2. Cardinality(OpenOf(u)') = Cardinality(OpenOf(u)) + 1
  BY <1>1, OpenIsFinite, FS_AddElement
<1>3. \A v \in Users : v # u => OpenOf(v)' = OpenOf(v)
  BY DEF OpenOf, Reserved
<1> QED
  BY <1>2, <1>3 DEF ActiveMatchesReserved

\* An event that is settled or recovered stops counting for its owner, and
\* the floor at zero of the UPDATE is never needed.
LEMMA ClosingCounts ==
    ASSUME ActiveMatchesReserved, activeRequests \in [Users -> Nat], events \in [Slots -> Events],
           NEW e \in Slots, events[e].status = "reserved",
           NEW u \in Users, events[e].user = u,
           events' \in [Slots -> Events],
           events'[e].status # "reserved",
           \A d \in Slots \ {e} : events'[d] = events[d],
           activeRequests' = [activeRequests EXCEPT ![u] = IF @ > 0 THEN @ - 1 ELSE 0]
    PROVE  ActiveMatchesReserved'
<1>1. OpenOf(u)' = OpenOf(u) \ {e} /\ e \in OpenOf(u)
  BY DEF OpenOf, Reserved
<1>2. Cardinality(OpenOf(u)') = Cardinality(OpenOf(u)) - 1
  BY <1>1, OpenIsFinite, FS_RemoveElement
<1>3. Cardinality(OpenOf(u)) > 0
  BY <1>1, OpenIsFinite, FS_EmptySet
<1>4. \A v \in Users : v # u => OpenOf(v)' = OpenOf(v)
  BY DEF OpenOf, Reserved
<1>5. activeRequests[u] = Cardinality(OpenOf(u)) /\ Cardinality(OpenOf(u)) \in Nat
  BY OpenIsFinite DEF ActiveMatchesReserved
<1>6. activeRequests'[u] = Cardinality(OpenOf(u)')
  BY <1>2, <1>3, <1>5
<1> QED
  BY <1>4, <1>6 DEF ActiveMatchesReserved

\* Every step keeps the count of active requests.
LEMMA CountingStep == Rows /\ ActiveMatchesReserved /\ [Next]_vars => ActiveMatchesReserved'
<1> SUFFICES ASSUME Rows, ActiveMatchesReserved, [Next]_vars PROVE ActiveMatchesReserved'
  OBVIOUS
<1>0. ASSUME UNCHANGED <<events, activeRequests>> PROVE ActiveMatchesReserved'
  BY <1>0 DEF ActiveMatchesReserved, OpenOf, Reserved
<1>1. ASSUME NEW u \in Users, UserStep(u) PROVE ActiveMatchesReserved'
  <2>1. ASSUME NEW e \in Slots, NEW n \in Counts, Reserve(u, e, n) PROVE ActiveMatchesReserved'
    <3>1. PICK event : /\ event.status = "reserved" /\ event.user = u
                       /\ events' = [events EXCEPT ![e] = event]
      <4>1. PICK r, c, k, m, p :
               events' = [events EXCEPT ![e] =
                   [NoEvent EXCEPT !.status = "reserved", !.user = u, !.requested = r,
                                   !.created = c, !.key = k, !.member = m, !.regular = p]]
        BY <2>1 DEF Reserve
      <4> QED
        BY <4>1 DEF NoEvent
    <3>2. /\ events[e].status = "unused"
          /\ activeRequests' = [activeRequests EXCEPT ![u] = @ + 1]
      BY <2>1 DEF Reserve
    <3> QED
      BY <3>1, <3>2, OpeningCounts DEF Rows, TypeOK
  <2> QED
    BY <1>0, <1>1, <2>1 DEF UserStep, Authenticate, Redeem, Checkin, userVars
<1>2. ASSUME NEW e \in Slots, RequestStep(e) PROVE ActiveMatchesReserved'
  <2>1. ASSUME NEW success \in BOOLEAN, NEW k \in Deliveries, Settle(e, success, k)
        PROVE  ActiveMatchesReserved'
    <3>1. /\ events[e].status = "reserved" /\ events[e].user \in Users
          /\ events'[e].status # "reserved"
          /\ \A d \in Slots \ {e} : events'[d] = events[d]
          /\ activeRequests' = [activeRequests EXCEPT ![events[e].user] =
                                   IF @ > 0 THEN @ - 1 ELSE 0]
      BY <2>1 DEF Settle, Settleable, Release, Rows, TypeOK, EventsOwned, Events
    <3>2. events' \in [Slots -> Events]
      BY <1>2, RequestStepRows DEF Rows, TypeOK
    <3> QED
      BY <3>1, <3>2, ClosingCounts DEF Rows, TypeOK
  <2> QED
    BY <1>0, <1>2, <2>1 DEF RequestStep, EndRequest, userVars
<1>3. ASSUME NEW e \in Slots, RecoverOne(e) PROVE ActiveMatchesReserved'
  <2>1. /\ events[e].status = "reserved" /\ events[e].user \in Users
        /\ events'[e].status # "reserved"
        /\ \A d \in Slots \ {e} : events'[d] = events[d]
        /\ activeRequests' = [activeRequests EXCEPT ![events[e].user] =
                                 IF @ > 0 THEN @ - 1 ELSE 0]
    BY <1>3 DEF RecoverOne, Release, Rows, TypeOK, EventsOwned, PassIsOpen, Reserved, Events
  <2>2. events' \in [Slots -> Events]
    BY <1>3, OtherStepRows DEF Recovery, Rows, TypeOK
  <2> QED
    BY <2>1, <2>2, ClosingCounts DEF Rows, TypeOK
<1>4. ASSUME NEW u \in ManagedUsers, AdminStep(u) PROVE ActiveMatchesReserved'
  BY <1>0, <1>4 DEF AdminStep, SetQuota, SetConcurrency, SetEnabled, DeleteUser
<1>5. ASSUME NEW c \in ManagedCodes, CodeStep(c) PROVE ActiveMatchesReserved'
  BY <1>0, <1>5 DEF CodeStep, SetCodeEnabled, DeleteCode, userVars
<1>6. CASE StartRecovery \/ Restart \/ Tick \/ UNCHANGED vars
  BY <1>0, <1>6 DEF StartRecovery, Restart, Tick, vars, userVars
<1> QED
  BY <1>1, <1>2, <1>3, <1>4, <1>5, <1>6 DEF Next, Recovery

\* The counter that the concurrency limit is checked against never drifts
\* from the number of open reservations.
THEOREM CounterIsExact == Spec => []ActiveMatchesReserved
<1>1. Init => ActiveMatchesReserved
  <2> SUFFICES ASSUME Init, NEW u \in Users PROVE activeRequests[u] = Cardinality(OpenOf(u))
    BY DEF ActiveMatchesReserved
  <2>1. OpenOf(u) = {}
    BY DEF Init, OpenOf, Reserved, NoEvent
  <2> QED
    BY <2>1, FS_EmptySet DEF Init
<1> QED
  BY <1>1, CountingStep, RowsAlways, PTL DEF Spec

-----------------------------------------------------------------------------
(* Owners, and what is done once *)

\* A step either leaves the events alone, opens one for an account that is there, or ends one.
LEMMA EventStep ==
    ASSUME Rows, [Next]_vars
    PROVE  \/ UNCHANGED events
           \/ \E e \in Slots : /\ events[e].status = "unused"
                               /\ exists[events'[e].user]
                               /\ UNCHANGED exists
                               /\ \A d \in Slots \ {e} : events'[d] = events[d]
           \/ \E e \in Slots : /\ events[e].status = "reserved"
                               /\ events'[e].status # "reserved"
                               /\ UNCHANGED exists
                               /\ \A d \in Slots \ {e} : events'[d] = events[d]
<1>1. ASSUME NEW u \in Users, NEW e \in Slots, NEW n \in Counts, Reserve(u, e, n)
      PROVE  /\ events[e].status = "unused"
             /\ exists[events'[e].user]
             /\ UNCHANGED exists
             /\ \A d \in Slots \ {e} : events'[d] = events[d]
  <2>1. PICK event : event.user = u /\ events' = [events EXCEPT ![e] = event]
    <3>1. PICK r, c, k, m, p :
             events' = [events EXCEPT ![e] =
                 [NoEvent EXCEPT !.status = "reserved", !.user = u, !.requested = r,
                                 !.created = c, !.key = k, !.member = m, !.regular = p]]
      BY <1>1 DEF Reserve
    <3> QED
      BY <3>1 DEF NoEvent
  <2> QED
    BY <1>1, <2>1 DEF Reserve, Rows, TypeOK
<1>2. ASSUME NEW e \in Slots, NEW success \in BOOLEAN, NEW k \in Deliveries, Settle(e, success, k)
      PROVE  /\ events[e].status = "reserved" /\ events'[e].status # "reserved"
             /\ UNCHANGED exists
             /\ \A d \in Slots \ {e} : events'[d] = events[d]
  BY <1>2 DEF Settle, Settleable, Rows, TypeOK, Events
<1>3. ASSUME NEW e \in Slots, RecoverOne(e)
      PROVE  /\ events[e].status = "reserved" /\ events'[e].status # "reserved"
             /\ UNCHANGED exists
             /\ \A d \in Slots \ {e} : events'[d] = events[d]
  BY <1>3 DEF RecoverOne, Rows, TypeOK, PassIsOpen, Reserved, Events
<1>4. CASE \E u \in Users : UserStep(u)
  BY <1>1, <1>4 DEF UserStep, Authenticate, Redeem, Checkin
<1>5. CASE \E e \in Slots : RequestStep(e)
  BY <1>2, <1>5 DEF RequestStep, EndRequest
<1>6. CASE Recovery
  BY <1>3, <1>6 DEF Recovery, StartRecovery
<1>7. CASE \/ \E u \in ManagedUsers : AdminStep(u)
           \/ \E c \in ManagedCodes : CodeStep(c)
           \/ Restart \/ Tick \/ UNCHANGED vars
  BY <1>7 DEF AdminStep, SetQuota, SetConcurrency, SetEnabled, DeleteUser, CodeStep, SetCodeEnabled,
     DeleteCode, Restart, Tick, vars
<1> QED
  BY <1>4, <1>5, <1>6, <1>7 DEF Next

\* Deleting is the only step that removes an account, and it spares one with an event.
LEMMA Deleting ==
    ASSUME [Next]_vars
    PROVE  \/ UNCHANGED exists
           \/ /\ UNCHANGED events
              /\ \E u \in Users : exists' = [exists EXCEPT ![u] = HasHistory(u)]
<1>1. CASE \E u \in Users : UserStep(u)
  <2>1. ASSUME NEW u \in Users, NEW e \in Slots, NEW n \in Counts, Reserve(u, e, n) PROVE UNCHANGED exists
    BY <2>1 DEF Reserve
  <2>2. ASSUME NEW u \in Users, NEW c \in Codes, Redeem(u, c) PROVE UNCHANGED exists
    BY <2>2 DEF Redeem
  <2>3. ASSUME NEW u \in Users, Authenticate(u) \/ Checkin(u) PROVE UNCHANGED exists
    BY <2>3 DEF Authenticate, Checkin, userVars
  <2> QED
    BY <1>1, <2>1, <2>2, <2>3 DEF UserStep
<1>2. CASE \E u \in ManagedUsers : AdminStep(u)
  BY <1>2, LedgerAssumption DEF AdminStep, SetQuota, SetConcurrency, SetEnabled, DeleteUser
<1>3. CASE \E e \in Slots : RequestStep(e)
  <2>1. ASSUME NEW e \in Slots, NEW success \in BOOLEAN, NEW k \in Deliveries, Settle(e, success, k)
        PROVE  UNCHANGED exists
    BY <2>1 DEF Settle
  <2>2. ASSUME NEW e \in Slots, EndRequest(e) PROVE UNCHANGED exists
    BY <2>2 DEF EndRequest, userVars
  <2> QED
    BY <1>3, <2>1, <2>2 DEF RequestStep
<1>4. CASE Recovery
  BY <1>4 DEF Recovery, StartRecovery, RecoverOne, userVars
<1>5. CASE (\E c \in ManagedCodes : CodeStep(c)) \/ Restart \/ Tick \/ UNCHANGED vars
  BY <1>5 DEF CodeStep, SetCodeEnabled, DeleteCode, Restart, Tick, vars, userVars
<1> QED
  BY <1>1, <1>2, <1>3, <1>4, <1>5 DEF Next

\* No step takes the owner of an open reservation away.
LEMMA OwnersStep == Rows /\ OwnersExist /\ [Next]_vars => OwnersExist'
<1> SUFFICES ASSUME Rows, OwnersExist, [Next]_vars, NEW d \in Slots, events'[d].status = "reserved"
             PROVE  exists'[events'[d].user]
  BY DEF OwnersExist, Reserved
<1>0. events[d].status = "reserved" => exists[events[d].user]
  BY DEF OwnersExist, Reserved
<1>1. CASE ~ UNCHANGED events
  BY <1>0, <1>1, EventStep
<1>2. CASE UNCHANGED events /\ UNCHANGED exists
  BY <1>0, <1>2
<1>3. ASSUME UNCHANGED events, NEW u \in Users, exists' = [exists EXCEPT ![u] = HasHistory(u)]
      PROVE  exists'[events'[d].user]
  <2>1. events[d].user = u => HasHistory(u)
    BY DEF HasHistory
  <2>2. events[d].user \in Users /\ exists[events[d].user]
    BY <1>0, <1>3 DEF Rows, EventsOwned
  <2> QED
    BY <1>3, <2>1, <2>2 DEF Rows, TypeOK
<1> QED
  BY <1>1, <1>2, <1>3, Deleting

\* An account with an open reservation is never deleted, whoever presses delete while its request runs:
\* the settlement finds the row it has to refund.
THEOREM OwnersAlwaysExist == Spec => []OwnersExist
<1>1. Init => OwnersExist
  BY DEF Init, OwnersExist, Reserved, NoEvent
<1> QED
  BY <1>1, OwnersStep, RowsAlways, PTL DEF Spec

\* A used code keeps its user: redeeming needs an unused one, and an administrator cannot write it.
LEMMA CodeOwnersStay ==
    ASSUME Rows, [Next]_vars, NEW c \in Codes, codes[c].usedBy # None
    PROVE  codes'[c].usedBy = codes[c].usedBy
<1>1. ASSUME NEW u \in Users, UserStep(u) PROVE codes'[c].usedBy = codes[c].usedBy
  <2>1. ASSUME NEW d \in Codes, Redeem(u, d) PROVE codes'[c].usedBy = codes[c].usedBy
    <3>1. d # c /\ codes' = [codes EXCEPT ![d].usedBy = u]
      BY <2>1 DEF Redeem, Usable
    <3> QED
      BY <3>1 DEF Rows, TypeOK
  <2>2. ASSUME NEW e \in Slots, NEW n \in Counts, Reserve(u, e, n) PROVE UNCHANGED codes
    BY <2>2 DEF Reserve
  <2>3. ASSUME Authenticate(u) \/ Checkin(u) PROVE UNCHANGED codes
    BY <2>3 DEF Authenticate, Checkin
  <2> QED
    BY <1>1, <2>1, <2>2, <2>3 DEF UserStep
<1>2. ASSUME NEW d \in ManagedCodes, CodeStep(d) PROVE codes'[c].usedBy = codes[c].usedBy
  <2>1. ASSUME NEW on \in BOOLEAN, SetCodeEnabled(d, on) PROVE codes'[c].usedBy = codes[c].usedBy
    BY <2>1 DEF SetCodeEnabled, Rows, TypeOK, CodeRows
  <2>2. ASSUME DeleteCode(d) PROVE codes'[c].usedBy = codes[c].usedBy
    BY <2>2 DEF DeleteCode, Rows, TypeOK, CodeRows
  <2> QED
    BY <1>2, <2>1, <2>2 DEF CodeStep
<1>3. ASSUME NEW e \in Slots, RequestStep(e) PROVE UNCHANGED codes
  <2>1. ASSUME NEW success \in BOOLEAN, NEW k \in Deliveries, Settle(e, success, k) PROVE UNCHANGED codes
    BY <2>1 DEF Settle
  <2> QED
    BY <1>3, <2>1 DEF RequestStep, EndRequest
<1>4. CASE Recovery \/ Restart \/ Tick \/ UNCHANGED vars
  BY <1>4 DEF Recovery, StartRecovery, RecoverOne, Restart, Tick, vars
<1>5. ASSUME NEW u \in ManagedUsers, AdminStep(u) PROVE UNCHANGED codes
  BY <1>5 DEF AdminStep, SetQuota, SetConcurrency, SetEnabled, DeleteUser
<1> QED
  BY <1>1, <1>2, <1>3, <1>4, <1>5 DEF Next

\* What was settled, recovered or spent stays so: no late or repeated call pays twice.
THEOREM NothingIsDoneTwice == Spec => DoneOnce
<1>1. Rows /\ [Next]_vars =>
          [\A e \in Slots : events[e].status \in Final => events'[e] = events[e]]_vars
  <2> SUFFICES ASSUME Rows, [Next]_vars, NEW e \in Slots, events[e].status \in Final
               PROVE  events'[e] = events[e]
    OBVIOUS
  <2> QED
    BY EventStep DEF Final
<1>2. Rows /\ [Next]_vars =>
          [\A c \in Codes : codes[c].usedBy # None => codes'[c].usedBy = codes[c].usedBy]_vars
  BY CodeOwnersStay
<1> QED
  BY <1>1, <1>2, RowsAlways, PTL DEF Spec, DoneOnce, FinishedEventsAreFinal, CodesAreSpentOnce

-----------------------------------------------------------------------------
(* Sums over finite sets.  The recursive function behind SumFunction exists, *)
(* and a sum depends on its terms only, in whatever order they are added.    *)

\* The equation that a sum of f over the subsets of S solves.
SumStep(f, g, s) == IF s = {} THEN 0 ELSE f[CHOOSE x \in s : TRUE] + g[s \ {CHOOSE x \in s : TRUE}]
Sums(f, g, S) == g = [s \in SUBSET S |-> SumStep(f, g, s)]

\* The chosen family of sums obeys the equations, as some family does.
LEMMA SumIsChosen ==
  ASSUME NEW f
  PROVE  SumFunction(f) = (CHOOSE g : Sums(f, g, DOMAIN f))[DOMAIN f]
  BY Zenon DEF SumFunction, SumFunctionOnSet, FoldFunctionOnSet, MapThenFoldSet, Sums, SumStep

\* A set of subsets of a finite set has a smallest member.
LEMMA SmallestSubset ==
  ASSUME NEW S, IsFiniteSet(S), NEW B \in SUBSET SUBSET S, B # {}
  PROVE  \E s \in B : \A t \in SUBSET s : t # s => t \notin B
PROOF
  <1>1. IsWellFoundedOn(StrictSubsetOrdering(S), SUBSET S)
    BY FS_StrictSubsetOrderingWellFounded, FS_FiniteSubsetsOfFinite
  <1>2. PICK s \in B : \A t \in B : <<t, s>> \notin StrictSubsetOrdering(S)
    BY <1>1, WFMin
  <1>3. ASSUME NEW t \in SUBSET s, t # s, t \in B PROVE FALSE
    BY <1>2, <1>3 DEF StrictSubsetOrdering
  <1> QED
    BY <1>2, <1>3

\* Sums over the subsets of two sets agree on what is a subset of both.
LEMMA SumsAgree ==
  ASSUME NEW f, NEW S, IsFiniteSet(S), NEW T, NEW g, NEW h, Sums(f, g, S), Sums(f, h, T),
         NEW s, s \subseteq S, s \subseteq T
  PROVE  g[s] = h[s]
PROOF
  <1> DEFINE B == {t \in SUBSET S : t \subseteq T /\ g[t] # h[t]}
  <1>1. SUFFICES ASSUME B # {} PROVE FALSE
    OBVIOUS
  <1>2. PICK t \in B : \A v \in SUBSET t : v # t => v \notin B
    <2>1. B \in SUBSET SUBSET S
      OBVIOUS
    <2> HIDE DEF B
    <2> QED
      BY <1>1, <2>1, SmallestSubset
  <1>3. g[t] = SumStep(f, g, t) /\ h[t] = SumStep(f, h, t)
    BY DEF Sums
  <1>4. t # {}
    BY <1>3 DEF SumStep
  <1> DEFINE c == CHOOSE x \in t : TRUE
  <1>5. c \in t
    BY <1>4
  <1>6. g[t \ {c}] = h[t \ {c}]
    BY <1>2, <1>5
  <1> QED
    BY <1>3, <1>4, <1>6 DEF SumStep

\* Over a finite set there are such sums.
LEMMA SumsExist ==
  ASSUME NEW f, NEW S, IsFiniteSet(S)
  PROVE  \E g : Sums(f, g, S)
PROOF
  <1> DEFINE B == {t \in SUBSET S : ~\E g : Sums(f, g, t)}
  <1>1. SUFFICES ASSUME B # {} PROVE FALSE
    OBVIOUS
  <1>2. PICK t \in B : \A v \in SUBSET t : v # t => v \notin B
    <2>1. B \in SUBSET SUBSET S
      OBVIOUS
    <2> HIDE DEF B
    <2> QED
      BY <1>1, <2>1, SmallestSubset
  <1> DEFINE G(v) == CHOOSE g : Sums(f, g, v)
             low == [v \in SUBSET t |-> G(v)[v]]
             g == [v \in SUBSET t |-> SumStep(f, low, v)]
  <1>3. \A v \in SUBSET t : v # t => Sums(f, G(v), v)
    BY <1>2
  <1>4. \A v \in SUBSET t : v # t => low[v] = g[v]
    <2> SUFFICES ASSUME NEW v \in SUBSET t, v # t PROVE low[v] = g[v]
      OBVIOUS
    <2>1. low[v] = SumStep(f, G(v), v)
      <3>1. low[v] = G(v)[v] /\ Sums(f, G(v), v)
        BY <1>3
      <3> HIDE DEF G, low
      <3> QED
        BY <3>1 DEF Sums
    <2>2. CASE v = {}
      BY <2>1, <2>2 DEF SumStep
    <2>3. CASE v # {}
      <3> DEFINE c == CHOOSE x \in v : TRUE
                 w == v \ {c}
      <3>1. c \in v
        BY <2>3
      <3>2. w \in SUBSET t /\ w # t /\ w \subseteq v
        BY <3>1
      <3>3. Sums(f, G(v), v) /\ Sums(f, G(w), w) /\ IsFiniteSet(v)
        BY <1>3, <3>2, FS_Subset
      <3>4. G(v)[w] = G(w)[w]
        BY <3>2, <3>3, SumsAgree
      <3> QED
        BY <2>1, <2>3, <3>2, <3>4 DEF SumStep
    <2> QED
      BY <2>2, <2>3
  <1>5. \A v \in SUBSET t : SumStep(f, low, v) = SumStep(f, g, v)
    <2> SUFFICES ASSUME NEW v \in SUBSET t, v # {} PROVE SumStep(f, low, v) = SumStep(f, g, v)
      BY DEF SumStep
    <2> DEFINE c == CHOOSE x \in v : TRUE
    <2>1. c \in v
      OBVIOUS
    <2>2. low[v \ {c}] = g[v \ {c}]
      BY <1>4, <2>1
    <2> QED
      BY <2>2 DEF SumStep
  <1>6. Sums(f, g, t)
    BY <1>5 DEF Sums
  <1> QED
    BY <1>2, <1>6

\* The sums over the subsets of a set of integers are integers, and any term may
\* be taken out of a sum.
LEMMA SumsAreIntegers ==
  ASSUME NEW S, IsFiniteSet(S), NEW f \in [S -> Int], NEW g, Sums(f, g, S)
  PROVE  g \in [SUBSET S -> Int]
PROOF
  <1> DEFINE B == {t \in SUBSET S : g[t] \notin Int}
  <1>1. SUFFICES ASSUME B # {} PROVE FALSE
    BY DEF Sums
  <1>2. PICK t \in B : \A v \in SUBSET t : v # t => v \notin B
    <2>1. B \in SUBSET SUBSET S
      OBVIOUS
    <2> HIDE DEF B
    <2> QED
      BY <1>1, <2>1, SmallestSubset
  <1> DEFINE c == CHOOSE x \in t : TRUE
  <1>3. g[t] = IF t = {} THEN 0 ELSE f[c] + g[t \ {c}]
    BY DEF Sums, SumStep
  <1>4. t # {}
    BY <1>3
  <1>5. c \in t /\ t \subseteq S
    BY <1>4
  <1> HIDE DEF c
  <1>6. g[t \ {c}] \in Int /\ f[c] \in Int
    BY <1>2, <1>5
  <1> QED
    BY <1>3, <1>4, <1>6

\* Any term may be taken out first.
LEMMA AnyTermFirst ==
  ASSUME NEW S, IsFiniteSet(S), NEW f \in [S -> Int], NEW g, Sums(f, g, S),
         NEW s \in SUBSET S, NEW e \in s
  PROVE  g[s] = f[e] + g[s \ {e}]
PROOF
  <1> DEFINE B == {t \in SUBSET S : \E x \in t : g[t] # f[x] + g[t \ {x}]}
  <1>1. SUFFICES ASSUME B # {} PROVE FALSE
    OBVIOUS
  <1>2. PICK t \in B : \A v \in SUBSET t : v # t => v \notin B
    <2>1. B \in SUBSET SUBSET S
      OBVIOUS
    <2> HIDE DEF B
    <2> QED
      BY <1>1, <2>1, SmallestSubset
  <1>3. PICK x \in t : g[t] # f[x] + g[t \ {x}]
    BY <1>2
  <1> DEFINE c == CHOOSE y \in t : TRUE
  <1>4. c \in t /\ g[t] = f[c] + g[t \ {c}]
    BY <1>3 DEF Sums, SumStep
  <1> HIDE DEF c
  <1>5. c # x
    BY <1>3, <1>4
  <1>6. g[t \ {c}] = f[x] + g[(t \ {c}) \ {x}]
    BY <1>2, <1>3, <1>4, <1>5
  <1>7. g[t \ {x}] = f[c] + g[(t \ {x}) \ {c}]
    BY <1>2, <1>3, <1>4, <1>5
  <1>8. (t \ {c}) \ {x} = (t \ {x}) \ {c}
    OBVIOUS
  <1>9. /\ f[x] \in Int /\ f[c] \in Int
        /\ g[(t \ {x}) \ {c}] \in Int
    <2>1. g \in [SUBSET S -> Int]
      BY SumsAreIntegers
    <2>2. t \in SUBSET S
      BY <1>2
    <2> QED
      BY <1>3, <1>4, <2>1, <2>2
  <1> DEFINE rest == g[(t \ {x}) \ {c}]
  <1>10. g[t] = f[c] + (f[x] + rest) /\ f[x] + g[t \ {x}] = f[x] + (f[c] + rest) /\ rest \in Int
    BY <1>4, <1>6, <1>7, <1>8, <1>9
  <1> HIDE DEF rest
  <1>11. f[c] + (f[x] + rest) = f[x] + (f[c] + rest)
    BY <1>9, <1>10
  <1> QED
    BY <1>3, <1>10, <1>11

\* Sums of terms that agree are the same.
LEMMA SameTerms ==
  ASSUME NEW S, IsFiniteSet(S), NEW f, NEW g, NEW h, NEW k, Sums(f, g, S), Sums(h, k, S),
         NEW s \in SUBSET S, \A x \in s : f[x] = h[x]
  PROVE  g[s] = k[s]
PROOF
  <1> DEFINE B == {t \in SUBSET S : t \subseteq s /\ g[t] # k[t]}
  <1>1. SUFFICES ASSUME B # {} PROVE FALSE
    OBVIOUS
  <1>2. PICK t \in B : \A v \in SUBSET t : v # t => v \notin B
    <2>1. B \in SUBSET SUBSET S
      OBVIOUS
    <2> HIDE DEF B
    <2> QED
      BY <1>1, <2>1, SmallestSubset
  <1> DEFINE c == CHOOSE x \in t : TRUE
  <1>3. /\ g[t] = IF t = {} THEN 0 ELSE f[c] + g[t \ {c}]
        /\ k[t] = IF t = {} THEN 0 ELSE h[c] + k[t \ {c}]
    BY DEF Sums, SumStep
  <1>4. t # {}
    BY <1>3
  <1>5. c \in t /\ t \subseteq s
    BY <1>4
  <1> HIDE DEF c
  <1>6. g[t \ {c}] = k[t \ {c}]
    BY <1>2, <1>5
  <1> QED
    BY <1>3, <1>4, <1>5, <1>6

\* What the proofs below use of sums: a sum is an integer, changes as its one
\* changed term does, and is zero when all its terms are.
LEMMA SumIsInteger ==
  ASSUME NEW S, IsFiniteSet(S), NEW f \in [S -> Int]
  PROVE  SumFunction(f) \in Int
PROOF
  <1> DEFINE g == CHOOSE k : Sums(f, k, S)
  <1>1. SumFunction(f) = g[S] /\ Sums(f, g, S)
    BY SumIsChosen, SumsExist
  <1> HIDE DEF g
  <1>2. g \in [SUBSET S -> Int]
    BY <1>1, SumsAreIntegers
  <1> QED
    BY <1>1, <1>2

\* Sums of terms that agree are the same.
LEMMA SumOfSameTerms ==
  ASSUME NEW S, IsFiniteSet(S), NEW f \in [S -> Int], NEW h \in [S -> Int], \A x \in S : h[x] = f[x]
  PROVE  SumFunction(h) = SumFunction(f)
PROOF
  <1> f = h
    OBVIOUS
  <1> QED
    OBVIOUS

\* A sum changes by what the one changed term does.
LEMMA SumOfChangedTerm ==
  ASSUME NEW S, IsFiniteSet(S), NEW f \in [S -> Int], NEW h \in [S -> Int],
         NEW e \in S, \A x \in S \ {e} : h[x] = f[x]
  PROVE  SumFunction(h) = SumFunction(f) + h[e] - f[e]
PROOF
  <1> DEFINE g == CHOOSE k : Sums(f, k, S)
             k == CHOOSE j : Sums(h, j, S)
  <1>1. SumFunction(f) = g[S] /\ Sums(f, g, S)
    BY SumIsChosen, SumsExist
  <1>2. SumFunction(h) = k[S] /\ Sums(h, k, S)
    BY SumIsChosen, SumsExist
  <1> HIDE DEF g, k
  <1>3. g[S] = f[e] + g[S \ {e}] /\ k[S] = h[e] + k[S \ {e}]
    <2>1. S \in SUBSET S
      OBVIOUS
    <2>2. g[S] = f[e] + g[S \ {e}]
      BY <1>1, <2>1, AnyTermFirst
    <2>3. k[S] = h[e] + k[S \ {e}]
      BY <1>2, <2>1, AnyTermFirst
    <2> QED
      BY <2>2, <2>3
  <1>4. g[S \ {e}] = k[S \ {e}]
    BY <1>1, <1>2, SameTerms
  <1>5. f[e] \in Int /\ h[e] \in Int /\ g[S \ {e}] \in Int
    <2>1. g \in [SUBSET S -> Int]
      BY <1>1, SumsAreIntegers
    <2> QED
      BY <2>1
  <1> QED
    BY <1>1, <1>2, <1>3, <1>4, <1>5

\* A sum of zeros is zero.
LEMMA SumOfZeros ==
  ASSUME NEW S, IsFiniteSet(S), NEW f \in [S -> Int], \A x \in S : f[x] = 0
  PROVE  SumFunction(f) = 0
PROOF
  <1> DEFINE g == CHOOSE k : Sums(f, k, S)
             zero == [s \in SUBSET S |-> 0]
  <1>1. SumFunction(f) = g[S] /\ Sums(f, g, S)
    BY SumIsChosen, SumsExist
  <1>2. Sums(f, zero, S)
    <2>1. ASSUME NEW s \in SUBSET S PROVE SumStep(f, zero, s) = 0
      <3>1. CASE s = {}
        BY <3>1 DEF SumStep
      <3>2. CASE s # {}
        <4> DEFINE c == CHOOSE x \in s : TRUE
        <4>1. c \in s
          BY <3>2
        <4> QED
          BY <3>2, <4>1 DEF SumStep
      <3> QED
        BY <3>1, <3>2
    <2> QED
      BY <2>1 DEF Sums
  <1> HIDE DEF g, zero
  <1>3. g[S] = zero[S]
    BY <1>1, <1>2, SumsAgree
  <1> QED
    BY <1>1, <1>3 DEF zero

-----------------------------------------------------------------------------
(* What a step does to the money: it opens an event, closes one, grants      *)
(* coins, or leaves the money alone.                                         *)

\* An event that reserves, or was charged, what it should.
ChargedExactly(event) ==
    /\ event.status = "unused" => event = NoEvent
    /\ event.status = "reserved" => event.actual = 0 /\ event.memberActual = 0 /\ event.regularActual = 0
    /\ event.memberActual <= event.member /\ event.regularActual <= event.regular
    /\ event.status # "unused" => event.member + event.regular = event.requested * ImageCost
    /\ event.status \in Final =>
         /\ event.memberActual + event.regularActual = event.actual * ImageCost
         /\ event.actual <= event.requested
         /\ event.regularActual > 0 => event.memberActual = event.member
         /\ event.status # "success" => event.actual = 0
    /\ event.member > 0 => event.key.start <= event.created /\ event.created < event.key.end

EventInv == \A e \in Slots : ChargedExactly(events[e])

\* A reservation of u that takes what it can from the membership, and the rest
\* from the balance.
Opening(u, e, event) ==
    /\ events[e].status = "unused"
    /\ event \in Events /\ ChargedExactly(event)
    /\ event.status = "reserved" /\ event.user = u
    /\ event.member > 0 => /\ Refreshed(membership[u], now).status = "active"
                           /\ event.member <= Refreshed(membership[u], now).quota
                           /\ event.key = Refreshed(membership[u], now).key
    /\ event.regular <= imageQuota[u]
    /\ events' = [events EXCEPT ![e] = event]
    /\ imageQuota' = [imageQuota EXCEPT ![u] = @ - event.regular]
    /\ membership' = [membership EXCEPT ![u] =
           [Refreshed(membership[u], now) EXCEPT !.quota = Maximum(0, @ - event.member)]]
    /\ UNCHANGED <<now, activations, codes, streakOn, adjustment>>

\* A reservation that becomes final; what it does not pay goes back.
Closing(e, event) ==
    /\ events[e].status = "reserved"
    /\ event \in Events /\ ChargedExactly(event)
    /\ event.status \in Final
    /\ event.user = events[e].user /\ event.key = events[e].key
    /\ event.member = events[e].member /\ event.regular = events[e].regular
    /\ events' = [events EXCEPT ![e] = event]
    /\ Release(e, event.member - event.memberActual, event.regular - event.regularActual)
    /\ UNCHANGED <<now, activations, codes, streakOn, adjustment>>

\* Nothing that money depends on but the clock.
MoneyStays ==
    /\ UNCHANGED <<imageQuota, memberVars, events, streakOn, adjustment>>
    /\ now' \in {now, now + 1}
    /\ \A c \in Codes : codes'[c].usedBy = codes[c].usedBy

\* A product grows with its factor.
LEMMA MultiplyOrdered ==
  ASSUME NEW a \in Nat, NEW b \in Nat, NEW c \in Nat, a <= b
  PROVE  a * c \in Nat /\ b * c \in Nat /\ a * c <= b * c
PROOF
  <1>1. PICK d \in Nat : b = a + d
    <2>1. b - a \in Nat /\ b = a + (b - a)
      OBVIOUS
    <2> QED
      BY <2>1
  <1>2. b * c = a * c + d * c
    BY <1>1, SMT
  <1>3. a * c \in Nat /\ d * c \in Nat /\ b * c \in Nat
    BY SMT
  <1> QED
    BY <1>2, <1>3

\* A reservation opens one event, and is paid of what the user has.
LEMMA ReserveOpens ==
  ASSUME Rows, NEW u \in Users, NEW e \in Slots, NEW n \in Counts, Reserve(u, e, n)
  PROVE  \E event : Opening(u, e, event)
PROOF
  <1> DEFINE m      == Refreshed(membership[u], now)
             amount == n * ImageCost
             available  == IF m.status = "active" THEN m.quota ELSE 0
             memberUse  == Minimum(available, amount)
             regularUse == amount - memberUse
             key        == IF memberUse > 0 THEN m.key ELSE NoKey
             event == [NoEvent EXCEPT !.status = "reserved", !.user = u, !.requested = n,
                                      !.created = now, !.key = key,
                                      !.member = memberUse, !.regular = regularUse]
  <1>1. m \in Memberships /\ now \in Nat /\ imageQuota[u] \in Nat
        /\ (m.status = "active" => m.key.start <= now /\ now < m.key.end)
    BY LedgerAssumption, RefreshedRow DEF Rows, TypeOK, PeriodsBegun
  <1>2. amount \in Nat /\ available \in Nat /\ n \in Nat
    BY <1>1, LedgerAssumption DEF Memberships
  <1>3. /\ events[e].status = "unused" /\ available + imageQuota[u] >= amount
        /\ membership' = [membership EXCEPT ![u] = [m EXCEPT !.quota = Maximum(0, @ - memberUse)]]
        /\ imageQuota' = [imageQuota EXCEPT ![u] = Maximum(0, @ - regularUse)]
        /\ events' = [events EXCEPT ![e] = event]
        /\ UNCHANGED <<now, activations, codes, streakOn, adjustment>>
    BY DEF Reserve
  <1>a. amount = n * ImageCost
    OBVIOUS
  <1>b. /\ available = (IF m.status = "active" THEN m.quota ELSE 0)
        /\ m = Refreshed(membership[u], now)
    OBVIOUS
  <1> HIDE DEF amount, available
  <1>4. /\ memberUse \in Nat /\ memberUse <= available
        /\ regularUse \in Nat /\ regularUse <= imageQuota[u] /\ memberUse + regularUse = amount
    BY <1>1, <1>2, <1>3 DEF Minimum
  <1> HIDE DEF memberUse, regularUse, m
  <1>5. key \in Keys /\ (memberUse > 0 => m.status = "active" /\ memberUse <= m.quota /\ key = m.key)
    BY <1>1, <1>b, <1>4 DEF Memberships, Keys, NoKey
  <1> HIDE DEF key
  <1>6. /\ event.status = "reserved" /\ event.user = u /\ event.requested = n /\ event.created = now
        /\ event.key = key /\ event.member = memberUse /\ event.regular = regularUse
        /\ event.actual = 0 /\ event.memberActual = 0 /\ event.regularActual = 0
    BY DEF NoEvent
  <1>7. event \in Events
    <2>1. NoEvent \in Events
      BY DEF NoEvent, NoKey, Keys, Events
    <2> HIDE DEF NoEvent
    <2> QED
      BY <1>1, <1>2, <1>4, <1>5, <2>1 DEF Events
  <1> HIDE DEF event
  <1>8. ChargedExactly(event)
    BY <1>1, <1>4, <1>5, <1>6, <1>a DEF ChargedExactly, Final
  <1>9. Maximum(0, imageQuota[u] - regularUse) = imageQuota[u] - regularUse
    BY <1>1, <1>4 DEF Maximum
  <1>10. event.member = memberUse /\ event.regular = regularUse /\ event.key = key
         /\ event.status = "reserved" /\ event.user = u
    BY <1>6
  <1>11. imageQuota' = [imageQuota EXCEPT ![u] = @ - event.regular]
    BY <1>3, <1>9, <1>10
  <1>12. membership' = [membership EXCEPT ![u] =
            [Refreshed(membership[u], now) EXCEPT !.quota = Maximum(0, @ - event.member)]]
    BY <1>3, <1>10, <1>b
  <1> QED
    BY <1>3, <1>4, <1>5, <1>7, <1>8, <1>10, <1>11, <1>12, <1>b DEF Opening

\* A settled event is closed, and gives back what it does not charge.
LEMMA SettleCloses ==
  ASSUME Rows, EventInv, NEW e \in Slots, NEW success \in BOOLEAN, NEW k \in Deliveries,
         Settle(e, success, k)
  PROVE  \E event : Closing(e, event)
PROOF
  <1> DEFINE old    == events[e]
             actual == IF success THEN Maximum(0, Minimum(k, old.requested)) ELSE 0
             coins  == actual * ImageCost
             paidMember  == MemberActual(old, coins)
             paidRegular == RegularActual(old, coins)
             status == IF success THEN "success" ELSE "failed"
             event == [old EXCEPT !.status = status, !.actual = actual,
                                  !.memberActual = paidMember, !.regularActual = paidRegular]
  <1>1. old \in Events /\ k \in Nat /\ old.status = "reserved" /\ ChargedExactly(old)
    BY LedgerAssumption DEF Rows, TypeOK, Settle, Settleable, EventInv
  <1>2. /\ events' = [events EXCEPT ![e].status = status, ![e].actual = actual,
                                    ![e].memberActual = paidMember, ![e].regularActual = paidRegular]
        /\ Release(e, Maximum(0, old.member - paidMember), Maximum(0, old.regular - paidRegular))
        /\ UNCHANGED <<now, activations, codes, streakOn, adjustment>>
    BY DEF Settle
  <1>3. events' = [events EXCEPT ![e] = event]
    BY <1>2
  <1>4. actual \in Nat /\ actual <= old.requested /\ (~success => actual = 0)
    BY <1>1 DEF Maximum, Minimum, Events
  <1>a. coins = actual * ImageCost
    OBVIOUS
  <1> HIDE DEF actual, old
  <1>5. coins \in Nat /\ coins <= old.member + old.regular
    <2>1. old.requested \in Nat /\ old.member + old.regular = old.requested * ImageCost
      BY <1>1 DEF ChargedExactly, Events
    <2> QED
      BY <1>4, <2>1, MultiplyOrdered, LedgerAssumption
  <1> HIDE DEF coins
  <1>6. /\ paidMember \in Nat /\ paidMember <= old.member
        /\ paidRegular \in Nat /\ paidRegular <= old.regular
        /\ paidMember + paidRegular = coins
        /\ paidRegular > 0 => paidMember = old.member
    BY <1>1, <1>5 DEF MemberActual, RegularActual, Minimum, Maximum, Events
  <1> HIDE DEF paidMember, paidRegular
  <1>7. /\ event.status = status /\ event.user = old.user /\ event.requested = old.requested
        /\ event.created = old.created /\ event.key = old.key
        /\ event.member = old.member /\ event.regular = old.regular
        /\ event.actual = actual /\ event.memberActual = paidMember /\ event.regularActual = paidRegular
    BY <1>1 DEF Events
  <1>8. event \in Events /\ event.status \in Final
    BY <1>1, <1>4, <1>6 DEF Events, Final
  <1> HIDE DEF event
  <1>9. ChargedExactly(event)
    BY <1>1, <1>4, <1>6, <1>7, <1>a DEF ChargedExactly, Final
  <1>10. /\ Maximum(0, old.member - paidMember) = old.member - paidMember
         /\ Maximum(0, old.regular - paidRegular) = old.regular - paidRegular
    BY <1>1, <1>6 DEF Maximum, Events
  <1>11. /\ event.user = old.user /\ event.key = old.key
         /\ event.member = old.member /\ event.regular = old.regular
         /\ event.memberActual = paidMember /\ event.regularActual = paidRegular
    BY <1>7
  <1>12. Release(e, event.member - event.memberActual, event.regular - event.regularActual)
    BY <1>2, <1>10, <1>11
  <1> QED
    BY <1>1, <1>2, <1>3, <1>8, <1>9, <1>11, <1>12 DEF Closing, old

\* An open event that is recovered is closed, and all that it held goes back.
LEMMA RecoveryCloses ==
  ASSUME Rows, EventInv, NEW e \in Slots, RecoverOne(e)
  PROVE  \E event : Closing(e, event)
PROOF
  <1> DEFINE old   == events[e]
             event == [old EXCEPT !.status = "recovered"]
  <1>1. old \in Events /\ old.status = "reserved" /\ ChargedExactly(old)
    BY DEF Rows, TypeOK, RecoverOne, PassIsOpen, Reserved, EventInv
  <1>2. /\ events' = [events EXCEPT ![e] = event]
        /\ Release(e, old.member, old.regular)
        /\ UNCHANGED <<now, activations, codes, streakOn, adjustment>>
    BY DEF RecoverOne
  <1> HIDE DEF old
  <1>3. event = [status |-> "recovered", user |-> old.user, requested |-> old.requested,
                 created |-> old.created, key |-> old.key, member |-> old.member,
                 regular |-> old.regular, actual |-> 0, memberActual |-> 0, regularActual |-> 0]
    BY <1>1 DEF Events, ChargedExactly
  <1> HIDE DEF event
  <1>4. event \in Events /\ event.status \in Final
    BY <1>1, <1>3 DEF Events, Final
  <1>5. ChargedExactly(event)
    <2>1. 0 * ImageCost = 0
      BY LedgerAssumption
    <2> QED
      BY <1>1, <1>3, <2>1 DEF ChargedExactly, Final, Events
  <1>6. event.member - event.memberActual = old.member /\ event.regular - event.regularActual = old.regular
    BY <1>1, <1>3 DEF Events
  <1> QED
    BY <1>1, <1>2, <1>3, <1>4, <1>5, <1>6 DEF Closing, old

\* Every step is one of these.
LEMMA MoneyStep ==
  ASSUME Rows, EventInv, [Next]_vars
  PROVE  \/ \E u \in Users, e \in Slots : \E event : Opening(u, e, event)
         \/ \E e \in Slots : \E event : Closing(e, event)
         \/ \E u \in Users : Authenticate(u) \/ Checkin(u) \/ \E c \in Codes : Redeem(u, c)
         \/ \E u \in Users, coins \in AdminQuotas : SetQuota(u, coins)
         \/ MoneyStays
PROOF
  <1> USE DEF memberVars, userVars
  <1>0. now \in Nat
    BY LedgerAssumption DEF Rows, TypeOK
  <1>1. CASE \E u \in Users : UserStep(u)
    BY <1>1, ReserveOpens DEF UserStep
  <1>2. CASE \E e \in Slots : RequestStep(e)
    <2>1. ASSUME NEW e \in Slots, EndRequest(e) PROVE MoneyStays
      BY <1>0, <2>1 DEF EndRequest, MoneyStays
    <2> QED
      BY <1>2, <2>1, SettleCloses DEF RequestStep
  <1>3. CASE \E u \in ManagedUsers : AdminStep(u)
    <2>1. ASSUME NEW u \in ManagedUsers,
                 DeleteUser(u) \/ (\E on \in BOOLEAN : SetEnabled(u, on))
                               \/ (\E limit \in AdminLimits : SetConcurrency(u, limit))
          PROVE  MoneyStays
      BY <1>0, <2>1 DEF DeleteUser, SetEnabled, SetConcurrency, MoneyStays
    <2> QED
      BY <1>3, <2>1, LedgerAssumption DEF AdminStep
  <1>4. CASE \E c \in ManagedCodes : CodeStep(c)
    <2>1. ASSUME NEW c \in ManagedCodes, NEW on \in BOOLEAN, SetCodeEnabled(c, on) PROVE MoneyStays
      BY <1>0, <2>1 DEF SetCodeEnabled, MoneyStays, Rows, TypeOK, CodeRows
    <2>2. ASSUME NEW c \in ManagedCodes, DeleteCode(c) PROVE MoneyStays
      BY <1>0, <2>2 DEF DeleteCode, MoneyStays, Rows, TypeOK, CodeRows
    <2> QED
      BY <1>4, <2>1, <2>2 DEF CodeStep
  <1>5. CASE Recovery
    <2>1. ASSUME StartRecovery PROVE MoneyStays
      BY <1>0, <2>1 DEF StartRecovery, MoneyStays
    <2> QED
      BY <1>5, <2>1, RecoveryCloses DEF Recovery
  <1>6. CASE Restart \/ Tick \/ UNCHANGED vars
    BY <1>0, <1>6 DEF Restart, Tick, vars, MoneyStays
  <1> QED
    BY <1>1, <1>2, <1>3, <1>4, <1>5, <1>6 DEF Next

-----------------------------------------------------------------------------
(* Events *)

\* Every step keeps the events good.
LEMMA EventsStep == Rows /\ EventInv /\ [Next]_vars => EventInv'
PROOF
  <1> SUFFICES ASSUME Rows, EventInv, [Next]_vars PROVE EventInv'
    OBVIOUS
  <1>0. events \in [Slots -> Events]
    BY DEF Rows, TypeOK
  <1>1. ASSUME NEW e \in Slots, NEW event, events' = [events EXCEPT ![e] = event], ChargedExactly(event)
        PROVE  EventInv'
    BY <1>0, <1>1 DEF EventInv, ChargedExactly
  <1>2. ASSUME events' = events PROVE EventInv'
    BY <1>2 DEF EventInv, ChargedExactly
  <1>3. ASSUME NEW u \in Users, NEW e \in Slots, NEW event, Opening(u, e, event) PROVE EventInv'
    BY <1>1, <1>3 DEF Opening
  <1>4. ASSUME NEW e \in Slots, NEW event, Closing(e, event) PROVE EventInv'
    BY <1>1, <1>4 DEF Closing
  <1>5. ASSUME NEW u \in Users, Authenticate(u) \/ Checkin(u) \/ \E c \in Codes : Redeem(u, c)
        PROVE  EventInv'
    BY <1>2, <1>5 DEF Authenticate, Checkin, Redeem
  <1>6. ASSUME NEW u \in Users, NEW coins \in AdminQuotas, SetQuota(u, coins) PROVE EventInv'
    BY <1>2, <1>6 DEF SetQuota
  <1>7. CASE MoneyStays
    BY <1>2, <1>7 DEF MoneyStays
  <1> QED
    BY <1>3, <1>4, <1>5, <1>6, <1>7, MoneyStep

\* No event was written at first.
LEMMA InitEvents == Init => EventInv
PROOF
  <1> SUFFICES ASSUME Init PROVE EventInv
    OBVIOUS
  <1>1. ChargedExactly(NoEvent)
    BY DEF ChargedExactly, NoEvent, Final
  <1> QED
    BY <1>1 DEF Init, EventInv

\* Every event reserves what its images cost, is charged what was delivered, member coins first, and
\* has spent member coins inside the period they were granted for only.
THEOREM EventsAlways == Spec => []EventInv
PROOF
  <1>1. Init => EventInv
    BY InitEvents
  <1>2. Rows /\ EventInv /\ [Next]_vars => EventInv'
    BY EventsStep
  <1> QED
    BY <1>1, <1>2, RowsAlways, PTL DEF Spec

\* A finished event charges exactly the delivered images (ChargesAreExact), and member coins are spent in
\* their period (MemberCoinsInPeriod), for any prices, counts, plans and clock.
THEOREM ChargesAlwaysExact == Spec => [](ChargesAreExact /\ MemberCoinsInPeriod)
PROOF
  <1>1. Rows /\ EventInv => ChargesAreExact /\ MemberCoinsInPeriod
    BY DEF EventInv, ChargedExactly, ChargesAreExact, MemberCoinsInPeriod
  <1> QED
    BY <1>1, EventsAlways, RowsAlways, PTL

-----------------------------------------------------------------------------
(* Refinement: the ledger implements CoinHolds *)

\* The mapped hold of an event.
HoldOf(event) == [state |-> HoldState(event.status), user |-> event.user,
                  coins |-> event.regular, charged |-> event.regularActual]
Held == [e \in Slots |-> HoldOf(events[e])]

\* An event is absent, held or settled in the contract.
LEMMA HoldStates ==
  /\ HoldState("unused") = "unused" /\ HoldState("reserved") = "open"
  /\ \A s \in Final : HoldState(s) = "closed"
  BY DEF HoldState, Final

\* An event that is opened is a hold of the contract.
LEMMA OpeningOpens ==
  ASSUME Rows, EventInv, NEW u \in Users, NEW e \in Slots, NEW event, Opening(u, e, event)
  PROVE  Contract!Open(u, e)
PROOF
  <1>1. event.regular \in 0 .. imageQuota[u] /\ event.regularActual = 0
    BY DEF Opening, ChargedExactly, Events, Rows, TypeOK
  <1>2. Held[e].state = "unused"
    BY HoldStates DEF Opening, Held, HoldOf
  <1>3. HoldOf(event) = [state |-> "open", user |-> u, coins |-> event.regular, charged |-> 0]
    BY <1>1, HoldStates DEF Opening, HoldOf
  <1>4. Held' = [Held EXCEPT ![e] = HoldOf(event)]
    <2>1. Held' = [f \in Slots |-> HoldOf(events'[f])]
      BY DEF Held, HoldOf
    <2>2. events' = [events EXCEPT ![e] = event] /\ events \in [Slots -> Events]
      BY DEF Opening, Rows, TypeOK
    <2> HIDE DEF HoldOf
    <2> QED
      BY <2>1, <2>2 DEF Held
  <1>5. imageQuota' = [imageQuota EXCEPT ![u] = @ - event.regular]
    BY DEF Opening
  <1> QED
    BY <1>1, <1>2, <1>3, <1>4, <1>5 DEF Contract!Open, Held, HoldOf

\* Events that are closed are settled by the contract.
LEMMA ClosingCloses ==
  ASSUME Rows, EventInv, NEW e \in Slots, NEW event, Closing(e, event)
  PROVE  Contract!Close(e)
PROOF
  <1> DEFINE old == events[e]
  <1>1. /\ event \in Events /\ old \in Events /\ old.user \in Users
        /\ event.user = old.user /\ event.regular = old.regular
        /\ event.regularActual \in 0 .. old.regular
        /\ HoldState(old.status) = "open" /\ HoldState(event.status) = "closed"
    BY HoldStates DEF Closing, ChargedExactly, Events, Rows, TypeOK, EventsOwned
  <1>2. events' = [events EXCEPT ![e] = event] /\ events \in [Slots -> Events]
    BY DEF Closing, Rows, TypeOK
  <1>3. imageQuota' = [imageQuota EXCEPT ![old.user] = @ + (event.regular - event.regularActual)]
    BY <1>1 DEF Closing, Release
  <1>4. imageQuota' = [imageQuota EXCEPT ![Held[e].user] = @ + Held[e].coins - event.regularActual]
    <2>1. Held[e].user = old.user /\ Held[e].coins = old.regular
      BY DEF Held, HoldOf
    <2>2. imageQuota[old.user] + (event.regular - event.regularActual)
          = imageQuota[old.user] + old.regular - event.regularActual
      BY <1>1 DEF Rows, TypeOK, Events
    <2> QED
      BY <1>3, <2>1, <2>2
  <1>5. HoldOf(event) = [HoldOf(old) EXCEPT !.state = "closed", !.charged = event.regularActual]
    <2>1. HoldOf(old) = [state |-> "open", user |-> old.user, coins |-> old.regular,
                         charged |-> old.regularActual]
      BY <1>1 DEF HoldOf
    <2>2. HoldOf(event) = [state |-> "closed", user |-> old.user, coins |-> old.regular,
                           charged |-> event.regularActual]
      BY <1>1 DEF HoldOf
    <2> DEFINE closed == [HoldOf(old) EXCEPT !.state = "closed"]
    <2>3. closed = [state |-> "closed", user |-> old.user, coins |-> old.regular,
                    charged |-> old.regularActual]
      BY <2>1
    <2>4. [HoldOf(old) EXCEPT !.state = "closed", !.charged = event.regularActual]
          = [closed EXCEPT !.charged = event.regularActual]
      OBVIOUS
    <2> HIDE DEF closed, HoldOf
    <2>5. [closed EXCEPT !.charged = event.regularActual] = HoldOf(event)
      BY <2>2, <2>3
    <2> QED
      BY <2>4, <2>5
  <1>6. Held' = [Held EXCEPT ![e] = HoldOf(event)]
    <2>1. Held' = [f \in Slots |-> HoldOf(events'[f])]
      BY DEF Held, HoldOf
    <2> HIDE DEF HoldOf
    <2> QED
      BY <1>2, <2>1 DEF Held
  <1>7. Held' = [Held EXCEPT ![e].state = "closed", ![e].charged = event.regularActual]
    <2> HIDE DEF HoldOf
    <2> QED
      BY <1>5, <1>6 DEF Held
  <1>8. Held[e].state = "open" /\ event.regularActual \in 0 .. Held[e].coins
    BY <1>1 DEF Held, HoldOf
  <1> QED
    BY <1>4, <1>7, <1>8 DEF Contract!Close, Held, HoldOf

\* A grant, a correction by an administrator, and every step that leaves the events alone.
LEMMA OthersAdjust ==
  ASSUME Rows, NEW u \in Users, events' = events, imageQuota' = [imageQuota EXCEPT ![u] = imageQuota'[u]],
         imageQuota'[u] \in Nat
  PROVE  Contract!Adjust(u)
  BY DEF Contract!Adjust

\* Every step of the ledger is one of the contract, or a stutter.
LEMMA ContractStep == Rows /\ Rows' /\ EventInv /\ [Next]_vars => [Contract!Next]_(Contract!vars)
PROOF
  <1> SUFFICES ASSUME Rows, Rows', EventInv, [Next]_vars PROVE [Contract!Next]_(Contract!vars)
    OBVIOUS
  <1>1. ASSUME NEW u \in Users, NEW e \in Slots, NEW event, Opening(u, e, event) PROVE Contract!Next
    BY <1>1, OpeningOpens DEF Contract!Next
  <1>2. ASSUME NEW e \in Slots, NEW event, Closing(e, event) PROVE Contract!Next
    BY <1>2, ClosingCloses DEF Contract!Next
  <1>0. \A u \in Users : imageQuota'[u] \in Nat
    BY DEF Rows, TypeOK
  <1>q. imageQuota \in [Users -> Nat]
    BY DEF Rows, TypeOK
  <1>3. ASSUME NEW u \in Users, Checkin(u) \/ \E c \in Codes : Redeem(u, c) PROVE Contract!Next
    <2>1. events' = events
      BY <1>3 DEF Checkin, Redeem
    <2>2. imageQuota' = [imageQuota EXCEPT ![u] = imageQuota'[u]]
      BY <1>3, <1>q DEF Checkin, Redeem
    <2> QED
      BY <1>0, <2>1, <2>2, OthersAdjust DEF Contract!Next
  <1>4. ASSUME NEW u \in Users, NEW coins \in AdminQuotas, SetQuota(u, coins) PROVE Contract!Next
    <2>1. events' = events
      BY <1>4 DEF SetQuota
    <2>2. imageQuota' = [imageQuota EXCEPT ![u] = imageQuota'[u]]
      BY <1>4, <1>q DEF SetQuota
    <2> QED
      BY <1>0, <2>1, <2>2, OthersAdjust DEF Contract!Next
  <1>5. ASSUME imageQuota' = imageQuota, events' = events PROVE UNCHANGED Contract!vars
    BY <1>5 DEF Contract!vars
  <1>6. ASSUME NEW u \in Users, Authenticate(u) PROVE UNCHANGED Contract!vars
    BY <1>5, <1>6 DEF Authenticate, userVars
  <1>7. CASE MoneyStays
    BY <1>5, <1>7 DEF MoneyStays
  <1> QED
    BY <1>1, <1>2, <1>3, <1>4, <1>6, <1>7, MoneyStep

\* The ledger begins as the contract does.
LEMMA ContractInit == Init => Contract!Init
PROOF
  <1> SUFFICES ASSUME Init PROVE Contract!Init
    OBVIOUS
  <1>1. imageQuota \in [Users -> Nat]
    BY LedgerAssumption DEF Init
  <1>2. Held = [e \in Slots |-> [state |-> "unused", user |-> None, coins |-> 0, charged |-> 0]]
    BY HoldStates DEF Init, Held, HoldOf, NoEvent
  <1> QED
    BY <1>1, <1>2 DEF Contract!Init, Held, HoldOf

\* Reserve, settle and recover, with memberships, expiry, redeeming, retries and restarts around them,
\* implement CoinHolds: coins leave a balance into a hold only, a hold is closed once, and closing it gives
\* back exactly what is not charged.
THEOREM LedgerHonoursContract == Spec => HonoursContract
PROOF
  <1>1. Init => Contract!Init
    BY ContractInit
  <1>2. Rows /\ Rows' /\ EventInv /\ [Next]_vars => [Contract!Next]_(Contract!vars)
    BY ContractStep
  <1> QED
    BY <1>1, <1>2, RowsAlways, EventsAlways, PTL DEF Spec, HonoursContract, Contract!Spec

-----------------------------------------------------------------------------
(* Check-ins: nothing is recorded for a day to come, so that a check-in      *)
(* writes the last day of the calendar and continues or starts one run.      *)

NothingAhead == \A u \in Users, d \in Days : d > now => streakOn[u][d] = 0
CheckinInv   == StreaksAreRuns /\ NothingAhead

\* Nobody has checked in at first.
LEMMA InitCheckins == Init => CheckinInv
  BY DEF Init, CheckinInv, StreaksAreRuns, NothingAhead

\* The run that ends with a check-in today.
LEMMA RunOfToday ==
  ASSUME Rows, CheckinInv, NEW u \in Users
  PROVE  /\ StreakToday(u) \in Nat \ {0} /\ StreakToday(u) <= now + 1
         /\ \A i \in (now - StreakToday(u) + 1) .. (now - 1) : streakOn[u][i] > 0
         /\ now >= StreakToday(u) => streakOn[u][now - StreakToday(u)] = 0
PROOF
  <1>1. now \in Days /\ now \in Nat /\ streakOn[u] \in [Days -> Nat]
    BY LedgerAssumption DEF Rows, TypeOK, Days
  <1>2. CASE now > 0 /\ streakOn[u][now - 1] > 0
    <2> DEFINE before == streakOn[u][now - 1]
    <2>1. now - 1 \in Days /\ before \in Nat \ {0}
      BY <1>1, <1>2, LedgerAssumption DEF Days
    <2>2. /\ before <= now - 1 + 1
          /\ \A i \in (now - 1 - before + 1) .. (now - 1) : streakOn[u][i] > 0
          /\ now - 1 >= before => streakOn[u][now - 1 - before] = 0
      BY <2>1 DEF CheckinInv, StreaksAreRuns
    <2>3. StreakToday(u) = before + 1
      BY <1>2 DEF StreakToday
    <2> HIDE DEF before
    <2>4. now - (before + 1) + 1 = now - 1 - before + 1 /\ now - (before + 1) = now - 1 - before
      BY <1>1, <2>1
    <2>5. now >= before + 1 => now - 1 >= before
      BY <1>1, <2>1
    <2>6. before + 1 \in Nat \ {0} /\ before + 1 <= now + 1
      BY <1>1, <2>1, <2>2
    <2> QED
      BY <2>2, <2>3, <2>4, <2>5, <2>6
  <1>3. CASE ~(now > 0 /\ streakOn[u][now - 1] > 0)
    <2>1. StreakToday(u) = 1
      BY <1>3 DEF StreakToday
    <2>2. now >= 1 => streakOn[u][now - 1] = 0
      BY <1>1, <1>3, LedgerAssumption DEF Days
    <2> QED
      BY <1>1, <2>1, <2>2
  <1> QED
    BY <1>2, <1>3

\* A check-in continues the run of yesterday, or begins one.
LEMMA CheckinKeepsRuns ==
  ASSUME Rows, CheckinInv, NEW v \in Users, Checkin(v)
  PROVE  CheckinInv'
PROOF
  <1> DEFINE today == StreakToday(v)
  <1>1. now \in Days /\ now \in Nat /\ streakOn \in [Users -> [Days -> Nat]] /\ now' = now
    BY LedgerAssumption DEF Rows, TypeOK, Days, Checkin
  <1>2. streakOn' = [streakOn EXCEPT ![v] = [streakOn[v] EXCEPT ![now] = today]]
    BY DEF Checkin
  <1>3. /\ today \in Nat \ {0} /\ today <= now + 1
        /\ \A i \in (now - today + 1) .. (now - 1) : streakOn[v][i] > 0
        /\ now >= today => streakOn[v][now - today] = 0
    BY RunOfToday
  <1> HIDE DEF today
  <1>4. /\ \A u \in Users \ {v} : streakOn'[u] = streakOn[u]
        /\ \A d \in Days \ {now} : streakOn'[v][d] = streakOn[v][d]
        /\ streakOn'[v][now] = today
    BY <1>1, <1>2
  <1>5. NothingAhead'
    <2> SUFFICES ASSUME NEW u \in Users, NEW d \in Days, d > now PROVE streakOn'[u][d] = 0
      BY <1>1 DEF NothingAhead
    <2> QED
      BY <1>1, <1>4 DEF CheckinInv, NothingAhead, Days
  <1>6. StreaksAreRuns'
    <2> SUFFICES ASSUME NEW u \in Users, NEW d \in Days, NEW s, s = streakOn'[u][d], s > 0
                 PROVE  /\ s <= d + 1
                        /\ \A i \in (d - s + 1) .. d : streakOn'[u][i] > 0
                        /\ d >= s => streakOn'[u][d - s] = 0
      BY DEF StreaksAreRuns
    <2>1. CASE u # v
      BY <1>4, <2>1 DEF CheckinInv, StreaksAreRuns
    <2>2. CASE u = v /\ d = now
      <3>1. s = today
        BY <1>4, <2>2
      <3>2. ASSUME NEW i \in (now - today + 1) .. now PROVE streakOn'[v][i] > 0
        <4>1. CASE i = now
          BY <1>3, <1>4, <4>1
        <4>2. CASE i # now
          <5>1. i \in (now - today + 1) .. (now - 1) /\ i \in Days
            BY <1>1, <1>3, <4>2, LedgerAssumption DEF Days
          <5> QED
            BY <1>3, <1>4, <4>2, <5>1
        <4> QED
          BY <4>1, <4>2
      <3>3. ASSUME now >= today PROVE streakOn'[v][now - today] = 0
        <4>1. now - today \in Days \ {now}
          BY <1>1, <1>3, <3>3, LedgerAssumption DEF Days
        <4> QED
          BY <1>3, <1>4, <3>3, <4>1
      <3> QED
        BY <1>3, <2>2, <3>1, <3>2, <3>3
    <2>3. CASE u = v /\ d # now
      <3>1. s = streakOn[v][d] /\ d < now
        <4>1. s = streakOn[v][d]
          BY <1>4, <2>3
        <4>2. d > now => s = 0
          BY <4>1, <2>3 DEF CheckinInv, NothingAhead
        <4> QED
          BY <1>1, <4>1, <4>2, <2>3 DEF Days
      <3>2. /\ s <= d + 1
            /\ \A i \in (d - s + 1) .. d : streakOn[v][i] > 0
            /\ d >= s => streakOn[v][d - s] = 0
        BY <3>1 DEF CheckinInv, StreaksAreRuns
      <3>3. s \in Nat \ {0} /\ d \in Nat /\ d <= MaxTime
        BY <1>1, <3>1, LedgerAssumption DEF Days
      <3>4. ASSUME NEW i \in (d - s + 1) .. d PROVE i \in Days \ {now}
        <4>1. i \in Int /\ d - s + 1 <= i /\ i <= d
          BY <3>3
        <4>2. 0 <= i /\ i < now
          BY <1>1, <3>1, <3>2, <3>3, <4>1
        <4>3. i <= MaxTime
          BY <3>3, <4>1, LedgerAssumption
        <4> QED
          BY <4>1, <4>2, <4>3, LedgerAssumption DEF Days
      <3>5. ASSUME d >= s PROVE d - s \in Days \ {now}
        <4>1. MaxTime \in Nat /\ now \in Nat
          BY <1>1, LedgerAssumption DEF Days
        <4>2. d - s \in Nat /\ d - s < now /\ d - s <= MaxTime
          BY <3>1, <3>3, <3>5, <4>1
        <4> QED
          BY <4>1, <4>2 DEF Days
      <3> QED
        BY <1>4, <2>3, <3>2, <3>4, <3>5
    <2> QED
      BY <2>1, <2>2, <2>3
  <1> QED
    BY <1>5, <1>6 DEF CheckinInv

\* Every step keeps the streaks right.
LEMMA CheckinsStep == Rows /\ EventInv /\ CheckinInv /\ [Next]_vars => CheckinInv'
PROOF
  <1> SUFFICES ASSUME Rows, EventInv, CheckinInv, [Next]_vars PROVE CheckinInv'
    OBVIOUS
  <1>1. ASSUME streakOn' = streakOn, now' \in {now, now + 1} PROVE CheckinInv'
    <2>1. StreaksAreRuns'
      BY <1>1 DEF CheckinInv, StreaksAreRuns
    <2>2. \A d \in Days : d > now' => d > now
      BY <1>1, LedgerAssumption DEF Rows, TypeOK, Days
    <2> QED
      BY <1>1, <2>1, <2>2 DEF CheckinInv, NothingAhead
  <1>2. ASSUME NEW u \in Users, NEW e \in Slots, NEW event, Opening(u, e, event) \/ Closing(e, event)
        PROVE  CheckinInv'
    BY <1>1, <1>2 DEF Opening, Closing
  <1>3. ASSUME NEW u \in Users, Authenticate(u) \/ \E c \in Codes : Redeem(u, c) PROVE CheckinInv'
    BY <1>1, <1>3 DEF Authenticate, Redeem
  <1>4. ASSUME NEW u \in Users, NEW coins \in AdminQuotas, SetQuota(u, coins) PROVE CheckinInv'
    BY <1>1, <1>4 DEF SetQuota
  <1>5. ASSUME NEW u \in Users, Checkin(u) PROVE CheckinInv'
    BY <1>5, CheckinKeepsRuns
  <1>6. CASE MoneyStays
    BY <1>1, <1>6 DEF MoneyStays
  <1>7. ASSUME NEW e \in Slots, NEW event, Closing(e, event) PROVE CheckinInv'
    BY <1>1, <1>7 DEF Closing
  <1> QED
    BY <1>2, <1>3, <1>4, <1>5, <1>6, <1>7, MoneyStep

\* The streak of a check-in is the length of the run of days that ends on it, whatever days are missed and
\* whatever clock the calls see.
THEOREM StreaksAlwaysRuns == Spec => []CheckinInv
PROOF
  <1> QED
    BY InitCheckins, CheckinsStep, RowsAlways, EventsAlways, PTL DEF Spec

-----------------------------------------------------------------------------
(* Balances *)

CoinTerms(u)   == [c \in Codes |-> CoinsFrom(u, c)]
RewardTerms(u) == [d \in Days |-> RewardOn(u, d)]
TakenTerms(u)  == [e \in Slots |-> TakenFrom(u, e)]
CoinSum(u)   == SumFunction(CoinTerms(u))
RewardSum(u) == SumFunction(RewardTerms(u))
TakenSum(u)  == SumFunction(TakenTerms(u))
Explained(u) == imageQuota[u] = InitialQuota + CoinSum(u) + RewardSum(u) + adjustment[u] - TakenSum(u)

\* The balances are explained user by user.
LEMMA ExplainedIsThat == BalanceExplained <=> \A u \in Users : Explained(u)
  BY DEF BalanceExplained, Explained, CoinSum, RewardSum, TakenSum, CoinTerms, RewardTerms, TakenTerms

TermsTyped == \A u \in Users :
    /\ CoinTerms(u) \in [Codes -> Int] /\ RewardTerms(u) \in [Days -> Int]
    /\ TakenTerms(u) \in [Slots -> Int]
    /\ CoinSum(u) \in Int /\ RewardSum(u) \in Int /\ TakenSum(u) \in Int

\* Sums range over codes, days and slots.
LEMMA SetsAreFinite == IsFiniteSet(Codes) /\ IsFiniteSet(Days) /\ IsFiniteSet(Slots)
  BY LedgerAssumption, FS_Interval DEF Days

\* What is added up are integers.
LEMMA TermsAreTyped == TypeOK => TermsTyped
PROOF
  <1> SUFFICES ASSUME TypeOK, NEW u \in Users
               PROVE  /\ CoinTerms(u) \in [Codes -> Int] /\ RewardTerms(u) \in [Days -> Int]
                      /\ TakenTerms(u) \in [Slots -> Int]
                      /\ CoinSum(u) \in Int /\ RewardSum(u) \in Int /\ TakenSum(u) \in Int
    BY DEF TermsTyped
  <1>1. CoinTerms(u) \in [Codes -> Int]
    BY LedgerAssumption DEF CoinTerms, CoinsFrom, Grants
  <1>2. RewardTerms(u) \in [Days -> Int]
    BY LedgerAssumption DEF RewardTerms, RewardOn, Reward
  <1>3. TakenTerms(u) \in [Slots -> Int]
    BY DEF TakenTerms, TakenFrom, Taken, TypeOK, Events
  <1>4. CoinSum(u) \in Int
    BY <1>1, SetsAreFinite, SumIsInteger DEF CoinSum
  <1>5. RewardSum(u) \in Int
    BY <1>2, SetsAreFinite, SumIsInteger DEF RewardSum
  <1>6. TakenSum(u) \in Int
    BY <1>3, SetsAreFinite, SumIsInteger DEF TakenSum
  <1> QED
    BY <1>1, <1>2, <1>3, <1>4, <1>5, <1>6

\* A sum stays while its rows do.
LEMMA CoinsStay ==
  ASSUME NEW u \in Users, \A c \in Codes : codes'[c].usedBy = codes[c].usedBy
  PROVE  CoinSum(u)' = CoinSum(u)
PROOF
  <1> CoinTerms(u)' = CoinTerms(u)
    BY DEF CoinTerms, CoinsFrom
  <1> QED
    BY DEF CoinSum

\* The rewards of a user stay while the check-ins do.
LEMMA RewardsStay ==
  ASSUME NEW u \in Users, streakOn' = streakOn
  PROVE  RewardSum(u)' = RewardSum(u)
PROOF
  <1> RewardTerms(u)' = RewardTerms(u)
    BY DEF RewardTerms, RewardOn, Reward
  <1> QED
    BY DEF RewardSum

\* What was taken from a user stays while the events do.
LEMMA TakenStays ==
  ASSUME NEW u \in Users, events' = events
  PROVE  TakenSum(u)' = TakenSum(u)
PROOF
  <1> TakenTerms(u)' = TakenTerms(u)
    BY DEF TakenTerms, TakenFrom, Taken
  <1> QED
    BY DEF TakenSum

\* One event is written.
LEMMA TakenChanges ==
  ASSUME TermsTyped, TermsTyped', TypeOK, NEW u \in Users, NEW e \in Slots, NEW event,
         events' = [events EXCEPT ![e] = event]
  PROVE  TakenSum(u)' = TakenSum(u) + (IF event.user = u THEN Taken(event) ELSE 0) - TakenFrom(u, e)
PROOF
  <1> DEFINE f == TakenTerms(u)
             h == TakenTerms(u)'
  <1>1. f \in [Slots -> Int] /\ h \in [Slots -> Int]
    BY DEF TermsTyped
  <1>2. \A x \in Slots \ {e} : h[x] = f[x]
    BY DEF TypeOK, TakenTerms, TakenFrom, Taken
  <1>3. h[e] = (IF event.user = u THEN Taken(event) ELSE 0) /\ f[e] = TakenFrom(u, e)
    BY DEF TypeOK, TakenTerms, TakenFrom, Taken
  <1>4. TakenSum(u) = SumFunction(f) /\ TakenSum(u)' = SumFunction(h)
    BY DEF TakenSum
  <1> HIDE DEF f, h
  <1>5. SumFunction(h) = SumFunction(f) + h[e] - f[e]
    BY <1>1, <1>2, SetsAreFinite, SumOfChangedTerm
  <1> QED
    BY <1>3, <1>4, <1>5

\* One check-in is recorded.
LEMMA RewardsChange ==
  ASSUME TermsTyped, TermsTyped', TypeOK, NEW u \in Users, NEW v \in Users, NEW d \in Days,
         NEW s \in Nat \ {0}, streakOn[v][d] = 0,
         streakOn' = [streakOn EXCEPT ![v] = [streakOn[v] EXCEPT ![d] = s]]
  PROVE  RewardSum(u)' = RewardSum(u) + (IF u = v THEN Reward(s) ELSE 0)
PROOF
  <1> DEFINE f == RewardTerms(u)
             h == RewardTerms(u)'
  <1>1. f \in [Days -> Int] /\ h \in [Days -> Int]
    BY DEF TermsTyped
  <1>2. \A x \in Days \ {d} : h[x] = f[x]
    BY DEF TypeOK, RewardTerms, RewardOn, Reward
  <1>3. h[d] = (IF u = v THEN Reward(s) ELSE f[d]) /\ (u = v => f[d] = 0)
    BY DEF TypeOK, RewardTerms, RewardOn, Reward
  <1>4. RewardSum(u) = SumFunction(f) /\ RewardSum(u)' = SumFunction(h)
    BY DEF RewardSum
  <1>5. SumFunction(f) \in Int /\ Reward(s) \in Int /\ f[d] \in Int
    <2>1. Reward(s) \in Int
      BY LedgerAssumption DEF Reward
    <2> QED
      BY <1>1, <2>1, SetsAreFinite, SumIsInteger
  <1> HIDE DEF f, h
  <1>6. SumFunction(h) = SumFunction(f) + h[d] - f[d]
    BY <1>1, <1>2, SetsAreFinite, SumOfChangedTerm
  <1> QED
    BY <1>3, <1>4, <1>5, <1>6

\* One code is taken.
LEMMA CoinsChange ==
  ASSUME TermsTyped, TermsTyped', TypeOK, NEW u \in Users, NEW v \in Users, NEW c \in Codes,
         codes[c].usedBy = None, codes' = [codes EXCEPT ![c].usedBy = v]
  PROVE  CoinSum(u)' = CoinSum(u) + (IF u = v /\ CodeGrant[c].type = "image_quota"
                                     THEN CodeGrant[c].value ELSE 0)
PROOF
  <1> DEFINE f == CoinTerms(u)
             h == CoinTerms(u)'
  <1>1. f \in [Codes -> Int] /\ h \in [Codes -> Int]
    BY DEF TermsTyped
  <1>0. None # u
    BY LedgerAssumption
  <1>2. codes'[c].usedBy = v /\ \A x \in Codes \ {c} : codes'[x] = codes[x]
    BY DEF TypeOK, CodeRows
  <1>3. \A x \in Codes \ {c} : h[x] = f[x]
    BY <1>2 DEF CoinTerms, CoinsFrom
  <1>4. h[c] = (IF u = v /\ CodeGrant[c].type = "image_quota" THEN CodeGrant[c].value ELSE 0)
        /\ f[c] = 0
    BY <1>0, <1>2 DEF CoinTerms, CoinsFrom
  <1>5. CoinSum(u) = SumFunction(f) /\ CoinSum(u)' = SumFunction(h)
    BY DEF CoinSum
  <1>6. SumFunction(f) \in Int
    BY <1>1, SetsAreFinite, SumIsInteger
  <1> HIDE DEF f, h
  <1>7. SumFunction(h) = SumFunction(f) + h[c] - f[c]
    BY <1>1, <1>3, SetsAreFinite, SumOfChangedTerm
  <1>8. h[c] \in Int
    BY <1>1
  <1> QED
    BY <1>4, <1>5, <1>6, <1>7, <1>8

\* Each kind of step keeps one balance explained.
LEMMA OpeningBalances ==
  ASSUME Rows, EventInv, TermsTyped, TermsTyped', NEW u \in Users, Explained(u),
         NEW v \in Users, NEW e \in Slots, NEW event, Opening(v, e, event)
  PROVE  Explained(u)'
PROOF
  <1>1. TypeOK /\ events' = [events EXCEPT ![e] = event] /\ event.user = v /\ Taken(event) = event.regular
    BY DEF Rows, Opening, Taken
  <1>2. TakenFrom(u, e) = 0
    <2>1. events[e] = NoEvent
      BY DEF EventInv, ChargedExactly, Opening
    <2> QED
      BY <2>1, LedgerAssumption DEF TakenFrom, NoEvent
  <1>3. TakenSum(u)' = TakenSum(u) + (IF v = u THEN event.regular ELSE 0) - 0
    BY <1>1, <1>2, TakenChanges
  <1>4. CoinSum(u)' = CoinSum(u) /\ RewardSum(u)' = RewardSum(u)
    BY CoinsStay, RewardsStay DEF Opening
  <1>5. imageQuota'[u] = imageQuota[u] - (IF v = u THEN event.regular ELSE 0)
    BY <1>1 DEF TypeOK, Opening
  <1>6. event.regular \in Nat /\ imageQuota[u] \in Nat /\ adjustment[u] \in Int
    BY <1>1 DEF TypeOK, Opening, Events
  <1>7. adjustment' = adjustment
    BY DEF Opening
  <1> QED
    BY <1>3, <1>4, <1>5, <1>6, <1>7, LedgerAssumption DEF Explained, TermsTyped

\* Closing events pays back what is no longer taken.
LEMMA ClosingBalances ==
  ASSUME Rows, EventInv, TermsTyped, TermsTyped', NEW u \in Users, Explained(u),
         NEW e \in Slots, NEW event, Closing(e, event)
  PROVE  Explained(u)'
PROOF
  <1> DEFINE v == events[e].user
             back == event.regular - event.regularActual
  <1>1. /\ TypeOK /\ v \in Users
        /\ events' = [events EXCEPT ![e] = event]
        /\ event.user = v /\ Taken(event) = event.regularActual
        /\ TakenFrom(u, e) = (IF v = u THEN event.regular ELSE 0)
    BY DEF Rows, EventsOwned, Closing, Taken, TakenFrom, Final
  <1>2. TakenSum(u)' = TakenSum(u) + (IF v = u THEN event.regularActual ELSE 0)
                       - (IF v = u THEN event.regular ELSE 0)
    <2>1. TakenSum(u)' = TakenSum(u) + (IF event.user = u THEN Taken(event) ELSE 0) - TakenFrom(u, e)
      BY <1>1, TakenChanges
    <2> HIDE DEF v
    <2> QED
      BY <1>1, <2>1
  <1>3. CoinSum(u)' = CoinSum(u) /\ RewardSum(u)' = RewardSum(u)
    BY CoinsStay, RewardsStay DEF Closing
  <1>4. imageQuota'[u] = imageQuota[u] + (IF v = u THEN back ELSE 0)
    BY <1>1 DEF TypeOK, Closing, Release
  <1>5. event.regular \in Nat /\ event.regularActual \in Nat /\ imageQuota[u] \in Nat
        /\ adjustment[u] \in Int
    BY <1>1 DEF TypeOK, Closing, Events
  <1>6. adjustment' = adjustment
    BY DEF Closing
  <1> QED
    BY <1>2, <1>3, <1>4, <1>5, <1>6, LedgerAssumption DEF Explained, TermsTyped

\* A code that is redeemed pays what it is worth.
LEMMA GrantBalances ==
  ASSUME Rows, TermsTyped, TermsTyped', NEW u \in Users, Explained(u),
         NEW v \in Users, NEW c \in Codes, Redeem(v, c)
  PROVE  Explained(u)'
PROOF
  <1> DEFINE value == IF CodeGrant[c].type = "image_quota" THEN CodeGrant[c].value ELSE 0
  <1>1. TypeOK /\ codes[c].usedBy = None /\ codes' = [codes EXCEPT ![c].usedBy = v]
        /\ imageQuota' = [imageQuota EXCEPT ![v] = @ + value]
        /\ events' = events /\ streakOn' = streakOn /\ adjustment' = adjustment
    BY DEF Rows, Redeem, Usable
  <1>2. value \in Nat
    BY LedgerAssumption DEF Grants
  <1>3. CoinSum(u)' = CoinSum(u) + (IF u = v THEN value ELSE 0)
    BY <1>1, CoinsChange
  <1> HIDE DEF value
  <1>4. TakenSum(u)' = TakenSum(u) /\ RewardSum(u)' = RewardSum(u)
    BY <1>1, TakenStays, RewardsStay
  <1>5. imageQuota'[u] = imageQuota[u] + (IF u = v THEN value ELSE 0)
    BY <1>1, <1>2 DEF TypeOK
  <1>6. imageQuota[u] \in Nat /\ adjustment[u] \in Int
    BY <1>1 DEF TypeOK
  <1> QED
    BY <1>1, <1>2, <1>3, <1>4, <1>5, <1>6, LedgerAssumption DEF Explained, TermsTyped

\* A check-in pays its reward.
LEMMA CheckinBalances ==
  ASSUME Rows, CheckinInv, TermsTyped, TermsTyped', NEW u \in Users, Explained(u),
         NEW v \in Users, Checkin(v)
  PROVE  Explained(u)'
PROOF
  <1> DEFINE today == StreakToday(v)
             reward == Reward(today)
  <1>1. /\ TypeOK /\ now \in Days /\ streakOn[v][now] = 0
        /\ streakOn' = [streakOn EXCEPT ![v] = [streakOn[v] EXCEPT ![now] = today]]
        /\ imageQuota' = [imageQuota EXCEPT ![v] = @ + reward]
        /\ events' = events /\ codes' = codes /\ adjustment' = adjustment
    BY DEF Rows, TypeOK, Days, Checkin
  <1>2. today \in Nat \ {0}
    BY RunOfToday
  <1> HIDE DEF today
  <1>3. RewardSum(u)' = RewardSum(u) + (IF u = v THEN reward ELSE 0)
    BY <1>1, <1>2, RewardsChange
  <1>4. reward \in Nat
    BY LedgerAssumption DEF Reward
  <1> HIDE DEF reward
  <1>5. TakenSum(u)' = TakenSum(u) /\ CoinSum(u)' = CoinSum(u)
    BY <1>1, TakenStays, CoinsStay
  <1>6. imageQuota'[u] = imageQuota[u] + (IF u = v THEN reward ELSE 0)
    BY <1>1, <1>4 DEF TypeOK
  <1>7. imageQuota[u] \in Nat /\ adjustment[u] \in Int
    BY <1>1 DEF TypeOK
  <1> QED
    BY <1>1, <1>3, <1>4, <1>5, <1>6, <1>7, LedgerAssumption DEF Explained, TermsTyped

\* An administrator's correction is explained by itself.
LEMMA CorrectionBalances ==
  ASSUME Rows, TermsTyped, TermsTyped', NEW u \in Users, Explained(u),
         NEW v \in Users, NEW coins \in AdminQuotas, SetQuota(v, coins)
  PROVE  Explained(u)'
PROOF
  <1> DEFINE new == BalanceInput(coins)
  <1>1. /\ TypeOK
        /\ imageQuota' = [imageQuota EXCEPT ![v] = new]
        /\ adjustment' = [adjustment EXCEPT ![v] = @ + new - imageQuota[v]]
        /\ events' = events /\ codes' = codes /\ streakOn' = streakOn
    BY DEF Rows, SetQuota
  <1>2. new \in Int
    BY LedgerAssumption DEF BalanceInput, Maximum
  <1> HIDE DEF new
  <1>3. /\ TakenSum(u)' = TakenSum(u) /\ CoinSum(u)' = CoinSum(u) /\ RewardSum(u)' = RewardSum(u)
    BY <1>1, TakenStays, CoinsStay, RewardsStay
  <1>4. /\ imageQuota'[u] = (IF u = v THEN new ELSE imageQuota[u])
        /\ adjustment'[u] = (IF u = v THEN adjustment[u] + new - imageQuota[u] ELSE adjustment[u])
    BY <1>1 DEF TypeOK
  <1>5. imageQuota[u] \in Nat /\ adjustment[u] \in Int
    BY <1>1 DEF TypeOK
  <1> QED
    BY <1>2, <1>3, <1>4, <1>5, LedgerAssumption DEF Explained, TermsTyped

\* Nothing that explains a balance changes, nor does the balance.
LEMMA OthersBalance ==
  ASSUME NEW u \in Users, Explained(u), imageQuota' = imageQuota, adjustment' = adjustment,
         events' = events, streakOn' = streakOn, \A c \in Codes : codes'[c].usedBy = codes[c].usedBy
  PROVE  Explained(u)'
  BY TakenStays, CoinsStay, RewardsStay DEF Explained

\* Every step keeps the balances explained.
LEMMA BalanceStep ==
  Rows /\ EventInv /\ CheckinInv /\ TermsTyped /\ TermsTyped' /\ BalanceExplained /\ [Next]_vars
  => BalanceExplained'
PROOF
  <1> SUFFICES ASSUME Rows, EventInv, CheckinInv, TermsTyped, TermsTyped', BalanceExplained, [Next]_vars,
                      NEW u \in Users
               PROVE  Explained(u)'
    <2>1. BalanceExplained' <=> \A u \in Users : Explained(u)'
      BY DEF BalanceExplained, Explained, CoinSum, RewardSum, TakenSum, CoinTerms, RewardTerms, TakenTerms
    <2> QED
      BY <2>1
  <1>0. Explained(u)
    BY ExplainedIsThat
  <1>1. ASSUME NEW v \in Users, NEW e \in Slots, NEW event, Opening(v, e, event) PROVE Explained(u)'
    BY <1>0, <1>1, OpeningBalances
  <1>2. ASSUME NEW e \in Slots, NEW event, Closing(e, event) PROVE Explained(u)'
    BY <1>0, <1>2, ClosingBalances
  <1>3. ASSUME NEW v \in Users, Authenticate(v) PROVE Explained(u)'
    BY <1>0, <1>3, OthersBalance DEF Authenticate, userVars
  <1>4. ASSUME NEW v \in Users, Checkin(v) PROVE Explained(u)'
    BY <1>0, <1>4, CheckinBalances
  <1>5. ASSUME NEW v \in Users, NEW c \in Codes, Redeem(v, c) PROVE Explained(u)'
    BY <1>0, <1>5, GrantBalances
  <1>6. ASSUME NEW v \in Users, NEW coins \in AdminQuotas, SetQuota(v, coins) PROVE Explained(u)'
    BY <1>0, <1>6, CorrectionBalances
  <1>7. CASE MoneyStays
    BY <1>0, <1>7, OthersBalance DEF MoneyStays
  <1> QED
    BY <1>1, <1>2, <1>3, <1>4, <1>5, <1>6, <1>7, MoneyStep

\* Nobody has a coin at first, and nothing explains one.
LEMMA InitBalances == Init /\ TermsTyped => BalanceExplained
PROOF
  <1> SUFFICES ASSUME Init, TermsTyped, NEW u \in Users PROVE Explained(u)
    BY ExplainedIsThat
  <1>1. TakenSum(u) = 0
    <2>1. \A e \in Slots : TakenTerms(u)[e] = 0
      BY LedgerAssumption DEF Init, NoEvent, TakenTerms, TakenFrom
    <2> QED
      BY <2>1, SumOfZeros, SetsAreFinite DEF TakenSum, TermsTyped
  <1>2. CoinSum(u) = 0
    <2>1. \A c \in Codes : CoinTerms(u)[c] = 0
      BY LedgerAssumption DEF Init, CoinTerms, CoinsFrom
    <2> QED
      BY <2>1, SumOfZeros, SetsAreFinite DEF CoinSum, TermsTyped
  <1>3. RewardSum(u) = 0
    <2>1. \A d \in Days : RewardTerms(u)[d] = 0
      BY DEF Init, RewardTerms, RewardOn
    <2> QED
      BY <2>1, SumOfZeros, SetsAreFinite DEF RewardSum, TermsTyped
  <1> QED
    BY <1>1, <1>2, <1>3, LedgerAssumption DEF Init, Explained

\* No order of reservations, settlements, recoveries, restarts, codes, check-ins and corrections makes or
\* loses a regular coin: every balance is what the rows that explain it add up to, and the check-ins among
\* them were paid by the streak they have.
THEOREM RowsAlwaysExplained == Spec => []RowsExplained
PROOF
  <1>1. TypeOK => TermsTyped
    BY TermsAreTyped
  <1>2. Spec => []TermsTyped
    BY <1>1, TypesAreKept, PTL
  <1>3. Init /\ TermsTyped => BalanceExplained
    BY InitBalances
  <1>4. Rows /\ EventInv /\ CheckinInv /\ TermsTyped /\ TermsTyped' /\ BalanceExplained /\ [Next]_vars
        => BalanceExplained'
    BY BalanceStep
  <1>5. Spec => []BalanceExplained
    BY <1>2, <1>3, <1>4, RowsAlways, EventsAlways, StreaksAlwaysRuns, PTL DEF Spec
  <1>6. BalanceExplained /\ CheckinInv => RowsExplained
    BY DEF CheckinInv, RowsExplained
  <1> QED
    BY <1>5, <1>6, StreaksAlwaysRuns, PTL

-----------------------------------------------------------------------------
(* Periods.  An active row is in a period of its plan that the counter of    *)
(* activations has seen, an expired one stays expired, and no event was paid *)
(* from a period that its owner's membership has not reached yet: a period   *)
(* that a membership enters has paid for nothing.                            *)

\* At time t, when n memberships have been activated.
GoodRow(m, t, n) ==
    /\ m.status # "none" => m.key.activation <= n
    /\ m.status = "active" => m.key.end = Minimum(m.key.start + m.plan.period, m.expires)
    /\ m.status = "expired" => m.expires <= t

NotAfter(key, m) ==
    /\ m.status # "none"
    /\ key.activation <= m.key.activation
    /\ key.activation = m.key.activation => key.start <= m.key.start

PaidBefore(evs, u, m) ==
    \A e \in Slots : evs[e].user = u /\ evs[e].member > 0 => NotAfter(evs[e].key, m)

PeriodInv == \A u \in Users : GoodRow(membership[u], now, activations) /\ PaidBefore(events, u, membership[u])

\* What the events evs of u took from a period, and the coins of the row m.
PaidTerms(evs, u, key) ==
    [e \in Slots |-> IF evs[e].user = u /\ evs[e].key = key THEN TakenMember(evs[e]) ELSE 0]
ExactRow(evs, u, m) == m.status = "active" => m.quota + SumFunction(PaidTerms(evs, u, m.key)) = m.plan.quota

\* The periods are exact user by user.
LEMMA ExactRowsAreThat ==
  /\ PeriodQuotaExact <=> \A u \in Users : ExactRow(events, u, membership[u])
  /\ PeriodQuotaExact' <=> \A u \in Users : ExactRow(events', u, membership'[u])
PROOF
  <1>1. PeriodQuotaExact <=> \A u \in Users : ExactRow(events, u, membership[u])
    BY DEF PeriodQuotaExact, ExactRow, PaidTerms, PaidByPeriod
  <1>2. PeriodQuotaExact' <=> \A u \in Users : ExactRow(events', u, membership'[u])
    BY DEF PeriodQuotaExact, ExactRow, PaidTerms, PaidByPeriod, TakenMember
  <1> QED
    BY <1>1, <1>2

\* What the events paid out of a period is an integer.
LEMMA PaidIsTyped ==
  ASSUME NEW evs \in [Slots -> Events], NEW u, NEW key
  PROVE  PaidTerms(evs, u, key) \in [Slots -> Int] /\ SumFunction(PaidTerms(evs, u, key)) \in Int
PROOF
  <1>1. PaidTerms(evs, u, key) \in [Slots -> Int]
    BY DEF PaidTerms, TakenMember, Events
  <1> QED
    BY <1>1, SetsAreFinite, SumIsInteger

\* Rolling an active row leads to a later period of the same activation.
LEMMA RollsForward ==
  ASSUME NEW m \in Memberships, NEW t \in Nat, m.key.start <= t, t < m.expires, m.status = "active",
         m.key.end = Minimum(m.key.start + m.plan.period, m.expires), PeriodAt(m, t) # m.key
  PROVE  /\ PeriodAt(m, t).activation = m.key.activation
         /\ m.key.start < PeriodAt(m, t).start
         /\ PeriodAt(m, t).end = Minimum(PeriodAt(m, t).start + m.plan.period, m.expires)
PROOF
  <1> USE DEF Memberships, Keys, Plans
  <1> DEFINE period == m.plan.period
             whole  == period * ((t - m.key.start) \div period)
             start  == m.key.start + whole
             end    == Minimum(start + period, m.expires)
  <1>1. /\ ~(t < m.key.end \/ m.key.end >= m.expires)
        /\ PeriodAt(m, t) = [m.key EXCEPT !.start = start, !.end = end]
    BY DEF PeriodAt
  <1>2. t - m.key.start \in Nat /\ period \in Nat \ {0}
    OBVIOUS
  <1>3. whole \in Nat /\ t - m.key.start < whole + period
    BY <1>2, WholePeriods
  <1>4. m.key.end = m.key.start + period /\ m.key.end <= t
    BY <1>1 DEF Minimum
  <1> HIDE DEF whole
  <1>5. whole > 0
    BY <1>2, <1>3, <1>4
  <1>6. start \in Nat /\ m.key.start < start
    BY <1>3, <1>5
  <1> HIDE DEF start, end
  <1>7. /\ PeriodAt(m, t).activation = m.key.activation /\ PeriodAt(m, t).start = start
        /\ PeriodAt(m, t).end = end
    BY <1>1
  <1> QED
    BY <1>6, <1>7 DEF end

\* A row that is refreshed is a row of the same activation.
LEMMA RefreshedGood ==
  ASSUME NEW m \in Memberships, NEW t \in Nat, NEW n \in Nat, Begun(m, t), GoodRow(m, t, n),
         NEW r, r = Refreshed(m, t)
  PROVE  /\ GoodRow(r, t, n) /\ (r.status = "none" <=> m.status = "none")
         /\ r.key.activation = m.key.activation /\ m.key.start <= r.key.start
         /\ r.status = "active" => r = m \/ (m.key.start < r.key.start /\ r.quota = r.plan.quota)
PROOF
  <1>1. CASE m.status = "none"
    BY <1>1 DEF Refreshed, GoodRow, Memberships, Keys
  <1>2. CASE m.status # "none" /\ m.expires <= t
    <2>1. r = [m EXCEPT !.status = "expired", !.quota = 0]
      BY <1>2 DEF Refreshed
    <2> QED
      BY <1>2, <2>1 DEF GoodRow, Memberships, Keys
  <1>3. CASE m.status # "none" /\ ~(m.expires <= t)
    <2>1. m.status = "active"
      BY <1>3 DEF GoodRow, Memberships
    <2>2. r = IF PeriodAt(m, t) = m.key /\ m.status = "active" THEN m
              ELSE [m EXCEPT !.status = "active", !.key = PeriodAt(m, t), !.quota = m.plan.quota]
      BY <1>3 DEF Refreshed
    <2>3. CASE PeriodAt(m, t) = m.key
      BY <2>1, <2>2, <2>3 DEF Memberships, Keys
    <2>4. CASE PeriodAt(m, t) # m.key
      <3> DEFINE key == PeriodAt(m, t)
      <3>1. /\ key.activation = m.key.activation /\ m.key.start < key.start
            /\ key.end = Minimum(key.start + m.plan.period, m.expires)
        BY <1>3, <2>1, <2>4, RollsForward DEF GoodRow, Begun, Memberships
      <3>2. key \in Keys
        BY <1>3, PeriodContainsNow DEF Begun, Memberships
      <3>3. /\ r.status = "active" /\ r.key = key /\ r.quota = m.plan.quota
            /\ r.plan = m.plan /\ r.expires = m.expires
        BY <2>2, <2>4 DEF Memberships
      <3> HIDE DEF key
      <3> QED
        BY <2>1, <3>1, <3>2, <3>3 DEF GoodRow, Memberships, Keys
    <2> QED
      BY <2>3, <2>4
  <1> QED
    BY <1>1, <1>2, <1>3

\* What a refresh does to the row of a user.
LEMMA RefreshKeepsPeriods ==
  ASSUME Rows, EventInv, PeriodInv, NEW u \in Users, NEW r, r = Refreshed(membership[u], now)
  PROVE  /\ GoodRow(r, now, activations) /\ PaidBefore(events, u, r)
         /\ ExactRow(events, u, membership[u]) => ExactRow(events, u, r)
PROOF
  <1> DEFINE m == membership[u]
  <1>1. m \in Memberships /\ now \in Nat /\ activations \in Nat /\ Begun(m, now)
        /\ GoodRow(m, now, activations) /\ PaidBefore(events, u, m) /\ events \in [Slots -> Events]
    BY LedgerAssumption DEF Rows, TypeOK, PeriodsBegun, PeriodInv
  <1>2. r \in Memberships
    BY <1>1, RefreshedRow
  <1> HIDE DEF m
  <1>3. /\ GoodRow(r, now, activations) /\ (r.status = "none" <=> m.status = "none")
        /\ r.key.activation = m.key.activation /\ m.key.start <= r.key.start
        /\ r.status = "active" => r = m \/ (m.key.start < r.key.start /\ r.quota = r.plan.quota)
    BY <1>1, RefreshedGood DEF m
  <1>4. PaidBefore(events, u, r)
    BY <1>1, <1>2, <1>3 DEF PaidBefore, NotAfter, Memberships, Keys, Events
  <1>5. ASSUME ExactRow(events, u, m), r.status = "active" PROVE ExactRow(events, u, r)
    <2>1. CASE r = m
      BY <1>5, <2>1
    <2>2. CASE m.key.start < r.key.start /\ r.quota = r.plan.quota
      <3>1. ASSUME NEW e \in Slots PROVE PaidTerms(events, u, r.key)[e] = 0
        <4>1. ~(events[e].user = u /\ events[e].key = r.key /\ events[e].member > 0)
          BY <1>1, <1>2, <1>3, <2>2 DEF PaidBefore, NotAfter, Memberships, Keys
        <4>2. events[e].member = 0 => TakenMember(events[e]) = 0
          BY <1>1 DEF TakenMember, EventInv, ChargedExactly, Events
        <4>3. events[e].member \in Nat
          BY <1>1 DEF Events
        <4> QED
          BY <4>1, <4>2, <4>3 DEF PaidTerms
      <3>2. SumFunction(PaidTerms(events, u, r.key)) = 0
        BY <1>1, <3>1, PaidIsTyped, SetsAreFinite, SumOfZeros
      <3> QED
        BY <1>2, <2>2, <3>2 DEF ExactRow, Memberships, Plans
    <2> QED
      BY <1>3, <1>5, <2>1, <2>2
  <1>6. r.status # "active" => ExactRow(events, u, r)
    BY DEF ExactRow
  <1> QED
    BY <1>3, <1>4, <1>5, <1>6 DEF m

\* A new membership is in its first period, and has paid for nothing.
LEMMA ActivationStartsPeriods ==
  ASSUME Rows, EventInv, PeriodInv, NEW u \in Users, NEW plan \in Plans,
         NEW r, r = Refreshed(Activated(plan), now)
  PROVE  GoodRow(r, now, activations + 1) /\ PaidBefore(events, u, r) /\ ExactRow(events, u, r)
PROOF
  <1> DEFINE m == Activated(plan)
             end == now + Minimum(plan.period, plan.duration)
             key == [activation |-> activations + 1, start |-> now, end |-> end]
  <1>1. /\ now \in Nat /\ activations \in Nat /\ plan.duration \in Nat \ {0} /\ plan.quota \in Nat
        /\ plan.period \in Nat \ {0} /\ membership[u] \in Memberships /\ events \in [Slots -> Events]
    BY LedgerAssumption DEF Rows, TypeOK, Plans
  <1>2. /\ m.status = "active" /\ m.quota = plan.quota /\ m.plan = plan
        /\ m.expires = now + plan.duration /\ m.key = key
        /\ key.activation = activations + 1 /\ key.start = now /\ key.end = end
    BY DEF Activated
  <1>3. end = Minimum(now + plan.period, now + plan.duration) /\ now < end
    BY <1>1 DEF Minimum
  <1> HIDE DEF m, key, end
  <1>4. m.expires > now /\ now < m.key.end
    BY <1>1, <1>2, <1>3
  <1>5. PeriodAt(m, now) = m.key
    BY <1>4 DEF PeriodAt
  <1>6. r = m
    <2>1. m.status # "none" /\ ~(m.expires <= now)
      BY <1>1, <1>2
    <2> QED
      BY <1>2, <1>5, <2>1 DEF Refreshed, m
  <1>7. GoodRow(r, now, activations + 1)
    BY <1>1, <1>2, <1>3, <1>6 DEF GoodRow
  <1>8. ASSUME NEW e \in Slots, events[e].user = u, events[e].member > 0
        PROVE  events[e].key.activation \in Nat /\ events[e].key.activation <= activations
    <2>1. /\ events[e].key.activation <= membership[u].key.activation
          /\ membership[u].key.activation <= activations
      BY <1>8 DEF PeriodInv, PaidBefore, NotAfter, GoodRow
    <2>2. events[e].key.activation \in Nat /\ membership[u].key.activation \in Nat
      BY <1>1 DEF Events, Memberships, Keys
    <2> QED
      BY <1>1, <2>1, <2>2
  <1>9. PaidBefore(events, u, r)
    <2> SUFFICES ASSUME NEW e \in Slots, events[e].user = u, events[e].member > 0
                 PROVE  NotAfter(events[e].key, r)
      BY DEF PaidBefore
    <2>1. events[e].key.activation < r.key.activation
      BY <1>1, <1>2, <1>6, <1>8
    <2>2. r.status = "active" /\ r.key.activation \in Nat /\ events[e].key.activation \in Nat
      BY <1>1, <1>2, <1>6, <1>8
    <2> QED
      BY <2>1, <2>2 DEF NotAfter
  <1>10. ExactRow(events, u, r)
    <2>1. ASSUME NEW e \in Slots PROVE PaidTerms(events, u, r.key)[e] = 0
      <3>1. ~(events[e].user = u /\ events[e].key = r.key /\ events[e].member > 0)
        BY <1>1, <1>2, <1>6, <1>8
      <3>2. events[e].member = 0 => TakenMember(events[e]) = 0
        BY <1>1 DEF TakenMember, EventInv, ChargedExactly, Events
      <3>3. events[e].member \in Nat
        BY <1>1 DEF Events
      <3> QED
        BY <3>1, <3>2, <3>3 DEF PaidTerms
    <2>2. SumFunction(PaidTerms(events, u, r.key)) = 0
      BY <1>1, <2>1, PaidIsTyped, SetsAreFinite, SumOfZeros
    <2> QED
      BY <1>1, <1>2, <1>6, <2>2 DEF ExactRow
  <1> QED
    BY <1>7, <1>9, <1>10

\* What has to be shown of every user's row and events after a step.
LEMMA KeptIsThat == (PeriodInv /\ PeriodQuotaExact)' <=> \A u \in Users :
    /\ GoodRow(membership'[u], now', activations') /\ PaidBefore(events', u, membership'[u])
    /\ ExactRow(events', u, membership'[u])
PROOF
  <1>1. PeriodInv' <=> \A u \in Users : GoodRow(membership'[u], now', activations')
                                        /\ PaidBefore(events', u, membership'[u])
    BY DEF PeriodInv, GoodRow, PaidBefore, NotAfter, Minimum
  <1> QED
    BY <1>1, ExactRowsAreThat

\* A user whose row and events a step does not touch.
LEMMA UntouchedKept ==
  ASSUME TypeOK, PeriodInv, PeriodQuotaExact, NEW u \in Users, NEW t \in Nat, NEW n \in Nat,
         now <= t, activations <= n
  PROVE  GoodRow(membership[u], t, n) /\ PaidBefore(events, u, membership[u])
         /\ ExactRow(events, u, membership[u])
PROOF
  <1>1. /\ membership[u] \in Memberships /\ now \in Nat /\ activations \in Nat
        /\ GoodRow(membership[u], now, activations) /\ PaidBefore(events, u, membership[u])
        /\ ExactRow(events, u, membership[u])
    BY ExactRowsAreThat, LedgerAssumption DEF TypeOK, PeriodInv
  <1>2. GoodRow(membership[u], t, n)
    BY <1>1 DEF GoodRow, Memberships, Keys
  <1> QED
    BY <1>1, <1>2

\* An event that is opened is paid by the current period first.
LEMMA OpeningKeepsPeriods ==
  ASSUME Rows, EventInv, PeriodInv, PeriodQuotaExact,
         NEW v \in Users, NEW e \in Slots, NEW event, Opening(v, e, event)
  PROVE  (PeriodInv /\ PeriodQuotaExact)'
PROOF
  <1> DEFINE r == Refreshed(membership[v], now)
             m == [r EXCEPT !.quota = Maximum(0, @ - event.member)]
  <1>1. /\ TypeOK /\ now \in Nat /\ activations \in Nat /\ membership \in [Users -> Memberships]
        /\ events \in [Slots -> Events] /\ event \in Events /\ now' = now /\ activations' = activations
        /\ events' = [events EXCEPT ![e] = event]
        /\ membership' = [membership EXCEPT ![v] = m]
        /\ event.user = v /\ event.status = "reserved"
        /\ event.member > 0 => r.status = "active" /\ event.member <= r.quota /\ event.key = r.key
    BY LedgerAssumption DEF Rows, TypeOK, Opening
  <1>2. events[e].user = None /\ events[e].member = 0
    BY DEF Opening, EventInv, ChargedExactly, NoEvent
  <1>3. r \in Memberships
    BY <1>1, RefreshedRow DEF Rows, PeriodsBegun
  <1>4. /\ GoodRow(r, now, activations) /\ PaidBefore(events, v, r)
        /\ ExactRow(events, v, membership[v]) => ExactRow(events, v, r)
    BY RefreshKeepsPeriods
  <1>5. ExactRow(events, v, r)
    BY <1>4, ExactRowsAreThat
  <1> HIDE DEF r
  <1>6. Maximum(0, r.quota - event.member) \in Nat
        /\ Maximum(0, r.quota - event.member) = r.quota - event.member
    BY <1>1, <1>3 DEF Maximum, Memberships, Events
  <1>7. /\ m.status = r.status /\ m.key = r.key /\ m.plan = r.plan /\ m.expires = r.expires
        /\ m.quota = r.quota - event.member
    BY <1>3, <1>6 DEF Memberships
  <1> HIDE DEF m
  <1>8. GoodRow(m, now, activations)
    BY <1>4, <1>7 DEF GoodRow
  <1>9. PaidBefore(events', v, m)
    BY <1>1, <1>2, <1>3, <1>4, <1>7 DEF PaidBefore, NotAfter, Memberships, Keys
  <1>10. ExactRow(events', v, m)
    <2> SUFFICES ASSUME r.status = "active"
                 PROVE  m.quota + SumFunction(PaidTerms(events', v, m.key)) = m.plan.quota
      BY <1>7 DEF ExactRow
    <2> DEFINE f == PaidTerms(events, v, r.key)
               h == PaidTerms(events', v, r.key)
    <2>1. events' \in [Slots -> Events]
      BY <1>1
    <2>2. /\ f \in [Slots -> Int] /\ h \in [Slots -> Int] /\ SumFunction(f) \in Int
      BY <1>1, <2>1, PaidIsTyped
    <2>3. \A x \in Slots \ {e} : h[x] = f[x]
      BY <1>1 DEF PaidTerms
    <2>4. f[e] = 0
      BY <1>2, LedgerAssumption DEF PaidTerms
    <2>5. h[e] = event.member
      <3>1. event.member \in Nat /\ TakenMember(event) = event.member
        BY <1>1 DEF TakenMember, Events
      <3>2. h[e] = IF event.key = r.key THEN event.member ELSE 0
        BY <1>1, <3>1 DEF PaidTerms
      <3> QED
        BY <1>1, <3>1, <3>2
    <2>6. r.quota + SumFunction(f) = r.plan.quota
      BY <1>5 DEF ExactRow
    <2> HIDE DEF f, h
    <2>7. SumFunction(h) = SumFunction(f) + h[e] - f[e]
      BY <2>2, <2>3, SetsAreFinite, SumOfChangedTerm
    <2>8. r.quota - event.member + SumFunction(h) = r.plan.quota
      BY <1>1, <1>3, <2>2, <2>4, <2>5, <2>6, <2>7 DEF Memberships, Events
    <2> QED
      BY <1>7, <2>8 DEF h
  <1>11. ASSUME NEW u \in Users, u # v
         PROVE  /\ GoodRow(membership'[u], now', activations') /\ PaidBefore(events', u, membership'[u])
                /\ ExactRow(events', u, membership'[u])
    <2>1. membership'[u] = membership[u]
      BY <1>1, <1>11
    <2>2. GoodRow(membership[u], now, activations) /\ PaidBefore(events, u, membership[u])
          /\ ExactRow(events, u, membership[u])
      BY <1>1, UntouchedKept
    <2>3. PaidBefore(events', u, membership[u])
      BY <1>1, <1>11, <2>2 DEF PaidBefore
    <2>4. PaidTerms(events', u, membership[u].key) = PaidTerms(events, u, membership[u].key)
      BY <1>1, <1>2, <1>11, LedgerAssumption DEF PaidTerms
    <2> QED
      BY <1>1, <2>1, <2>2, <2>3, <2>4 DEF ExactRow
  <1>12. membership'[v] = m
    BY <1>1
  <1> QED
    BY <1>1, <1>8, <1>9, <1>10, <1>11, <1>12, KeptIsThat

\* A refund goes back to the period that paid, or to none.
LEMMA ClosingKeepsPeriods ==
  ASSUME Rows, EventInv, PeriodInv, PeriodQuotaExact, NEW e \in Slots, NEW event, Closing(e, event)
  PROVE  (PeriodInv /\ PeriodQuotaExact)'
PROOF
  <1> DEFINE old  == events[e]
             v    == old.user
             back == event.member - event.memberActual
             r    == membership[v]
             m    == WithRefund(r, old, back)
  <1>1. /\ TypeOK /\ now \in Nat /\ activations \in Nat /\ membership \in [Users -> Memberships]
        /\ events \in [Slots -> Events] /\ event \in Events /\ now' = now /\ activations' = activations
        /\ events' = [events EXCEPT ![e] = event]
        /\ membership' = [membership EXCEPT ![v] = m]
        /\ v \in Users /\ event.user = v /\ old.status = "reserved" /\ event.status # "reserved"
        /\ event.key = old.key /\ event.member = old.member /\ event.memberActual <= event.member
    BY LedgerAssumption DEF Rows, TypeOK, EventsOwned, Closing, Release, ChargedExactly, Final
  <1>2. r \in Memberships /\ back \in Nat /\ old \in Events
    BY <1>1 DEF Events
  <1>3. GoodRow(r, now, activations) /\ PaidBefore(events, v, r) /\ ExactRow(events, v, r)
    BY <1>1, UntouchedKept
  <1>a. back = event.member - event.memberActual /\ v = old.user
    OBVIOUS
  <1> HIDE DEF r, old, v, back
  <1>4. /\ m.status = r.status /\ m.key = r.key /\ m.plan = r.plan /\ m.expires = r.expires
        /\ m.quota = r.quota + (IF r.status # "none" /\ r.key = old.key THEN back ELSE 0)
    BY <1>2 DEF WithRefund, RefundMatches, Memberships
  <1> HIDE DEF m
  <1>5. GoodRow(m, now, activations)
    BY <1>3, <1>4 DEF GoodRow
  <1>6. PaidBefore(events', v, m)
    BY <1>1, <1>3, <1>4 DEF PaidBefore, NotAfter, old, v
  <1>7. ExactRow(events', v, m)
    <2> SUFFICES ASSUME r.status = "active"
                 PROVE  m.quota + SumFunction(PaidTerms(events', v, m.key)) = m.plan.quota
      BY <1>4 DEF ExactRow
    <2> DEFINE f == PaidTerms(events, v, r.key)
               h == PaidTerms(events', v, r.key)
    <2>1. events' \in [Slots -> Events]
      BY <1>1
    <2>2. /\ f \in [Slots -> Int] /\ h \in [Slots -> Int] /\ SumFunction(f) \in Int
      BY <1>1, <2>1, PaidIsTyped
    <2>3. \A x \in Slots \ {e} : h[x] = f[x]
      BY <1>1 DEF PaidTerms
    <2>4. f[e] = IF old.key = r.key THEN event.member ELSE 0
      BY <1>1 DEF PaidTerms, TakenMember, old, v
    <2>5. h[e] = IF old.key = r.key THEN event.memberActual ELSE 0
      BY <1>1 DEF PaidTerms, TakenMember
    <2>6. r.quota + SumFunction(f) = r.plan.quota
      BY <1>3 DEF ExactRow
    <2> HIDE DEF f, h
    <2>7. SumFunction(h) = SumFunction(f) + h[e] - f[e]
      BY <2>2, <2>3, SetsAreFinite, SumOfChangedTerm
    <2>8. event.member \in Nat /\ event.memberActual \in Nat /\ r.quota \in Nat
      BY <1>1, <1>2 DEF Events, Memberships
    <2>9. m.quota + SumFunction(h) = r.plan.quota
      BY <1>4, <1>a, <2>2, <2>4, <2>5, <2>6, <2>7, <2>8
    <2> QED
      BY <1>4, <2>9 DEF h
  <1>8. ASSUME NEW u \in Users, u # v
        PROVE  /\ GoodRow(membership'[u], now', activations') /\ PaidBefore(events', u, membership'[u])
               /\ ExactRow(events', u, membership'[u])
    <2>1. membership'[u] = membership[u]
      BY <1>1, <1>8
    <2>2. GoodRow(membership[u], now, activations) /\ PaidBefore(events, u, membership[u])
          /\ ExactRow(events, u, membership[u])
      BY <1>1, UntouchedKept
    <2>3. PaidBefore(events', u, membership[u])
      BY <1>1, <1>8, <2>2 DEF PaidBefore
    <2>4. PaidTerms(events', u, membership[u].key) = PaidTerms(events, u, membership[u].key)
      BY <1>1, <1>8, <1>a DEF PaidTerms, old
    <2> QED
      BY <1>1, <2>1, <2>2, <2>3, <2>4 DEF ExactRow
  <1>9. membership'[v] = m
    BY <1>1
  <1> QED
    BY <1>1, <1>5, <1>6, <1>7, <1>8, <1>9, KeptIsThat

\* One row is refreshed or replaced, no event is written.
LEMMA RowKeepsPeriods ==
  ASSUME TypeOK, PeriodInv, PeriodQuotaExact, NEW v \in Users, NEW m,
         events' = events, now' = now, activations' \in Nat, activations <= activations',
         membership' = [membership EXCEPT ![v] = m],
         GoodRow(m, now, activations'), PaidBefore(events, v, m), ExactRow(events, v, m)
  PROVE  (PeriodInv /\ PeriodQuotaExact)'
PROOF
  <1>1. now \in Nat /\ membership'[v] = m /\ \A u \in Users : u # v => membership'[u] = membership[u]
    BY LedgerAssumption DEF TypeOK
  <1>2. ASSUME NEW u \in Users, u # v
        PROVE  GoodRow(membership[u], now, activations') /\ PaidBefore(events, u, membership[u])
               /\ ExactRow(events, u, membership[u])
    BY <1>1, UntouchedKept
  <1> QED
    BY <1>1, <1>2, KeptIsThat

\* Every step keeps the periods exact.
LEMMA PeriodsStep ==
  Rows /\ EventInv /\ PeriodInv /\ PeriodQuotaExact /\ [Next]_vars => (PeriodInv /\ PeriodQuotaExact)'
PROOF
  <1> SUFFICES ASSUME Rows, EventInv, PeriodInv, PeriodQuotaExact, [Next]_vars
               PROVE  (PeriodInv /\ PeriodQuotaExact)'
    OBVIOUS
  <1>0. TypeOK /\ now \in Nat /\ activations \in Nat
    BY LedgerAssumption DEF Rows, TypeOK
  <1>1. ASSUME NEW v \in Users, NEW e \in Slots, NEW event, Opening(v, e, event)
        PROVE  (PeriodInv /\ PeriodQuotaExact)'
    BY <1>1, OpeningKeepsPeriods
  <1>2. ASSUME NEW e \in Slots, NEW event, Closing(e, event) PROVE (PeriodInv /\ PeriodQuotaExact)'
    BY <1>2, ClosingKeepsPeriods
  <1>3. ASSUME NEW v \in Users, Authenticate(v) \/ Checkin(v) PROVE (PeriodInv /\ PeriodQuotaExact)'
    <2> DEFINE m == Refreshed(membership[v], now)
    <2>1. /\ events' = events /\ now' = now /\ activations' = activations
          /\ membership' = [membership EXCEPT ![v] = m]
      BY <1>3 DEF Authenticate, Checkin
    <2>3. activations' \in Nat /\ activations <= activations'
      BY <1>0, <2>1
    <2>2. GoodRow(m, now, activations') /\ PaidBefore(events, v, m) /\ ExactRow(events, v, m)
      BY <2>1, RefreshKeepsPeriods, ExactRowsAreThat
    <2> HIDE DEF m
    <2> QED
      BY <1>0, <2>1, <2>2, <2>3, RowKeepsPeriods
  <1>4. ASSUME NEW v \in Users, NEW c \in Codes, Redeem(v, c) PROVE (PeriodInv /\ PeriodQuotaExact)'
    <2>1. CASE CodeGrant[c].type = "membership"
      <3> DEFINE m == Refreshed(Activated(CodeGrant[c].plan), now)
      <3>1. /\ events' = events /\ now' = now /\ activations' = activations + 1
            /\ membership' = [membership EXCEPT ![v] = m]
        BY <1>4, <2>1 DEF Redeem
      <3>2. CodeGrant[c].plan \in Plans
        BY LedgerAssumption DEF Grants
      <3>3. GoodRow(m, now, activations') /\ PaidBefore(events, v, m) /\ ExactRow(events, v, m)
        BY <3>1, <3>2, ActivationStartsPeriods
      <3>4. activations' \in Nat /\ activations <= activations'
        BY <1>0, <3>1
      <3> HIDE DEF m
      <3> QED
        BY <1>0, <3>1, <3>3, <3>4, RowKeepsPeriods
    <2>2. CASE CodeGrant[c].type # "membership"
      <3> DEFINE m == Refreshed(membership[v], now)
      <3>1. /\ events' = events /\ now' = now /\ activations' = activations
            /\ membership' = [membership EXCEPT ![v] = m]
        BY <1>0, <1>4, <2>2 DEF Redeem
      <3>2. GoodRow(m, now, activations') /\ PaidBefore(events, v, m) /\ ExactRow(events, v, m)
        BY <3>1, RefreshKeepsPeriods, ExactRowsAreThat
      <3>3. activations' \in Nat /\ activations <= activations'
        BY <1>0, <3>1
      <3> HIDE DEF m
      <3> QED
        BY <1>0, <3>1, <3>2, <3>3, RowKeepsPeriods
    <2> QED
      BY <2>1, <2>2
  <1>5. ASSUME membership' = membership, activations' = activations, events' = events,
               now' \in {now, now + 1}
        PROVE  (PeriodInv /\ PeriodQuotaExact)'
    <2>1. now' \in Nat /\ now <= now'
      BY <1>0, <1>5
    <2>2. \A u \in Users : GoodRow(membership[u], now', activations)
                           /\ PaidBefore(events, u, membership[u]) /\ ExactRow(events, u, membership[u])
      BY <1>0, <2>1, UntouchedKept
    <2> QED
      BY <1>5, <2>2, KeptIsThat
  <1>6. ASSUME NEW v \in Users, NEW coins \in AdminQuotas, SetQuota(v, coins)
        PROVE  (PeriodInv /\ PeriodQuotaExact)'
    BY <1>5, <1>6 DEF SetQuota, memberVars
  <1>7. CASE MoneyStays
    BY <1>5, <1>7 DEF MoneyStays, memberVars
  <1> QED
    BY <1>1, <1>2, <1>3, <1>4, <1>6, <1>7, MoneyStep

\* Nobody is a member at first.
LEMMA InitPeriods == Init => PeriodInv /\ PeriodQuotaExact
  BY DEF Init, PeriodInv, GoodRow, PaidBefore, NoMembership, NoEvent, PeriodQuotaExact

\* Whatever periods roll over, memberships change and answers come late, for any plans, prices and clock: a
\* member gets the coins of a period once and they come back to that period only, they are spent inside it,
\* and every finished request is charged exactly the images it delivered.
THEOREM CoinsAlwaysExact == Spec => []CoinsAreExact
PROOF
  <1>1. Init => PeriodInv /\ PeriodQuotaExact
    BY InitPeriods
  <1>2. Rows /\ EventInv /\ PeriodInv /\ PeriodQuotaExact /\ [Next]_vars => (PeriodInv /\ PeriodQuotaExact)'
    BY PeriodsStep
  <1>3. Spec => [](PeriodInv /\ PeriodQuotaExact)
    BY <1>1, <1>2, RowsAlways, EventsAlways, PTL DEF Spec
  <1>4. PeriodQuotaExact /\ ChargesAreExact /\ MemberCoinsInPeriod => CoinsAreExact
    BY DEF CoinsAreExact
  <1> QED
    BY <1>3, <1>4, ChargesAlwaysExact, PTL

=============================================================================
