----------------------------- MODULE QuotaAudit -----------------------------
(***************************************************************************)
(* Two audits of the ledger: the balances are recomputed from the rows that *)
(* explain them.                                                            *)
(***************************************************************************)
EXTENDS QuotaLedger, Functions

\* Regular coins an event has taken out of its owner's balance.
Taken(event) == IF event.status = "reserved" THEN event.regular ELSE event.regularActual

\* What each of these rows added to the balance of u, or took out of it.
CoinsFrom(u, c) ==
    IF codes[c].usedBy = u /\ CodeGrant[c].type = "image_quota" THEN CodeGrant[c].value ELSE 0
RewardOn(u, d)  == IF streakOn[u][d] > 0 THEN Reward(streakOn[u][d]) ELSE 0
TakenFrom(u, e) == IF events[e].user = u THEN Taken(events[e]) ELSE 0

\* The balance is what the rows that explain it add up to: the coins the
\* account started with, the codes it redeemed, its check-ins, what
\* administrators changed, less what its requests hold or were charged.  No
\* order of reserve, settle, recover, redeem and restart makes or loses coins.
BalanceExplained ==
    \A u \in Users :
        imageQuota[u] =
            InitialQuota
            + SumFunction([c \in Codes |-> CoinsFrom(u, c)])
            + SumFunction([d \in Days |-> RewardOn(u, d)])
            + adjustment[u]
            - SumFunction([e \in Slots |-> TakenFrom(u, e)])

\* Member coins of an event that count against the period that paid them.
TakenMember(event) == IF event.status = "reserved" THEN event.member ELSE event.memberActual

\* What an event took of the period that the membership of u is in.
PaidByPeriod(u, e) ==
    IF events[e].user = u /\ events[e].key = membership[u].key THEN TakenMember(events[e]) ELSE 0

\* Within one period of one activation a member gets the plan's coins once:
\* what is left plus what the events paid from this very period hold or were
\* charged is the period's quota.  A refund that crosses into another period
\* or another membership, or a second refill of the same one, breaks it.
PeriodQuotaExact ==
    \A u \in Users :
        membership[u].status = "active" =>
            membership[u].quota + SumFunction([e \in Slots |-> PaidByPeriod(u, e)])
            = membership[u].plan.quota

\* Whatever periods roll over, memberships change and answers come late, a request costs exactly the
\* images it delivered, in member coins of the period it was reserved in, which are spent inside it and
\* come back to it only, and in regular coins beyond them.
CoinsAreExact == PeriodQuotaExact /\ MemberCoinsInPeriod /\ ChargesAreExact

\* Balances are what the rows say, and the check-ins among these rows have the streaks that their
\* rewards were paid by.
RowsExplained == BalanceExplained /\ StreaksAreRuns
=============================================================================
