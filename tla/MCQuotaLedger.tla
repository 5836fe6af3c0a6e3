--------------------------- MODULE MCQuotaLedger ---------------------------
(* Small instances of QuotaLedger and QuotaAudit: what the codes give in each run. *)
EXTENDS QuotaAudit, TLC

CONSTANTS c1, c2

NoPlan == [duration |-> 1, period |-> 1, quota |-> 0]
Coins(v)      == [type |-> "image_quota", value |-> v, plan |-> NoPlan, expires |-> 9]
Concurrency(v) == [type |-> "concurrency", value |-> v, plan |-> NoPlan, expires |-> 1]
Membership(d, p, q) ==
    [type |-> "membership", value |-> 1, expires |-> 9,
     plan |-> [duration |-> d, period |-> p, quota |-> q]]

\* Two plans: one whose last period is cut by its expiry and whose quota is
\* no multiple of the price, one of a single period.
TwoPlans     == c1 :> Membership(3, 2, 7) @@ c2 :> Membership(2, 2, 5)
OnePlan      == c1 :> Membership(3, 2, 5)
CoinsAndSlot == c1 :> Coins(5) @@ c2 :> Concurrency(1)
JustCoins    == c1 :> Coins(4)

TypedBalances == {7, -3}

\* Slots are interchangeable; used by the runs without liveness.
SlotSymmetry == Permutations(Slots)
=============================================================================
