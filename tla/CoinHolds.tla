------------------------------ MODULE CoinHolds ------------------------------
(***************************************************************************)
(* What the ledger promises a paying user, without memberships, clocks,    *)
(* codes or recovery: coins leave the purse only into a hold, a hold is    *)
(* closed once, and closing it returns to its owner's purse all that is    *)
(* not charged.                                                            *)
(***************************************************************************)
EXTENDS Integers

CONSTANTS Users, Holds, None

VARIABLES purse, hold

vars == <<purse, hold>>

HoldStates == [state : {"unused", "open", "closed"}, user : Users \cup {None},
               coins : Nat, charged : Nat]

Init ==
    /\ purse \in [Users -> Nat]
    /\ hold = [h \in Holds |-> [state |-> "unused", user |-> None, coins |-> 0, charged |-> 0]]

\* A deposit, or an administrator typing in another balance.
Adjust(u) ==
    /\ purse'[u] \in Nat
    /\ purse' = [purse EXCEPT ![u] = purse'[u]]
    /\ UNCHANGED hold

\* Some coins of the purse are set aside.
Open(u, h) ==
    /\ hold[h].state = "unused"
    /\ \E coins \in 0 .. purse[u] :
        /\ purse' = [purse EXCEPT ![u] = @ - coins]
        /\ hold' = [hold EXCEPT ![h] =
                       [state |-> "open", user |-> u, coins |-> coins, charged |-> 0]]

\* The owner pays a part of the hold and gets the rest back.
Close(h) ==
    /\ hold[h].state = "open"
    /\ \E charged \in 0 .. hold[h].coins :
        /\ purse' = [purse EXCEPT ![hold[h].user] = @ + hold[h].coins - charged]
        /\ hold' = [hold EXCEPT ![h].state = "closed", ![h].charged = charged]

Next ==
    \/ \E u \in Users : Adjust(u) \/ \E h \in Holds : Open(u, h)
    \/ \E h \in Holds : Close(h)

Spec == Init /\ [][Next]_vars
=============================================================================
