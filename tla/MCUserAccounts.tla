-------------------------- MODULE MCUserAccounts --------------------------
(* UserAccounts for TLC: ids, emails and browsers are interchangeable. *)
EXTENDS UserAccounts, TLC

AccountSymmetry == Permutations(Ids) \cup Permutations(Emails) \cup Permutations(Clients)
=============================================================================
