------------------------- MODULE AccountPoolProofs -------------------------
(***************************************************************************)
(* Proofs about AccountPool for any number of accounts, requests, workers  *)
(* and images: the types, that no limited account stays in the pool when   *)
(* the setting says so, and that an account that is gone stays gone.       *)
(***************************************************************************)
EXTENDS AccountPool, TLAPS

-----------------------------------------------------------------------------
(* What the pool may store *)

\* An account, or none, that the setting lets stay.
MayStore(a) ==
    /\ a \in Account \cup {Absent}
    /\ setting.removeLimited => a.status # "limited"

\* A missing row is no account, and may be stored as one that is new.
LEMMA AbsentIsNoAccount == Absent \notin Account /\ Fresh \in Account /\ MayStore(Absent) /\ MayStore(Fresh)
  BY PoolAssumption DEF Absent, Fresh, Account, Statuses, MayStore

\* A row that stays may be stored again.
LEMMA KeptMayBeStored ==
  ASSUME NEW a \in Account PROVE MayStore(Kept(a))
  BY AbsentIsNoAccount DEF Kept, MayStore

\* Whatever an update wants to write, the pool may store what is written, and a
\* row that is gone is not written at all.
LEMMA UpdatedMayBeStored ==
  ASSUME NEW t \in Tokens, NEW a \in Account
  PROVE  /\ MayStore(Updated(t, a))
         /\ account[t] = Absent => Updated(t, a) = Absent
  BY KeptMayBeStored, AbsentIsNoAccount DEF Updated

\* What an account is written as when it is limited or abnormal.
LEMMA SpecialAccounts == Limited \in Account /\ Abnormal \in Account
  BY PoolAssumption DEF Limited, Abnormal, Account, Statuses

\* An account whose token is refused may be stored.
LEMMA InvalidatedMayBeStored ==
  ASSUME NEW t \in Tokens
  PROVE  /\ MayStore(Invalidated(t))
         /\ account[t] = Absent => Invalidated(t) = Absent
  BY UpdatedMayBeStored, SpecialAccounts, AbsentIsNoAccount DEF Invalidated

\* An account that is rate limited may be stored.
LEMMA RateLimitedMayBeStored ==
  ASSUME NEW t \in Tokens
  PROVE  /\ MayStore(RateLimited(t))
         /\ account[t] = Absent => RateLimited(t) = Absent
  BY UpdatedMayBeStored, SpecialAccounts DEF RateLimited

\* The count of an image keeps an account within its type.
LEMMA MarkedMayBeStored ==
  ASSUME NEW t \in Tokens, account[t] \in Account \cup {Absent}, NEW success \in BOOLEAN
  PROVE  /\ MayStore(Marked(t, success))
         /\ account[t] = Absent => Marked(t, success) = Absent
PROOF
  <1>1. CASE account[t] = Absent
    BY <1>1, AbsentIsNoAccount DEF Marked
  <1>2. CASE account[t] # Absent
    <2> DEFINE a == account[t]
               left == IF a.quota > 0 THEN a.quota - 1 ELSE 0
               spent == IF a.unknown THEN a ELSE [a EXCEPT !.quota = left]
               used == IF ~a.unknown /\ left = 0 THEN [spent EXCEPT !.status = "limited"]
                       ELSE IF a.status = "limited" THEN [spent EXCEPT !.status = "normal"]
                       ELSE spent
    <2>1. a \in Account /\ a # Absent
      BY <1>2
    <2>2. left \in 0 .. MaxQuota
      BY <2>1, PoolAssumption DEF Account
    <2> HIDE DEF a, left
    <2>3. spent \in Account
      BY <2>1, <2>2 DEF Account
    <2> HIDE DEF spent
    <2>4. used \in Account
      BY <2>3 DEF Account, Statuses
    <2> HIDE DEF used
    <2>5. Marked(t, success) = IF success THEN Kept(used) ELSE Kept(a)
      BY <2>1 DEF Marked, used, spent, left, a
    <2> QED
      BY <1>2, <2>1, <2>4, <2>5, KeptMayBeStored
  <1> QED
    BY <1>1, <1>2

\* Whatever the upstream service answers, the pool may store what is made of it.
LEMMA RefreshedMayBeStored ==
  ASSUME NEW t \in Tokens, MayStore(account[t]), NEW reply \in Replies, NEW a \in Refreshed(t, reply)
  PROVE  MayStore(a) /\ (account[t] = Absent => a = Absent)
PROOF
  <1>1. CASE reply.kind = "down"
    BY <1>1 DEF Refreshed
  <1>2. CASE reply.kind = "invalid"
    BY <1>2, InvalidatedMayBeStored DEF Refreshed
  <1>3. CASE reply.kind = "limited"
    BY <1>3, RateLimitedMayBeStored DEF Refreshed
  <1>4. CASE reply.kind = "unmetered"
    <2>1. PICK s \in {"normal", "limited"} : a = Updated(t, [status |-> s, quota |-> 0, unknown |-> TRUE])
      BY <1>4 DEF Refreshed
    <2>2. [status |-> s, quota |-> 0, unknown |-> TRUE] \in Account
      BY PoolAssumption DEF Account, Statuses
    <2> QED
      BY <2>1, <2>2, UpdatedMayBeStored
  <1>5. CASE reply.kind = "metered"
    <2> DEFINE b == [status |-> IF reply.quota = 0 THEN "limited" ELSE "normal",
                     quota |-> reply.quota, unknown |-> FALSE]
    <2>1. reply.quota \in 0 .. MaxQuota
      BY PoolAssumption DEF Replies
    <2>2. b \in Account
      BY <2>1 DEF Account, Statuses
    <2>3. a = Updated(t, b)
      BY <1>5 DEF Refreshed
    <2> HIDE DEF b
    <2> QED
      BY <2>2, <2>3, UpdatedMayBeStored
  <1> QED
    BY <1>1, <1>2, <1>3, <1>4, <1>5 DEF Replies

-----------------------------------------------------------------------------
(* What a step does to the stored accounts *)

\* A request that works with an account has one.
HoldsAccount == \A r \in Requests : pc[r] \in {"fetching", "using", "reporting"} => token[r] \in Tokens

PoolInv == TypeOK /\ HoldsAccount /\ NoLimitedKept

\* What may be stored is stored, and what is gone stays so.
StoresWell ==
    /\ account' = [t \in Tokens |-> account'[t]]
    /\ \A t \in Tokens : MayStore(account'[t]) /\ (account[t] = Absent => account'[t] = Absent)

\* Everything in the pool may be stored.
LEMMA PoolMayStore == PoolInv => \A t \in Tokens : MayStore(account[t])
  BY DEF PoolInv, TypeOK, NoLimitedKept, MayStore

\* One row is written.
LEMMA OneStoresWell ==
  ASSUME PoolInv, NEW t \in Tokens, NEW a, MayStore(a), account[t] = Absent => a = Absent, Store(t, a)
  PROVE  StoresWell
  BY PoolMayStore DEF Store, StoresWell, PoolInv, TypeOK

\* No row is written.
LEMMA NoneStoresWell == PoolInv /\ account' = account => StoresWell
  BY PoolMayStore DEF StoresWell, PoolInv, TypeOK

\* A request marks or refreshes its own account.
LEMMA RequestStoresWell ==
  ASSUME PoolInv, NEW r \in Requests, Start(r) \/ RequestStep(r) \/ Closed(r)
  PROVE  StoresWell
PROOF
  <1> DEFINE t == token[r]
  <1>1. pc[r] \in {"fetching", "using", "reporting"} => t \in Tokens /\ MayStore(account[t])
                                                    /\ account[t] \in Account \cup {Absent}
    BY PoolMayStore DEF PoolInv, HoldsAccount, MayStore
  <1> HIDE DEF t
  <1>2. CASE account' = account
    BY <1>2, NoneStoresWell
  <1>3. ASSUME Apply(r) PROVE StoresWell
    <2>1. pc[r] = "fetching"
      BY <1>3 DEF Apply
    <2>2. PICK reply \in Replies : \E a \in Refreshed(t, reply) : Store(t, a)
      BY <1>3 DEF Apply, t
    <2>3. PICK a \in Refreshed(t, reply) : Store(t, a)
      BY <2>2
    <2> QED
      BY <1>1, <2>1, <2>3, OneStoresWell, RefreshedMayBeStored
  <1>4. ASSUME NEW success \in BOOLEAN, pc[r] = "using", Store(t, Marked(t, success))
        PROVE  StoresWell
    BY <1>1, <1>4, MarkedMayBeStored, OneStoresWell
  <1>5. ASSUME Report(r) PROVE StoresWell
    <2>1. pc[r] = "reporting" /\ (Store(t, Invalidated(t)) \/ Store(t, RateLimited(t)))
      BY <1>5 DEF Report, t
    <2> QED
      BY <1>1, <2>1, InvalidatedMayBeStored, RateLimitedMayBeStored, OneStoresWell
  <1>6. MarkResult(r) \/ MarkFailure(r) \/ MarkAccount(r) =>
            pc[r] = "using" /\ \E success \in BOOLEAN : Store(t, Marked(t, success))
    BY DEF MarkResult, MarkFailure, MarkAccount, t
  <1>7. Start(r) \/ Closed(r) \/ Pick(r) \/ NoCandidate(r) => account' = account
    BY DEF Start, Closed, Pick, NoCandidate
  <1> QED
    BY <1>2, <1>3, <1>4, <1>5, <1>6, <1>7 DEF RequestStep

\* AddRoute apart, every step stores what may be stored and restores nothing.
LEMMA StepStoresWell ==
  ASSUME PoolInv, [Next]_vars, ~\E w \in Admins : AddRoute(w)
  PROVE  StoresWell
PROOF
  <1>1. CASE account' = account
    BY <1>1, NoneStoresWell
  <1>2. ASSUME NEW w \in Refreshers, NEW t \in Tokens, ApplyOne(w, t)
        PROVE  StoresWell
    <2>1. PICK reply \in Replies : \E a \in Refreshed(t, reply) : Store(t, a)
      BY <1>2 DEF ApplyOne, ApplyReply
    <2>2. PICK a \in Refreshed(t, reply) : Store(t, a)
      BY <2>1
    <2> QED
      BY <2>2, PoolMayStore, RefreshedMayBeStored, OneStoresWell
  <1>3. ASSUME NEW t \in Tokens, Delete(t)
        PROVE  StoresWell
    BY <1>3, AbsentIsNoAccount, OneStoresWell DEF Delete
  <1>4. ASSUME NEW t \in Tokens, NEW s \in AdminStatuses, SetStatus(t, s)
        PROVE  StoresWell
    <2> DEFINE a == [account[t] EXCEPT !.status = s]
    <2>1. account[t] \in Account /\ account[t] # Absent /\ s \in Statuses
      BY <1>4, SettingAssumption DEF SetStatus, PoolInv, TypeOK
    <2>2. a \in Account
      BY <2>1 DEF Account
    <2>3. Store(t, Kept(a))
      BY <1>4 DEF SetStatus, Store, PoolInv, TypeOK
    <2> HIDE DEF a
    <2> QED
      BY <2>1, <2>2, <2>3, KeptMayBeStored, OneStoresWell
  <1>5. Watch \/ (\E w \in Admins : RefreshRoute(w)) \/ UNCHANGED vars => account' = account
    BY DEF Watch, RefreshRoute, vars
  <1> QED
    BY <1>1, <1>2, <1>3, <1>4, <1>5, RequestStoresWell DEF Next

\* Adding accounts keeps the rows typed.
LEMMA AddKeepsAccounts ==
  ASSUME PoolInv, NEW w \in Admins, AddRoute(w)
  PROVE  account' = [t \in Tokens |-> account'[t]] /\ \A t \in Tokens : MayStore(account'[t])
  BY PoolMayStore, AbsentIsNoAccount DEF AddRoute

-----------------------------------------------------------------------------
(* The requests and the batches *)

RequestsOK ==
    /\ pc \in [Requests -> {"idle", "picking", "fetching", "using", "reporting"}]
    /\ image \in [Requests -> 1 .. Images]
    /\ token \in [Requests -> Tokens \cup {None}]
    /\ attempted \in [Requests -> SUBSET Tokens] /\ tried \in [Requests -> SUBSET Tokens]
    /\ failure \in [Requests -> {"invalid", "limited", None}]
    /\ HoldsAccount

\* A request remembers an account it may use.
LEMMA RequestKeepsRequests ==
  ASSUME RequestsOK, NEW r \in Requests, Start(r) \/ RequestStep(r) \/ Closed(r)
  PROVE  RequestsOK'
PROOF
  <1> USE PoolAssumption DEF RequestsOK, HoldsAccount, Go
  <1>1. ASSUME NEW n \in 1 .. Images, NEW used \in SUBSET Tokens, PickFor(r, n, used)
        PROVE  RequestsOK'
    BY <1>1 DEF PickFor
  <1>2. ASSUME Finish(r) PROVE RequestsOK'
    BY <1>2 DEF Finish
  <1>3. CASE Pick(r)
    BY <1>3 DEF Pick, Candidates
  <1>4. CASE Apply(r)
    <2>1. UNCHANGED <<image, failure>>
      BY <1>4 DEF Apply
    <2>2. CASE /\ Go(r, "using") /\ attempted' = [attempted EXCEPT ![r] = @ \cup {token[r]}]
               /\ tried' = [tried EXCEPT ![r] = {}] /\ UNCHANGED token
      <3>1. token[r] \in Tokens
        BY <1>4 DEF Apply
      <3> QED
        BY <2>1, <2>2, <3>1
    <2>3. CASE /\ Go(r, "picking") /\ token' = [token EXCEPT ![r] = None]
               /\ UNCHANGED <<attempted, tried>>
      BY <2>1, <2>3
    <2> QED
      BY <1>4, <2>2, <2>3 DEF Apply
  <1>5. CASE MarkAccount(r)
    <2>1. PICK f \in {"invalid", "limited"} : failure' = [failure EXCEPT ![r] = f]
      BY <1>5 DEF MarkAccount
    <2> QED
      BY <1>5, <2>1 DEF MarkAccount
  <1>6. Start(r) => PickFor(r, 1, {})
    BY DEF Start
  <1>7. Report(r) => PickFor(r, image[r], attempted[r])
    BY DEF Report
  <1>8. MarkResult(r) => (image[r] < Images /\ PickFor(r, image[r] + 1, {})) \/ Finish(r)
    BY DEF MarkResult
  <1>9. NoCandidate(r) \/ Closed(r) \/ MarkFailure(r) => Finish(r)
    BY DEF NoCandidate, Closed, MarkFailure
  <1>10. 1 \in 1 .. Images /\ image[r] \in 1 .. Images /\ attempted[r] \in SUBSET Tokens
         /\ (image[r] < Images => image[r] + 1 \in 1 .. Images)
    OBVIOUS
  <1> QED
    BY <1>1, <1>2, <1>3, <1>4, <1>5, <1>6, <1>7, <1>8, <1>9, <1>10 DEF RequestStep

\* Nothing else changes what requests remember.
LEMMA OthersKeepRequests ==
  ASSUME RequestsOK, UNCHANGED request
  PROVE  RequestsOK'
  BY DEF RequestsOK, HoldsAccount, request

\* Batches are made of tokens.
LEMMA BatchesStayTokens ==
  ASSUME TypeOK, [Next]_vars
  PROVE  batch' \in [Refreshers -> SUBSET Tokens] /\ setting' = setting
PROOF
  <1> USE DEF TypeOK
  <1>1. CASE \E r \in Requests : Start(r) \/ RequestStep(r) \/ Closed(r)
    BY <1>1 DEF Start, Closed, RequestStep, Pick, NoCandidate, Apply, MarkResult, MarkFailure,
                MarkAccount, Report
  <1>2. CASE Watch
    BY <1>2 DEF Watch, Present, Refreshers
  <1>3. ASSUME NEW w \in Admins, RefreshRoute(w) \/ AddRoute(w)
        PROVE  batch' \in [Refreshers -> SUBSET Tokens] /\ setting' = setting
    BY <1>3 DEF RefreshRoute, AddRoute, Present, Refreshers
  <1>4. ASSUME NEW w \in Refreshers, NEW t \in Tokens, ApplyOne(w, t)
        PROVE  batch' \in [Refreshers -> SUBSET Tokens] /\ setting' = setting
    BY <1>4 DEF ApplyOne, ApplyReply
  <1>5. ASSUME NEW t \in Tokens, Delete(t) \/ \E s \in AdminStatuses : SetStatus(t, s)
        PROVE  batch' \in [Refreshers -> SUBSET Tokens] /\ setting' = setting
    BY <1>5 DEF Delete, SetStatus
  <1>6. CASE UNCHANGED vars
    BY <1>6 DEF vars
  <1> QED
    BY <1>1, <1>2, <1>3, <1>4, <1>5, <1>6 DEF Next

-----------------------------------------------------------------------------

\* The pool begins with new accounts, and nothing is under way.
LEMMA InitPoolInv == Init => PoolInv
PROOF
  <1> SUFFICES ASSUME Init PROVE PoolInv
    OBVIOUS
  <1>1. TypeOK
    BY PoolAssumption, AbsentIsNoAccount DEF Init, TypeOK
  <1>2. HoldsAccount
    BY DEF Init, HoldsAccount
  <1>3. NoLimitedKept
    BY DEF Init, NoLimitedKept, Absent, Fresh
  <1> QED
    BY <1>1, <1>2, <1>3 DEF PoolInv

\* Every step keeps the invariant of the pool.
LEMMA StepKeepsPoolInv ==
  ASSUME PoolInv, [Next]_vars
  PROVE  PoolInv'
PROOF
  <1>1. account' = [t \in Tokens |-> account'[t]] /\ \A t \in Tokens : MayStore(account'[t])
    BY StepStoresWell, AddKeepsAccounts DEF StoresWell
  <1>2. batch' \in [Refreshers -> SUBSET Tokens] /\ setting' = setting
    BY BatchesStayTokens DEF PoolInv
  <1>3. RequestsOK
    BY DEF PoolInv, TypeOK, RequestsOK
  <1>4. (\E r \in Requests : Start(r) \/ RequestStep(r) \/ Closed(r)) \/ UNCHANGED request
    BY DEF Next, vars, Watch, RefreshRoute, AddRoute, ApplyOne, ApplyReply, Delete, SetStatus
  <1>5. RequestsOK'
    BY <1>3, <1>4, RequestKeepsRequests, OthersKeepRequests
  <1>6. account' \in [Tokens -> Account \cup {Absent}] /\ NoLimitedKept'
    BY <1>1, <1>2 DEF MayStore, NoLimitedKept
  <1>7. setting' \in Settings
    BY <1>2 DEF PoolInv, TypeOK
  <1> QED
    BY <1>2, <1>5, <1>6, <1>7 DEF PoolInv, TypeOK, RequestsOK

-----------------------------------------------------------------------------

\* The invariant of the pool holds in every state.
THEOREM PoolAlways == Spec => []PoolInv
  BY InitPoolInv, StepKeepsPoolInv, PTL DEF Spec

\* Accounts, requests and batches keep their types: no quota leaves 0 .. MaxQuota,
\* however many requests pay with the same account (mark_image_result).
THEOREM PoolTypes == Spec => []TypeOK
  BY PoolAlways, PTL DEF PoolInv

\* No limited account stays in a pool that removes them, whoever finds it limited
\* (update_account, mark_image_result, mark_rate_limited_token).
THEOREM LimitedNeverKept == Spec => []NoLimitedKept
  BY PoolAlways, PTL DEF PoolInv

\* An account that is gone comes back by add_accounts only (_update_account_locked).
THEOREM GoneForGood == Spec => GoneStaysGone
PROOF
  <1>1. PoolInv /\ [Next]_vars =>
            [\A t \in Tokens : account[t] = Absent /\ account'[t] # Absent
                                => \E w \in Admins : AddRoute(w)]_vars
    BY StepStoresWell DEF StoresWell
  <1> QED
    BY <1>1, PoolAlways, PTL DEF Spec, GoneStaysGone
=============================================================================
