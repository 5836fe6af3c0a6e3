---------------------------- MODULE AccountPool ----------------------------
(***************************************************************************)
(* The pool of upstream accounts (services/account_service.py), the loop   *)
(* that makes images with it (stream_image_outputs_with_pool of            *)
(* services/protocol/conversation.py), and the batches that refresh it:    *)
(* the watcher of api/support.py and the routes of api/accounts.py.        *)
(*                                                                         *)
(* Every change of an account happens under the service's lock, on the     *)
(* stored accounts read again: it is one step.  The calls to the upstream  *)
(* service are made without the lock; what it answers is chosen when the   *)
(* answer is applied.  Which candidate the rotation picks is left open.    *)
(***************************************************************************)
EXTENDS Integers

CONSTANTS
    Tokens,      \* access tokens, one per account
    Requests,    \* image requests, one worker each
    Images,      \* images asked for by a request
    Settings,    \* values of auto_remove_rate_limited_accounts and auto_remove_invalid_accounts
    Watcher,     \* the thread of start_limited_account_watcher
    Admins,      \* workers of the account routes
    MaxQuota,    \* bound of what the upstream service grants
    AdminStatuses,  \* statuses that administrators set
    None

ASSUME PoolAssumption ==
    /\ Images \in Nat \ {0} /\ MaxQuota \in Nat
    /\ Watcher \notin Admins /\ None \notin Tokens

Refreshers == {Watcher} \cup Admins

VARIABLES
    account,   \* the stored accounts
    setting,
    pc, image,
    token,     \* the account a request works with
    attempted, \* attempted_tokens of the image
    tried,     \* attempted_tokens of get_available_access_token
    failure,   \* what a request has still to report of its account
    batch      \* tokens a refresher has still to apply an answer to

request == <<pc, image, token, attempted, tried, failure>>
vars == <<account, setting, request, batch>>

Statuses == {"normal", "limited", "abnormal", "disabled"}
\* Both settings off, both on.
NothingRemoved == {[removeLimited |-> FALSE, removeInvalid |-> FALSE]}
AllOrNothing   == NothingRemoved \cup {[removeLimited |-> TRUE, removeInvalid |-> TRUE]}

ASSUME SettingAssumption ==
    /\ AdminStatuses \subseteq Statuses
    /\ Settings \subseteq [removeLimited : BOOLEAN, removeInvalid : BOOLEAN]

Account == [status : Statuses, quota : 0 .. MaxQuota, unknown : BOOLEAN]
Absent  == [status |-> "absent", quota |-> 0, unknown |-> FALSE]
Fresh   == [status |-> "normal", quota |-> 0, unknown |-> FALSE]

TypeOK ==
    /\ account \in [Tokens -> Account \cup {Absent}]
    /\ setting \in Settings
    /\ pc \in [Requests -> {"idle", "picking", "fetching", "using", "reporting"}]
    /\ image \in [Requests -> 1 .. Images]
    /\ token \in [Requests -> Tokens \cup {None}]
    /\ attempted \in [Requests -> SUBSET Tokens] /\ tried \in [Requests -> SUBSET Tokens]
    /\ failure \in [Requests -> {"invalid", "limited", None}]
    /\ batch \in [Refreshers -> SUBSET Tokens]

Init ==
    /\ account \in [Tokens -> {Absent, Fresh}]
    /\ setting \in Settings
    /\ pc = [r \in Requests |-> "idle"]
    /\ image = [r \in Requests |-> 1]
    /\ token = [r \in Requests |-> None]
    /\ attempted = [r \in Requests |-> {}] /\ tried = [r \in Requests |-> {}]
    /\ failure = [r \in Requests |-> None]
    /\ batch = [w \in Refreshers |-> {}]

-----------------------------------------------------------------------------
(* Accounts *)

Present == {t \in Tokens : account[t] # Absent}

\* _is_image_account_available
Available(a) == a.status = "normal" /\ (a.unknown \/ a.quota > 0)

\* _is_problem_account
Problem_Limited(a) == a.status = "limited"      \* mutant: only limited accounts are looked at
Problem(a) ==
    \/ a.status \in {"limited", "abnormal"}
    \/ a.status = "normal" /\ ~a.unknown /\ a.quota = 0

\* What update_account leaves of a stored account that is to become a.
Kept_Limited(a) == a           \* mutant: the setting is forgotten
Kept(a) == IF a.status = "limited" /\ setting.removeLimited THEN Absent ELSE a

\* update_account: nothing when the account is gone by now.
Updated_Upsert(t, a) == Kept(a)      \* mutant: a row is written whether or not there is one
Updated(t, a) == IF account[t] = Absent THEN Absent ELSE Kept(a)

\* mark_image_result
Marked_Unclamped(t, success) ==      \* mutant: the quota goes below zero
    IF account[t] = Absent THEN Absent
    ELSE IF success THEN Kept([account[t] EXCEPT !.quota = @ - 1]) ELSE Kept(account[t])
Marked(t, success) ==
    LET a    == account[t]
        left == IF a.quota > 0 THEN a.quota - 1 ELSE 0
        spent == IF a.unknown THEN a ELSE [a EXCEPT !.quota = left]
        used  == IF ~a.unknown /\ left = 0 THEN [spent EXCEPT !.status = "limited"]
                 ELSE IF a.status = "limited" THEN [spent EXCEPT !.status = "normal"]
                 ELSE spent
    IN  IF a = Absent THEN Absent
        ELSE IF success THEN Kept(used) ELSE Kept(a)

\* What a call to the upstream service can come to.
Replies ==
    [kind : {"down", "invalid", "limited", "unmetered"}, quota : {0}]
        \cup [kind : {"metered"}, quota : 0 .. MaxQuota]

Limited  == [status |-> "limited", quota |-> 0, unknown |-> FALSE]
Abnormal == [status |-> "abnormal", quota |-> 0, unknown |-> FALSE]

\* mark_invalid_token and mark_rate_limited_token
Invalidated(t) == IF setting.removeInvalid THEN Absent ELSE Updated(t, Abnormal)
RateLimited(t) == Updated(t, Limited)

\* refresh_account_state; a free account without a quota entry counts as limited.
Refreshed(t, reply) ==
    CASE reply.kind = "down"      -> {account[t]}
      [] reply.kind = "invalid"   -> {Invalidated(t)}
      [] reply.kind = "limited"   -> {RateLimited(t)}
      [] reply.kind = "unmetered" ->
            {Updated(t, [status |-> s, quota |-> 0, unknown |-> TRUE]) : s \in {"normal", "limited"}}
      [] reply.kind = "metered"   ->
            {Updated(t, [status |-> IF reply.quota = 0 THEN "limited" ELSE "normal",
                         quota |-> reply.quota, unknown |-> FALSE])}

Store(t, a) == account' = [account EXCEPT ![t] = a]

-----------------------------------------------------------------------------
(* An image request *)

Go(r, step) == pc' = [pc EXCEPT ![r] = step]

\* get_available_access_token starts for an image, with what the image has used.
PickFor(r, n, used) ==
    /\ Go(r, "picking")
    /\ image' = [image EXCEPT ![r] = n]
    /\ token' = [token EXCEPT ![r] = None] /\ failure' = [failure EXCEPT ![r] = None]
    /\ attempted' = [attempted EXCEPT ![r] = used] /\ tried' = [tried EXCEPT ![r] = {}]

\* The generator returns or raises, or its consumer closes it.
Finish(r) ==
    /\ Go(r, "idle")
    /\ image' = [image EXCEPT ![r] = 1]
    /\ token' = [token EXCEPT ![r] = None] /\ failure' = [failure EXCEPT ![r] = None]
    /\ attempted' = [attempted EXCEPT ![r] = {}] /\ tried' = [tried EXCEPT ![r] = {}]

Start(r) ==
    /\ pc[r] = "idle" /\ PickFor(r, 1, {})
    /\ UNCHANGED <<account, setting, batch>>

Excluded_Initial(r) == attempted[r]       \* mutant: only what the image has used is left out
Excluded(r) == attempted[r] \cup tried[r]
Candidates(r) == {t \in Tokens \ Excluded(r) : Available(account[t])}

Pick(r) ==
    /\ pc[r] = "picking"
    /\ \E t \in Candidates(r) :
        /\ token' = [token EXCEPT ![r] = t]
        /\ tried' = [tried EXCEPT ![r] = @ \cup {t}]
    /\ Go(r, "fetching")
    /\ UNCHANGED <<account, setting, image, attempted, failure, batch>>

\* "no available image quota": an error, or the quiet end of a request that has
\* already shown something.
NoCandidate(r) ==
    /\ pc[r] = "picking" /\ Candidates(r) = {}
    /\ Finish(r)
    /\ UNCHANGED <<account, setting, batch>>

\* The answer about the account is applied; when the account is still good, it
\* is handed out, else the next one is tried.
Apply(r) ==
    /\ pc[r] = "fetching"
    /\ \E reply \in Replies : \E a \in Refreshed(token[r], reply) :
        /\ Store(token[r], a)
        /\ IF reply.kind # "down" /\ Available(a)
           THEN Go(r, "using") /\ attempted' = [attempted EXCEPT ![r] = @ \cup {token[r]}]
                /\ tried' = [tried EXCEPT ![r] = {}] /\ UNCHANGED token
           ELSE Go(r, "picking") /\ token' = [token EXCEPT ![r] = None]
                /\ UNCHANGED <<attempted, tried>>
    /\ UNCHANGED <<setting, image, failure, batch>>

\* The consumer closes the generator at one of its outputs: nothing is marked.
Closed(r) ==
    /\ pc[r] = "using"
    /\ Finish(r)
    /\ UNCHANGED <<account, setting, batch>>

\* An image was made: the account pays for it.
MarkResult(r) ==
    /\ pc[r] = "using"
    /\ Store(token[r], Marked(token[r], TRUE))
    /\ IF image[r] < Images THEN PickFor(r, image[r] + 1, {}) ELSE Finish(r)
    /\ UNCHANGED <<setting, batch>>

\* Nothing came, the prompt was refused, or an error that is not the account's.
MarkFailure(r) ==
    /\ pc[r] = "using"
    /\ Store(token[r], Marked(token[r], FALSE))
    /\ Finish(r)
    /\ UNCHANGED <<setting, batch>>

\* The account turned out invalid or limited: the failure is counted, the
\* account is marked, and another one is tried for the same image.
MarkAccount(r) ==
    /\ pc[r] = "using"
    /\ Store(token[r], Marked(token[r], FALSE))
    /\ \E f \in {"invalid", "limited"} : failure' = [failure EXCEPT ![r] = f]
    /\ Go(r, "reporting")
    /\ UNCHANGED <<setting, image, token, attempted, tried, batch>>

Report(r) ==
    /\ pc[r] = "reporting"
    /\ Store(token[r], IF failure[r] = "invalid" THEN Invalidated(token[r]) ELSE RateLimited(token[r]))
    /\ PickFor(r, image[r], attempted[r])
    /\ UNCHANGED <<setting, batch>>

-----------------------------------------------------------------------------
(* refresh_accounts *)

\* list_problem_tokens, then a batch over them.
Watch ==
    /\ batch[Watcher] = {}
    /\ batch' = [batch EXCEPT ![Watcher] = {t \in Present : Problem(account[t])}]
    /\ UNCHANGED <<account, setting, request>>

\* The refresh route, for the accounts an administrator chose.
RefreshRoute(w) ==
    /\ batch[w] = {}
    /\ \E chosen \in SUBSET Present \ {{}} : batch' = [batch EXCEPT ![w] = chosen]
    /\ UNCHANGED <<account, setting, request>>

\* add_accounts, then a batch over the tokens that were given.
AddRoute(w) ==
    /\ batch[w] = {}
    /\ \E given \in SUBSET Tokens \ {{}} :
        /\ account' = [t \in Tokens |->
                          IF t \in given /\ account[t] = Absent THEN Fresh ELSE account[t]]
        /\ batch' = [batch EXCEPT ![w] = given]
    /\ UNCHANGED <<setting, request>>

\* One answer of a batch.
ApplyReply(w, t, reply) ==
    /\ t \in batch[w]
    /\ \E a \in Refreshed(t, reply) : Store(t, a)
    /\ batch' = [batch EXCEPT ![w] = @ \ {t}]
    /\ UNCHANGED <<setting, request>>

ApplyOne(w, t) == \E reply \in Replies : ApplyReply(w, t, reply)

-----------------------------------------------------------------------------
(* The other routes *)

\* delete_accounts
Delete(t) ==
    /\ account[t] # Absent
    /\ Store(t, Absent)
    /\ UNCHANGED <<setting, request, batch>>

\* update_account with a status that an administrator chose
SetStatus(t, s) ==
    /\ account[t] # Absent
    /\ account' = [account EXCEPT ![t] = Kept([@ EXCEPT !.status = s])]
    /\ UNCHANGED <<setting, request, batch>>

-----------------------------------------------------------------------------

RequestStep(r) ==
    Pick(r) \/ NoCandidate(r) \/ Apply(r)
    \/ MarkResult(r) \/ MarkFailure(r) \/ MarkAccount(r) \/ Report(r)

Next ==
    \/ \E r \in Requests : Start(r) \/ RequestStep(r) \/ Closed(r)
    \/ Watch
    \/ \E w \in Admins : RefreshRoute(w) \/ AddRoute(w)
    \/ \E w \in Refreshers, t \in Tokens : ApplyOne(w, t)
    \/ \E t \in Tokens : Delete(t) \/ \E s \in AdminStatuses : SetStatus(t, s)

Spec == Init /\ [][Next]_vars

\* Workers run; the watcher comes round; the upstream service answers, and
\* grants an account some quota again and again.
Granted(t) == \E q \in 1 .. MaxQuota : ApplyReply(Watcher, t, [kind |-> "metered", quota |-> q])
Fairness ==
    /\ \A r \in Requests : WF_vars(RequestStep(r))
    /\ WF_vars(Watch)
    /\ \A t \in Tokens : SF_vars(Granted(t))
FairSpec == Spec /\ Fairness

-----------------------------------------------------------------------------
(* Properties *)

\* With auto_remove_rate_limited_accounts no limited account stays in the pool,
\* whichever of the four ways it became limited
\* (test_auto_removed_rate_limited_database_account_does_not_reappear).
NoLimitedKept == setting.removeLimited => \A t \in Tokens : account[t].status # "limited"

\* An account that is gone comes back only when somebody adds it: an answer, a
\* mark or a report that arrives after the deletion does not restore it
\* (test_database_backed_stale_service_snapshot_does_not_restore_deleted_account).
GoneStaysGone ==
    [][\A t \in Tokens : account[t] = Absent /\ account'[t] # Absent => \E w \in Admins : AddRoute(w)]_vars

\* A request comes to an end, however many accounts fail it: no account is tried
\* twice for one image unless another image was made in between.
RequestsEnd == \A r \in Requests : pc[r] # "idle" ~> pc[r] = "idle"

\* An account that is neither deleted nor disabled becomes available again and
\* again: the watcher picks up whatever state the others left it in.
AccountsComeBack ==
    \A t \in Tokens : []<>(account[t] = Absent \/ account[t].status = "disabled" \/ Available(account[t]))

\* An upstream service that refuses neither keeps a request going round the accounts for ever, nor an
\* account out of the pool for good.
PoolRecovers == RequestsEnd /\ AccountsComeBack
=============================================================================
