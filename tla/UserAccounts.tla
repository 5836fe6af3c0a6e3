---------------------------- MODULE UserAccounts ----------------------------
(***************************************************************************)
(* The accounts of users (services/user_service.py): the administrators    *)
(* who manage them (api/user_management.py), signing in and out, and the   *)
(* tokens that authenticate a request.                                     *)
(*                                                                         *)
(* The administrators' routes, set-up, logout and authenticate_token run   *)
(* on the event loop: one step each.  A registration is one step, that of  *)
(* its commit.  A login runs in a worker thread; the password is hashed    *)
(* between its reading of the row and its writing.                         *)
(***************************************************************************)
EXTENDS Integers, FiniteSets

CONSTANTS
    Ids,          \* uuids that accounts may ever get
    Emails,
    Clients,      \* browsers that sign in, one worker thread each
    Threshold,    \* LOGIN_FAILURE_THRESHOLD
    InitialLock,  \* LOGIN_FAILURE_INITIAL_LOCK_SECONDS
    LongestLock,  \* LOGIN_FAILURE_MAX_LOCK_SECONDS
    TokenLife,    \* the 30 days of create_token
    MaxVersion,   \* bound of token_version
    MaxFailures,  \* bound of the failures counted, for one email at a time
    MaxTime,      \* bound of the clock
    None

ASSUME AccountsAssumption ==
    /\ Threshold \in Nat \ {0} /\ InitialLock \in Nat /\ LongestLock \in Nat
    /\ TokenLife \in Nat \ {0}
    /\ MaxVersion \in Nat /\ MaxFailures \in Nat /\ MaxTime \in Nat
    /\ None \notin Ids \cup Emails \cup Clients

VARIABLES
    now,
    user,       \* the row of each id
    failed,     \* login failures of each email
    revoked,    \* tokens that were signed out
    loginLock,  \* holder of _login_failure_lock
    pc, attempt,\* where a login is, and what it has read
    token,      \* the token a browser holds
    outdated,   \* browsers whose account was changed since their login read it
    wrong       \* wrong passwords since the last login, of each email

signingIn == <<failed, loginLock, pc, attempt, token>>
watched == <<outdated, wrong>>
vars == <<now, user, revoked, signingIn, watched>>

Roles == {"admin", "user"}
Row  == [email : Emails, role : Roles, enabled : BOOLEAN, version : 0 .. MaxVersion]
Never == [email |-> None, role |-> "never", enabled |-> FALSE, version |-> 0]
Gone  == [email |-> None, role |-> "gone", enabled |-> FALSE, version |-> 0]

Token == [sub : Ids, ver : 0 .. MaxVersion, iat : 0 .. MaxTime]
NoFailure == [count |-> 0, until |-> 0]

\* What a login has read: the account, and later the failures counted so far.
Attempt == [id : Ids, email : Emails, ver : 0 .. MaxVersion, enabled : BOOLEAN,
            at : 0 .. MaxTime, count : 0 .. MaxFailures]
NoAttempt == [id |-> None, email |-> None, ver |-> 0, enabled |-> FALSE, at |-> 0, count |-> 0]

TypeOK ==
    /\ now \in 0 .. MaxTime
    /\ user \in [Ids -> Row \cup {Never, Gone}]
    /\ failed \in [Emails -> [count : 0 .. MaxFailures, until : 0 .. MaxTime + LongestLock]]
    /\ revoked \subseteq Token
    /\ loginLock \in Clients \cup {None}
    /\ pc \in [Clients -> {"idle", "verifying", "recording"}]
    /\ attempt \in [Clients -> Attempt \cup {NoAttempt}]
    /\ token \in [Clients -> Token \cup {None}]
    /\ outdated \subseteq Clients
    /\ wrong \in [Emails -> 0 .. MaxFailures]

Init ==
    /\ now = 0
    /\ user = [i \in Ids |-> Never]
    /\ failed = [e \in Emails |-> NoFailure]
    /\ revoked = {}
    /\ loginLock = None
    /\ pc = [c \in Clients |-> "idle"] /\ attempt = [c \in Clients |-> NoAttempt]
    /\ token = [c \in Clients |-> None]
    /\ outdated = {} /\ wrong = [e \in Emails |-> 0]

-----------------------------------------------------------------------------

Accounts == {i \in Ids : user[i] \in Row}
Taken(e) == \E i \in Accounts : user[i].email = e
EnabledAdmins == {i \in Accounts : user[i].role = "admin" /\ user[i].enabled}

\* create_token
Issued(i, version) == [sub |-> i, ver |-> version, iat |-> now]
Expired(t) == t.iat + TokenLife <= now

\* authenticate_token
Accepted(t) ==
    /\ ~Expired(t) /\ t \notin revoked
    /\ user[t.sub].enabled
    /\ user[t.sub].version = t.ver

\* The browsers that hold, or are about to get, a token of account i.
HoldersOf(i) ==
    {c \in Clients : attempt[c].id = i \/ (pc[c] = "idle" /\ token[c] # None /\ token[c].sub = i)}

-----------------------------------------------------------------------------
(* Administrators *)

\* An account is made, and the browser that asked for it is signed in.
SignUp(c, i, e, role) ==
    /\ user[i] = Never /\ ~Taken(e)
    /\ pc[c] = "idle"
    /\ user' = [user EXCEPT ![i] = [email |-> e, role |-> role, enabled |-> TRUE, version |-> 0]]
    /\ token' = [token EXCEPT ![c] = Issued(i, 0)]
    /\ outdated' = outdated \ {c}
    /\ UNCHANGED <<now, failed, revoked, loginLock, pc, attempt, wrong>>

\* create_setup_admin
Setup(c, i, e) == EnabledAdmins = {} /\ SignUp(c, i, e, "admin")

\* register: anybody may, also before the site is set up.
Register(c, i, e) == SignUp(c, i, e, "user")

\* create_user, by an administrator
CreateUser(i, e, role, enabled) ==
    /\ EnabledAdmins # {}
    /\ user[i] = Never /\ ~Taken(e)
    /\ user' = [user EXCEPT ![i] = [email |-> e, role |-> role, enabled |-> enabled, version |-> 0]]
    /\ UNCHANGED <<now, revoked, signingIn, watched>>

\* _removes_enabled_admin
RemovesAdmin(i, role, enabled) == i \in EnabledAdmins /\ ~(role = "admin" /\ enabled)

\* reject_self_admin_status_change: nobody demotes himself.  An "enabled" of false is refused, too, but
\* one of null disables as well and is let through.
SelfRejected(actor, i, role) == actor = i /\ role = "user"

\* The condition of the UPDATE or DELETE
MayLose_Unchecked(i) == TRUE       \* mutant: it is not there
MayLose(i) == EnabledAdmins \ {i} # {}

\* How much update_user adds to the version; a password that is set counts.
Changes(i, password, role, enabled) ==
    password \/ role # user[i].role \/ (user[i].enabled /\ ~enabled)
Bumps(i, password, role, enabled) ==
    (IF password THEN 1 ELSE 0)
    + (IF role # user[i].role THEN 1 ELSE 0)
    + (IF user[i].enabled /\ ~enabled THEN 1 ELSE 0)

\* update_user
UpdateUser(actor, i, e, password, role, enabled) ==
    LET version == user[i].version + Bumps(i, password, role, enabled)
    IN  /\ actor \in EnabledAdmins /\ i \in Accounts
        /\ RemovesAdmin(i, role, enabled) => MayLose(i)
        /\ ~SelfRejected(actor, i, role)
        /\ e # user[i].email => ~Taken(e)
        /\ version <= MaxVersion
        /\ user' = [user EXCEPT ![i] = [email |-> e, role |-> role, enabled |-> enabled, version |-> version]]
        /\ outdated' = IF Changes(i, password, role, enabled) THEN outdated \cup HoldersOf(i)
                                                           ELSE outdated
        /\ UNCHANGED <<now, revoked, signingIn, wrong>>

\* delete_user: an account with a history is disabled and stays.
DeleteUser(actor, i, history) ==
    /\ actor \in EnabledAdmins /\ i \in Accounts \ {actor}
    /\ RemovesAdmin(i, user[i].role, FALSE) => MayLose(i)
    /\ IF history
       THEN /\ user[i].version < MaxVersion
            /\ user' = [user EXCEPT ![i].enabled = FALSE, ![i].version = @ + 1]
       ELSE user' = [user EXCEPT ![i] = Gone]
    /\ outdated' = outdated \cup HoldersOf(i)
    /\ UNCHANGED <<now, revoked, signingIn, wrong>>

-----------------------------------------------------------------------------
(* Signing in and out *)

\* _raise_if_login_limited
Limited(e) == failed[e].until > now

\* login reads the account; nobody signs in under an email that is limited.
BeginLogin(c, i) ==
    /\ pc[c] = "idle" /\ i \in Accounts
    /\ ~Limited(user[i].email)
    /\ pc' = [pc EXCEPT ![c] = "verifying"]
    /\ attempt' = [attempt EXCEPT ![c] =
                      [id |-> i, email |-> user[i].email, ver |-> user[i].version,
                       enabled |-> user[i].enabled, at |-> now, count |-> 0]]
    /\ token' = [token EXCEPT ![c] = None]
    /\ outdated' = outdated \ {c}
    /\ UNCHANGED <<now, user, failed, revoked, loginLock, wrong>>

EndLogin(c) == pc' = [pc EXCEPT ![c] = "idle"] /\ attempt' = [attempt EXCEPT ![c] = NoAttempt]

\* The password is wrong: _login_failure_lock is taken and the row is read.
FailureLocked_Never == FALSE      \* mutant: nobody takes the lock
FailureLocked == loginLock # None

WrongPassword(c) ==
    /\ pc[c] = "verifying"
    /\ wrong[attempt[c].email] < MaxFailures                       \* bounds: so many failures,
    /\ \A e \in Emails \ {attempt[c].email} : wrong[e] = 0         \* of one email at a time
    /\ ~FailureLocked
    /\ loginLock' = c
    /\ attempt' = [attempt EXCEPT ![c].count = failed[attempt[c].email].count]
    /\ pc' = [pc EXCEPT ![c] = "recording"]
    /\ UNCHANGED <<now, user, revoked, failed, token, watched>>

\* 2 ** n in _login_failure_lock_seconds
TwoTo[n \in Nat] == IF n = 0 THEN 1 ELSE 2 * TwoTo[n - 1]

\* _login_failure_lock_seconds
LockSeconds_Unbounded(count) == InitialLock * TwoTo[count - Threshold]    \* mutant: no longest lock
LockSeconds(count) ==
    LET seconds == InitialLock * TwoTo[count - Threshold]
    IN  IF seconds < LongestLock THEN seconds ELSE LongestLock

\* _record_login_failure and the commit.
RecordFailure(c) ==
    LET e == attempt[c].email
        count == attempt[c].count + 1
    IN  /\ pc[c] = "recording"
        /\ failed' = [failed EXCEPT ![e] =
                [count |-> count,
                 until |-> IF count >= Threshold THEN attempt[c].at + LockSeconds(count) ELSE 0]]
        /\ wrong' = [wrong EXCEPT ![e] = @ + 1]
        /\ loginLock' = None
        /\ EndLogin(c)
        /\ UNCHANGED <<now, user, revoked, token, outdated>>

\* The version a token is made with: the one that was read with the password.
VersionFor_Reread(c) == user[attempt[c].id].version    \* mutant: the row is read again
VersionFor(c) == attempt[c].ver

\* The password is right and the account was enabled: the failures are cleared,
\* the row is written, and a token is made of what was read.
FinishLogin(c) ==
    /\ pc[c] = "verifying" /\ attempt[c].enabled
    /\ ~FailureLocked
    /\ attempt[c].id \in Accounts
    /\ failed' = [failed EXCEPT ![attempt[c].email] = NoFailure]
    /\ wrong' = [wrong EXCEPT ![attempt[c].email] = 0]
    /\ token' = [token EXCEPT ![c] = Issued(attempt[c].id, VersionFor(c))]
    /\ EndLogin(c)
    /\ UNCHANGED <<now, user, revoked, loginLock, outdated>>

\* The account was disabled, or there is no row left to write: an error.
RefuseLogin(c) ==
    /\ pc[c] = "verifying"
    /\ ~attempt[c].enabled \/ attempt[c].id \notin Accounts
    /\ EndLogin(c)
    /\ UNCHANGED <<now, user, failed, revoked, loginLock, token, watched>>

\* revoke_token, for a browser that require_identity let in; tokens that have
\* expired are forgotten.
Purged == {t \in revoked : ~Expired(t)}

Logout(c) ==
    /\ pc[c] = "idle" /\ token[c] # None /\ Accepted(token[c])
    /\ revoked' = Purged \cup {token[c]}
    /\ outdated' = outdated \cup {d \in Clients : token[d] = token[c]}
    /\ UNCHANGED <<now, user, signingIn, wrong>>

-----------------------------------------------------------------------------

Tick ==
    /\ now < MaxTime
    /\ now' = now + 1
    /\ UNCHANGED <<user, revoked, signingIn, watched>>

Manage(actor) ==
    \/ \E i \in Ids, e \in Emails, password, enabled \in BOOLEAN, role \in Roles :
          UpdateUser(actor, i, e, password, role, enabled)
    \/ \E i \in Ids, history \in BOOLEAN : DeleteUser(actor, i, history)

Next ==
    \/ \E c \in Clients, i \in Ids, e \in Emails : Setup(c, i, e) \/ Register(c, i, e)
    \/ \E i \in Ids, e \in Emails, role \in Roles, enabled \in BOOLEAN : CreateUser(i, e, role, enabled)
    \/ \E actor \in Ids : Manage(actor)
    \/ \E c \in Clients :
          \/ \E i \in Ids : BeginLogin(c, i)
          \/ WrongPassword(c) \/ RecordFailure(c) \/ FinishLogin(c) \/ RefuseLogin(c) \/ Logout(c)
    \/ Tick

Spec == Init /\ [][Next]_vars

-----------------------------------------------------------------------------
(* Properties *)

\* A token is refused once its browser signed out, or once the password or the
\* role of its account changed or the account was disabled, even if a login was
\* under way at the time (test_password_change_invalidates_older_jwts,
\* test_disabling_user_invalidates_token_after_reenable,
\* test_role_change_invalidates_older_jwts, test_logout_revokes_current_jwt).
OutdatedAreRefused ==
    \A c \in outdated : pc[c] = "idle" /\ token[c] # None => ~Accepted(token[c])

\* Once set up, the site has an enabled administrator for ever, whatever
\* administrators do to each other
\* (test_last_enabled_admin_cannot_be_disabled_or_deleted).
AdminRemains == [][EnabledAdmins # {} => EnabledAdmins' # {}]_vars

\* No wrong password is lost from the count, however many are tried at once
\* (test_concurrent_failed_logins_increment_existing_user_limit_safely).
FailuresCounted == \A e \in Emails : failed[e].count = wrong[e]

=============================================================================
