------------------------- MODULE UserAccountsProofs -------------------------
(***************************************************************************)
(* Proofs about UserAccounts for any number of accounts and browsers: that *)
(* the tables keep their types, that an administrator remains, that wrong  *)
(* passwords are counted one by one, and that outdated tokens are refused. *)
(***************************************************************************)
EXTENDS UserAccounts, FiniteSetTheorems, TLAPS

-----------------------------------------------------------------------------
(* The last administrator *)

\* Whoever sets the site up or registers signs up, as an administrator or a user.
LEMMA SignsUp ==
  ASSUME NEW c \in Clients, NEW i \in Ids, NEW e \in Emails, Setup(c, i, e) \/ Register(c, i, e)
  PROVE  \E role \in Roles : SignUp(c, i, e, role)
  BY DEF Setup, Register, Roles

\* An account is none of the marks of an absent one.
LEMMA RowsAreNotMarks == Never \notin Row /\ Gone \notin Row /\ Never # Gone
  BY DEF Never, Gone, Row, Roles

\* An administrator who may manage others is there after every step.
LEMMA StepKeepsAnAdmin ==
  ASSUME user \in [Ids -> Row \cup {Never, Gone}], [Next]_vars, EnabledAdmins # {}
  PROVE  EnabledAdmins' # {}
PROOF
  <1> USE RowsAreNotMarks
  <1>1. CASE UNCHANGED user
    BY <1>1 DEF EnabledAdmins, Accounts
  <1>2. ASSUME NEW c \in Clients, NEW i \in Ids, NEW e \in Emails, Setup(c, i, e)
        PROVE  FALSE
    BY <1>2 DEF Setup
  <1>9. ASSUME NEW c \in Clients, NEW i \in Ids, NEW e \in Emails, Register(c, i, e)
        PROVE  EnabledAdmins' # {}
    <2>1. PICK a \in EnabledAdmins : TRUE
      OBVIOUS
    <2>2. a \in Ids /\ a # i /\ user'[a] = user[a]
      BY <1>9, <2>1 DEF Register, SignUp, EnabledAdmins, Accounts
    <2> QED
      BY <2>1, <2>2 DEF EnabledAdmins, Accounts
  <1>3. ASSUME NEW i \in Ids, NEW e \in Emails, NEW role \in Roles, NEW enabled \in BOOLEAN,
               CreateUser(i, e, role, enabled)
        PROVE  EnabledAdmins' # {}
    <2>1. PICK a \in EnabledAdmins : TRUE
      OBVIOUS
    <2>2. a \in Ids /\ a # i /\ user'[a] = user[a]
      BY <1>3, <2>1 DEF CreateUser, EnabledAdmins, Accounts
    <2> QED
      BY <2>1, <2>2 DEF EnabledAdmins, Accounts
  <1>4. ASSUME NEW actor \in Ids, NEW i \in Ids, NEW e \in Emails, NEW password \in BOOLEAN,
               NEW enabled \in BOOLEAN, NEW role \in Roles,
               UpdateUser(actor, i, e, password, role, enabled)
        PROVE  EnabledAdmins' # {}
    <2>1. actor \in EnabledAdmins /\ i \in Accounts
      BY <1>4 DEF UpdateUser
    <2>2. CASE EnabledAdmins \ {i} # {}
      <3>1. PICK a \in EnabledAdmins \ {i} : TRUE
        BY <2>2
      <3>2. user'[a] = user[a]
        BY <1>4, <3>1 DEF UpdateUser, EnabledAdmins, Accounts
      <3> QED
        BY <3>1, <3>2 DEF EnabledAdmins, Accounts
    <2>3. CASE EnabledAdmins \ {i} = {}
      <3>1. role = "admin" /\ enabled
        BY <1>4, <2>1, <2>3 DEF UpdateUser, RemovesAdmin, MayLose
      <3>2. user'[i] = [email |-> e, role |-> role, enabled |-> enabled,
                        version |-> user[i].version + Bumps(i, password, role, enabled)]
            /\ user[i].version + Bumps(i, password, role, enabled) <= MaxVersion
        BY <1>4 DEF UpdateUser
      <3>3. user[i].version \in Nat /\ Bumps(i, password, role, enabled) \in Nat
        BY <2>1, AccountsAssumption DEF Accounts, Row, Bumps
      <3>4. user[i].version + Bumps(i, password, role, enabled) \in 0 .. MaxVersion
        BY <3>2, <3>3, AccountsAssumption
      <3>5. user'[i] \in Row
        BY <3>2, <3>4 DEF Row
      <3>6. i \in EnabledAdmins'
        BY <3>1, <3>2, <3>5 DEF EnabledAdmins, Accounts
      <3> QED
        BY <3>6
    <2> QED
      BY <2>2, <2>3
  <1>5. ASSUME NEW actor \in Ids, NEW i \in Ids, NEW history \in BOOLEAN, DeleteUser(actor, i, history)
        PROVE  EnabledAdmins' # {}
    <2>1. actor \in EnabledAdmins /\ actor # i
      BY <1>5 DEF DeleteUser
    <2>2. user'[actor] = user[actor]
      BY <1>5, <2>1 DEF DeleteUser
    <2> QED
      BY <2>1, <2>2 DEF EnabledAdmins, Accounts
  <1>6. ASSUME NEW c \in Clients, NEW i \in Ids, BeginLogin(c, i)
        PROVE  UNCHANGED user
    BY <1>6 DEF BeginLogin
  <1>7. ASSUME NEW c \in Clients,
               WrongPassword(c) \/ RecordFailure(c) \/ FinishLogin(c) \/ RefuseLogin(c) \/ Logout(c)
        PROVE  UNCHANGED user
    BY <1>7 DEF WrongPassword, RecordFailure, FinishLogin, RefuseLogin, Logout
  <1>8. ASSUME Tick \/ UNCHANGED vars PROVE UNCHANGED user
    BY <1>8 DEF Tick, vars
  <1> QED
    BY <1>1, <1>2, <1>3, <1>4, <1>5, <1>6, <1>7, <1>8, <1>9 DEF Next, Manage

-----------------------------------------------------------------------------
(* Accounts, logins and tokens keep their types, and no login or token is   *)
(* ahead of the version of its account.                                     *)

Rows == user \in [Ids -> Row \cup {Never, Gone}]

\* A version that account i has, had, or can no longer have.
Known(i, version) ==
    /\ i \in Ids /\ version \in Nat
    /\ user[i] = Gone \/ (user[i] \in Row /\ version <= user[i].version)

\* Account i is past this version.
Past(i, version) ==
    /\ i \in Ids
    /\ user[i] = Gone \/ (user[i] \in Row /\ version < user[i].version)

Refused(t) == Past(t.sub, t.ver) \/ t \in revoked \/ Expired(t)

\* An attempt has the fields it is made with.
IsAttempt(a) == a = [id |-> a.id, email |-> a.email, ver |-> a.ver, enabled |-> a.enabled,
                     at |-> a.at, count |-> a.count]

LoginKnown(c) ==
    /\ pc[c] \in {"idle", "verifying", "recording"}
    /\ pc[c] = "idle" => attempt[c] = NoAttempt
    /\ pc[c] # "idle" => token[c] = None
    /\ pc[c] # "idle" => IsAttempt(attempt[c]) /\ Known(attempt[c].id, attempt[c].ver)
TokenKnown(c) ==
    token[c] # None => /\ token[c] \in [sub : Ids, ver : Nat, iat : Nat]
                       /\ Known(token[c].sub, token[c].ver)

\* What is out of date stays behind its account, signed out, or expired.
OutdatedLogin(c) == c \in outdated /\ pc[c] # "idle" => Past(attempt[c].id, attempt[c].ver)
OutdatedToken(c) == c \in outdated /\ pc[c] = "idle" /\ token[c] # None => Refused(token[c])

Shape ==
    /\ now \in Nat
    /\ Rows
    /\ outdated \subseteq Clients
    /\ pc = [c \in Clients |-> pc[c]] /\ attempt = [c \in Clients |-> attempt[c]]
    /\ token = [c \in Clients |-> token[c]]

ClientInv(c) == LoginKnown(c) /\ TokenKnown(c) /\ OutdatedLogin(c) /\ OutdatedToken(c)
AccountInv == Shape /\ \A c \in Clients : ClientInv(c)

\* The invariant of accounts and tokens holds initially.
LEMMA InitAccountInv == Init => AccountInv
PROOF
  <1> SUFFICES ASSUME Init PROVE AccountInv
    OBVIOUS
  <1>1. Shape
    BY DEF Init, Shape, Rows
  <1>2. \A c \in Clients : LoginKnown(c) /\ TokenKnown(c) /\ OutdatedLogin(c) /\ OutdatedToken(c)
    BY DEF Init, LoginKnown, TokenKnown, OutdatedLogin, OutdatedToken
  <1> QED
    BY <1>1, <1>2 DEF AccountInv, ClientInv

\* An outdated token is refused: the invariant implies the property.
LEMMA InvRefuses == AccountInv => OutdatedAreRefused
PROOF
  <1> SUFFICES ASSUME AccountInv, NEW c \in outdated, pc[c] = "idle", token[c] # None
               PROVE  ~Accepted(token[c])
    BY DEF OutdatedAreRefused
  <1>0. c \in Clients
    BY DEF AccountInv, Shape
  <1>1. Refused(token[c])
    BY <1>0 DEF AccountInv, ClientInv, OutdatedToken
  <1>2. CASE token[c] \in revoked \/ Expired(token[c])
    BY <1>2 DEF Accepted
  <1>3. CASE Past(token[c].sub, token[c].ver)
    <2>1. CASE user[token[c].sub] = Gone
      BY <2>1 DEF Accepted, Gone
    <2>2. CASE /\ user[token[c].sub] \in Row
               /\ token[c].ver < user[token[c].sub].version
      <3>1. token[c].ver \in Nat
        BY <1>0 DEF AccountInv, ClientInv, TokenKnown
      <3>2. user[token[c].sub].version \in Nat
        BY <2>2, AccountsAssumption DEF Row
      <3> QED
        BY <2>2, <3>1, <3>2 DEF Accepted
    <2> QED
      BY <1>3, <2>1, <2>2 DEF Past
  <1> QED
    BY <1>1, <1>2, <1>3 DEF Refused

\* What every step does to the rows, the clock and the tokens signed out.
Grown(i) ==
    /\ user[i] = Gone => user'[i] = Gone
    /\ user[i] \in Row => \/ user'[i] = Gone
                          \/ user'[i] \in Row /\ user[i].version <= user'[i].version

\* Times, versions and revocations only grow.
LEMMA StepGrows ==
  ASSUME Shape, [Next]_vars
  PROVE  /\ Rows' /\ now' \in Nat /\ now <= now'
         /\ \A i \in Ids : Grown(i)
         /\ \A t \in revoked : t \in revoked' \/ Expired(t)
PROOF
  <1> USE RowsAreNotMarks
  <1> DEFINE Goal == /\ Rows' /\ now' \in Nat /\ now <= now'
                     /\ \A i \in Ids : Grown(i)
                     /\ \A t \in revoked : t \in revoked' \/ Expired(t)
  <1>0. \A i \in Ids : user[i] \in Row => user[i].version \in 0 .. MaxVersion
    BY DEF Row
  <1>1. CASE UNCHANGED <<user, revoked>> /\ now' \in Nat /\ now <= now'
    BY <1>0, <1>1, AccountsAssumption DEF Shape, Rows, Grown
  <1>2. ASSUME NEW r \in Row, NEW i \in Ids, user[i] = Never, user' = [user EXCEPT ![i] = r],
               UNCHANGED <<now, revoked>>
        PROVE  Goal
    BY <1>0, <1>2, AccountsAssumption DEF Shape, Rows, Grown
  <1>3. ASSUME NEW i \in Ids, NEW r \in Row \cup {Gone}, user[i] \in Row, user' = [user EXCEPT ![i] = r],
               r \in Row => user[i].version <= r.version,
               UNCHANGED <<now, revoked>>
        PROVE  Goal
    BY <1>0, <1>3, AccountsAssumption DEF Shape, Rows, Grown
  <1>4. ASSUME NEW c \in Clients, NEW i \in Ids, NEW e \in Emails, NEW role \in Roles, SignUp(c, i, e, role)
        PROVE  Goal
    <2>1. [email |-> e, role |-> role, enabled |-> TRUE, version |-> 0] \in Row
      BY AccountsAssumption DEF Row
    <2> QED
      BY <1>2, <1>4, <2>1 DEF SignUp
  <1>5. ASSUME NEW i \in Ids, NEW e \in Emails, NEW role \in Roles, NEW enabled \in BOOLEAN,
               CreateUser(i, e, role, enabled)
        PROVE  Goal
    <2>1. [email |-> e, role |-> role, enabled |-> enabled, version |-> 0] \in Row
      BY AccountsAssumption DEF Row
    <2> QED
      BY <1>2, <1>5, <2>1 DEF CreateUser
  <1>6. ASSUME NEW actor \in Ids, NEW i \in Ids, NEW e \in Emails, NEW password \in BOOLEAN,
               NEW enabled \in BOOLEAN, NEW role \in Roles,
               UpdateUser(actor, i, e, password, role, enabled)
        PROVE  Goal
    <2>1. user[i] \in Row
      BY <1>6 DEF UpdateUser, Accounts
    <2> DEFINE v == user[i].version + Bumps(i, password, role, enabled)
               r == [email |-> e, role |-> role, enabled |-> enabled, version |-> v]
    <2>2. user[i].version \in Nat /\ Bumps(i, password, role, enabled) \in Nat
      BY <2>1, AccountsAssumption DEF Row, Bumps
    <2>3. v \in 0 .. MaxVersion /\ user[i].version <= v
      BY <1>6, <2>2, AccountsAssumption DEF UpdateUser
    <2>4. r \in Row /\ r.version = v
      BY <2>3 DEF Row
    <2>5. user' = [user EXCEPT ![i] = r] /\ UNCHANGED <<now, revoked>>
      BY <1>6 DEF UpdateUser
    <2> HIDE DEF r, v
    <2>6. r \in Row \cup {Gone} /\ (r \in Row => user[i].version <= r.version)
      BY <2>3, <2>4
    <2> QED
      BY <1>3, <2>1, <2>5, <2>6
  <1>7. ASSUME NEW actor \in Ids, NEW i \in Ids, NEW history \in BOOLEAN, DeleteUser(actor, i, history)
        PROVE  Goal
    <2>1. user[i] \in Row
      BY <1>7 DEF DeleteUser, Accounts
    <2>2. CASE history
      <3> DEFINE r == [email |-> user[i].email, role |-> user[i].role, enabled |-> FALSE,
                       version |-> user[i].version + 1]
      <3>1. user[i].version \in Nat /\ user[i].version + 1 \in 0 .. MaxVersion
        BY <1>7, <2>1, <2>2, AccountsAssumption DEF DeleteUser, Row
      <3>2. r \in Row /\ r.version = user[i].version + 1
        BY <2>1, <3>1 DEF Row
      <3>3. user' = [user EXCEPT ![i] = r] /\ UNCHANGED <<now, revoked>>
        BY <1>7, <2>1, <2>2 DEF DeleteUser, Row, Shape, Rows
      <3> HIDE DEF r
      <3>4. r \in Row \cup {Gone} /\ (r \in Row => user[i].version <= r.version)
        BY <3>1, <3>2
      <3> QED
        BY <1>3, <2>1, <3>3, <3>4
    <2>3. CASE ~history
      BY <1>3, <1>7, <2>1, <2>3 DEF DeleteUser
    <2> QED
      BY <2>2, <2>3
  <1>8. ASSUME NEW c \in Clients, NEW i \in Ids, BeginLogin(c, i)
        PROVE  Goal
    BY <1>1, <1>8 DEF BeginLogin, Shape
  <1>9. ASSUME NEW c \in Clients,
               WrongPassword(c) \/ RecordFailure(c) \/ FinishLogin(c) \/ RefuseLogin(c)
        PROVE  Goal
    BY <1>1, <1>9 DEF WrongPassword, RecordFailure, FinishLogin, RefuseLogin, Shape
  <1>10. ASSUME NEW c \in Clients, Logout(c)
         PROVE  Goal
    BY <1>0, <1>10, AccountsAssumption DEF Logout, Purged, Shape, Rows, Grown
  <1>11. CASE Tick \/ UNCHANGED vars
    BY <1>1, <1>11 DEF Tick, vars, Shape
  <1> QED
    BY <1>4, <1>5, <1>6, <1>7, <1>8, <1>9, <1>10, <1>11, SignsUp DEF Next, Manage

\* What is known of an account, or behind it, stays so.
LEMMA GrownKeeps ==
  ASSUME NEW i \in Ids, NEW v \in Nat, Grown(i), Rows, Rows'
  PROVE  /\ Known(i, v) => Known(i, v)'
         /\ Past(i, v) => Past(i, v)'
PROOF
  <1>1. \A r \in Row : r.version \in Nat
    BY AccountsAssumption DEF Row
  <1>2. Known(i, v) => Known(i, v)'
    BY <1>1, RowsAreNotMarks DEF Grown, Known
  <1>3. Past(i, v) => Past(i, v)'
    BY <1>1, RowsAreNotMarks DEF Grown, Past
  <1> QED
    BY <1>2, <1>3

\* A token that is refused stays refused.
LEMMA RefusedStays ==
  ASSUME Shape, [Next]_vars
  PROVE  \A t \in [sub : Ids, ver : Nat, iat : Nat] : Refused(t) => Refused(t)'
PROOF
  <1> TAKE t \in [sub : Ids, ver : Nat, iat : Nat]
  <1>1. /\ Rows /\ Rows' /\ now \in Nat /\ now' \in Nat /\ now <= now'
        /\ \A i \in Ids : Grown(i)
        /\ t \in revoked => t \in revoked' \/ Expired(t)
    BY StepGrows DEF Shape
  <1>2. Past(t.sub, t.ver) => Past(t.sub, t.ver)'
    BY <1>1, GrownKeeps
  <1>3. Expired(t) => Expired(t)'
    BY <1>1, AccountsAssumption DEF Expired
  <1> QED
    BY <1>1, <1>2, <1>3 DEF Refused

\* A browser that a step leaves alone.
LEMMA SameClient ==
  ASSUME AccountInv, [Next]_vars, NEW c \in Clients,
         pc'[c] = pc[c], attempt'[c] = attempt[c], token'[c] = token[c],
         c \in outdated' => c \in outdated
  PROVE  ClientInv(c)'
PROOF
  <1>1. Rows /\ now \in Nat /\ ClientInv(c)
    BY DEF AccountInv, Shape
  <1>2. /\ Rows' /\ now' \in Nat /\ now <= now'
        /\ \A i \in Ids : Grown(i)
        /\ \A t \in revoked : t \in revoked' \/ Expired(t)
    BY StepGrows DEF AccountInv
  <1>3. LoginKnown(c)'
    BY <1>1, <1>2, GrownKeeps DEF ClientInv, LoginKnown, IsAttempt, Known
  <1>4. TokenKnown(c)'
    BY <1>1, <1>2, GrownKeeps DEF ClientInv, TokenKnown
  <1>5. OutdatedLogin(c)'
    BY <1>1, <1>2, GrownKeeps DEF ClientInv, LoginKnown, Known, OutdatedLogin
  <1>6. OutdatedToken(c)'
    BY <1>1, RefusedStays DEF ClientInv, TokenKnown, OutdatedToken, AccountInv
  <1> QED
    BY <1>3, <1>4, <1>5, <1>6 DEF ClientInv

\* The holders of an account fall behind it, when its version goes up or it goes.
LEMMA HolderFallsBehind ==
  ASSUME AccountInv, [Next]_vars, NEW i \in Ids, NEW c \in HoldersOf(i),
         user[i] \in Row, user'[i] = Gone \/ (user'[i] \in Row /\ user[i].version < user'[i].version),
         UNCHANGED <<pc, attempt, token>>
  PROVE  ClientInv(c)'
PROOF
  <1>1. c \in Clients /\ Rows /\ ClientInv(c)
    BY DEF HoldersOf, AccountInv, Shape
  <1>2. /\ Rows' /\ now' \in Nat /\ now <= now'
        /\ \A j \in Ids : Grown(j)
        /\ \A t \in revoked : t \in revoked' \/ Expired(t)
    BY StepGrows DEF AccountInv
  <1>3. \A v \in Nat : Known(i, v) => Past(i, v)'
    BY RowsAreNotMarks, AccountsAssumption DEF Known, Past, Row
  <1>4. LoginKnown(c)' /\ TokenKnown(c)'
    BY <1>1, <1>2, GrownKeeps DEF ClientInv, LoginKnown, IsAttempt, TokenKnown, Known
  <1>5. pc[c] # "idle" => attempt[c].id = i
    BY <1>1 DEF HoldersOf
  <1>6. pc[c] = "idle" /\ token[c] # None => token[c].sub = i
    <2>1. pc[c] = "idle" => attempt[c].id = None
      BY <1>1 DEF ClientInv, LoginKnown, NoAttempt
    <2> QED
      BY <2>1, AccountsAssumption DEF HoldersOf
  <1>7. OutdatedLogin(c)'
    BY <1>1, <1>3, <1>5 DEF ClientInv, LoginKnown, Known, OutdatedLogin
  <1>8. OutdatedToken(c)'
    <2> SUFFICES ASSUME pc[c] = "idle", token[c] # None
                 PROVE  Refused(token[c])'
      BY DEF OutdatedToken
    <2>1. token[c].sub = i /\ token[c].ver \in Nat /\ Known(i, token[c].ver)
      BY <1>1, <1>6 DEF ClientInv, TokenKnown
    <2>2. Past(i, token[c].ver)'
      BY <1>3, <2>1
    <2> QED
      BY <2>1, <2>2 DEF Refused
  <1> QED
    BY <1>4, <1>7, <1>8 DEF ClientInv

\* Every step keeps the invariant of accounts and tokens.
LEMMA StepKeepsAccountInv ==
  ASSUME AccountInv, [Next]_vars
  PROVE  AccountInv'
PROOF
  <1> USE RowsAreNotMarks
  <1> DEFINE Same(c) == /\ pc'[c] = pc[c] /\ attempt'[c] = attempt[c] /\ token'[c] = token[c]
                        /\ c \in outdated' => c \in outdated
             Clear(c) == ClientInv(c)'
             Others(c) == \A d \in Clients \ {c} : Same(d)
             Frame == /\ outdated' \subseteq Clients
                      /\ pc' = [d \in Clients |-> pc'[d]] /\ attempt' = [d \in Clients |-> attempt'[d]]
                      /\ token' = [d \in Clients |-> token'[d]]
  <1>0. /\ Rows' /\ now' \in Nat /\ now <= now'
        /\ \A i \in Ids : Grown(i)
    BY StepGrows DEF AccountInv
  <1>1. \A c \in Clients : Same(c) => Clear(c)
    BY SameClient
  <1> HIDE DEF Clear
  <1>2. SUFFICES Frame /\ \A c \in Clients : Clear(c)
    BY <1>0 DEF AccountInv, Shape, Clear
  <1>3. CASE UNCHANGED <<pc, attempt, token, outdated>>
    BY <1>1, <1>3 DEF AccountInv, Shape
  <1>4. ASSUME NEW c \in Clients, NEW i \in Ids, NEW e \in Emails, NEW role \in Roles, SignUp(c, i, e, role)
        PROVE  Frame /\ \A d \in Clients : Clear(d)
    <2>1. Frame /\ Others(c)
      BY <1>4 DEF SignUp, AccountInv, Shape
    <2>2. user'[i] = [email |-> e, role |-> role, enabled |-> TRUE, version |-> 0] /\ user'[i] \in Row
      BY <1>4, AccountsAssumption DEF SignUp, AccountInv, Shape, Rows, Row
    <2>3. /\ pc'[c] = "idle" /\ pc[c] = "idle" /\ attempt'[c] = attempt[c]
          /\ token'[c] = [sub |-> i, ver |-> 0, iat |-> now] /\ c \notin outdated'
      BY <1>4 DEF SignUp, Issued, AccountInv, Shape
    <2>4. attempt[c] = NoAttempt
      BY <2>3 DEF AccountInv, ClientInv, LoginKnown
    <2>5. LoginKnown(c)'
      BY <2>3, <2>4 DEF LoginKnown
    <2>6. TokenKnown(c)'
      BY <2>2, <2>3 DEF TokenKnown, Known, AccountInv, Shape
    <2>7. Clear(c)
      BY <2>3, <2>5, <2>6 DEF Clear, ClientInv, OutdatedLogin, OutdatedToken
    <2> QED
      BY <1>1, <2>1, <2>7
  <1>5. ASSUME NEW i \in Ids, NEW e \in Emails, NEW role \in Roles, NEW enabled \in BOOLEAN,
               CreateUser(i, e, role, enabled)
        PROVE  UNCHANGED <<pc, attempt, token, outdated>>
    BY <1>5 DEF CreateUser, signingIn, watched
  <1>6. ASSUME NEW i \in Ids, user[i] \in Row,
               user'[i] = Gone \/ (user'[i] \in Row /\ user[i].version < user'[i].version),
               UNCHANGED <<pc, attempt, token>>, outdated' = outdated \cup HoldersOf(i)
        PROVE  Frame /\ \A c \in Clients : Clear(c)
    <2>1. \A c \in HoldersOf(i) : Clear(c)
      BY <1>6, HolderFallsBehind DEF Clear
    <2>2. \A c \in Clients \ HoldersOf(i) : Clear(c)
      BY <1>1, <1>6
    <2>3. Frame
      BY <1>6 DEF AccountInv, Shape, HoldersOf
    <2> QED
      BY <2>1, <2>2, <2>3
  <1>7. ASSUME NEW actor \in Ids, NEW i \in Ids, NEW e \in Emails, NEW password \in BOOLEAN,
               NEW enabled \in BOOLEAN, NEW role \in Roles,
               UpdateUser(actor, i, e, password, role, enabled)
        PROVE  Frame /\ \A c \in Clients : Clear(c)
    <2>1. UNCHANGED <<pc, attempt, token>>
      BY <1>7 DEF UpdateUser, signingIn
    <2>2. CASE ~Changes(i, password, role, enabled)
      BY <1>3, <1>7, <2>1, <2>2 DEF UpdateUser
    <2>3. CASE Changes(i, password, role, enabled)
      <3>1. user[i] \in Row /\ user[i].version \in Nat
        BY <1>7, AccountsAssumption DEF UpdateUser, Accounts, Row
      <3>2. Bumps(i, password, role, enabled) \in Nat /\ Bumps(i, password, role, enabled) > 0
        BY <2>3 DEF Bumps, Changes
      <3> DEFINE v == user[i].version + Bumps(i, password, role, enabled)
      <3>3. v \in 0 .. MaxVersion /\ user[i].version < v
        BY <1>7, <3>1, <3>2, AccountsAssumption DEF UpdateUser
      <3>4. user'[i] = [email |-> e, role |-> role, enabled |-> enabled, version |-> v]
        BY <1>7 DEF UpdateUser, AccountInv, Shape, Rows
      <3> HIDE DEF v
      <3>5. user'[i] \in Row /\ user'[i].version = v
        BY <3>3, <3>4 DEF Row
      <3>6. outdated' = outdated \cup HoldersOf(i)
        BY <1>7, <2>3 DEF UpdateUser
      <3> QED
        BY <1>6, <2>1, <3>1, <3>3, <3>5, <3>6
    <2> QED
      BY <2>2, <2>3
  <1>8. ASSUME NEW actor \in Ids, NEW i \in Ids, NEW history \in BOOLEAN, DeleteUser(actor, i, history)
        PROVE  Frame /\ \A c \in Clients : Clear(c)
    <2>1. user[i] \in Row /\ UNCHANGED <<pc, attempt, token>> /\ outdated' = outdated \cup HoldersOf(i)
      BY <1>8 DEF DeleteUser, Accounts, signingIn
    <2>2. CASE history
      <3>1. user[i].version \in Nat
        BY <2>1, AccountsAssumption DEF Row
      <3>2. user'[i].version = user[i].version + 1
        BY <1>8, <2>1, <2>2 DEF DeleteUser, AccountInv, Shape, Rows, Row
      <3>3. user'[i] = Gone \/ (user'[i] \in Row /\ user[i].version < user'[i].version)
        BY <1>0, <2>1, <3>1, <3>2 DEF Grown
      <3> QED
        BY <1>6, <2>1, <3>3
    <2>3. CASE ~history
      <3>1. user'[i] = Gone
        BY <1>8, <2>3 DEF DeleteUser, AccountInv, Shape, Rows
      <3> QED
        BY <1>6, <2>1, <3>1
    <2> QED
      BY <2>2, <2>3
  <1>9. ASSUME NEW c \in Clients, NEW i \in Ids, BeginLogin(c, i)
        PROVE  Frame /\ \A d \in Clients : Clear(d)
    <2>1. Frame /\ Others(c)
      BY <1>9 DEF BeginLogin, AccountInv, Shape
    <2>2. user[i] \in Row /\ user'[i] = user[i] /\ user[i].version \in Nat
      BY <1>9, AccountsAssumption DEF BeginLogin, Accounts, Row
    <2>3. /\ pc'[c] = "verifying" /\ attempt'[c].id = i /\ attempt'[c].ver = user[i].version
          /\ IsAttempt(attempt'[c])
          /\ token'[c] = None /\ c \notin outdated'
      BY <1>9 DEF BeginLogin, AccountInv, Shape, IsAttempt
    <2>4. LoginKnown(c)'
      BY <2>2, <2>3 DEF LoginKnown, IsAttempt, Known
    <2>5. Clear(c)
      BY <2>3, <2>4 DEF Clear, ClientInv, TokenKnown, OutdatedLogin, OutdatedToken
    <2> QED
      BY <1>1, <2>1, <2>5
  <1>10. ASSUME NEW c \in Clients, WrongPassword(c)
         PROVE  Frame /\ \A d \in Clients : Clear(d)
    <2>1. Frame /\ Others(c)
      BY <1>10 DEF WrongPassword, watched, AccountInv, Shape
    <2>2. /\ pc[c] = "verifying" /\ pc'[c] = "recording"
          /\ token'[c] = token[c] /\ outdated' = outdated
      BY <1>10 DEF WrongPassword, watched, AccountInv, Shape
    <2>3. IsAttempt(attempt[c]) /\ Known(attempt[c].id, attempt[c].ver) /\ token[c] = None
      BY <2>2 DEF AccountInv, ClientInv, LoginKnown
    <2>4. IsAttempt(attempt'[c]) /\ attempt'[c].id = attempt[c].id /\ attempt'[c].ver = attempt[c].ver
      <3>1. attempt'[c] = [attempt[c] EXCEPT !.count = failed[attempt[c].email].count]
        BY <1>10 DEF WrongPassword, AccountInv, Shape
      <3> QED
        BY <2>3, <3>1 DEF IsAttempt
    <2>5. user' = user
      BY <1>10 DEF WrongPassword
    <2>6. LoginKnown(c)' /\ TokenKnown(c)'
      BY <2>2, <2>3, <2>4, <2>5 DEF LoginKnown, IsAttempt, TokenKnown, Known
    <2>7. OutdatedLogin(c)'
      BY <2>2, <2>4, <2>5 DEF AccountInv, ClientInv, OutdatedLogin, Past
    <2>8. Clear(c)
      BY <2>2, <2>6, <2>7 DEF Clear, ClientInv, OutdatedToken
    <2> QED
      BY <1>1, <2>1, <2>8
  <1>11. ASSUME NEW c \in Clients, pc[c] # "idle", pc'[c] = "idle", attempt'[c] = NoAttempt,
                token'[c] = token[c], c \in outdated' => c \in outdated, Frame, Others(c)
         PROVE  Frame /\ \A d \in Clients : Clear(d)
    <2>1. token'[c] = None
      BY <1>11 DEF AccountInv, ClientInv, LoginKnown
    <2>2. Clear(c)
      BY <1>11, <2>1 DEF Clear, ClientInv, LoginKnown, TokenKnown, OutdatedLogin, OutdatedToken
    <2> QED
      BY <1>1, <1>11, <2>2
  <1>12. ASSUME NEW c \in Clients, RecordFailure(c) \/ RefuseLogin(c)
         PROVE  Frame /\ \A d \in Clients : Clear(d)
    <2>1. Frame /\ Others(c)
      BY <1>12 DEF RecordFailure, RefuseLogin, EndLogin, watched, AccountInv, Shape
    <2>2. /\ pc[c] # "idle" /\ pc'[c] = "idle" /\ attempt'[c] = NoAttempt /\ token'[c] = token[c]
          /\ c \in outdated' => c \in outdated
      BY <1>12 DEF RecordFailure, RefuseLogin, EndLogin, watched, AccountInv, Shape
    <2> QED
      BY <1>11, <2>1, <2>2
  <1>13. ASSUME NEW c \in Clients, FinishLogin(c)
         PROVE  Frame /\ \A d \in Clients : Clear(d)
    <2>1. Frame /\ Others(c)
      BY <1>13 DEF FinishLogin, EndLogin, AccountInv, Shape
    <2> DEFINE i == attempt[c].id  v == attempt[c].ver
    <2>2. /\ pc[c] = "verifying" /\ pc'[c] = "idle" /\ attempt'[c] = NoAttempt
          /\ token'[c] = [sub |-> i, ver |-> v, iat |-> now] /\ outdated' = outdated
      BY <1>13 DEF FinishLogin, EndLogin, Issued, VersionFor, AccountInv, Shape
    <2>3. Known(i, v) /\ i \in Ids /\ v \in Nat /\ now \in Nat /\ user' = user
      BY <1>13, <2>2 DEF FinishLogin, AccountInv, ClientInv, LoginKnown, Known, Shape
    <2>4. LoginKnown(c)' /\ OutdatedLogin(c)'
      BY <2>2 DEF LoginKnown, OutdatedLogin
    <2>5. TokenKnown(c)'
      BY <2>2, <2>3 DEF TokenKnown, Known
    <2>6. c \in outdated => Past(i, v)
      BY <2>2 DEF AccountInv, ClientInv, OutdatedLogin
    <2>7. OutdatedToken(c)'
      BY <2>2, <2>3, <2>6 DEF OutdatedToken, Refused, Past
    <2> QED
      BY <1>1, <2>1, <2>4, <2>5, <2>7 DEF Clear, ClientInv
  <1>14. ASSUME NEW c \in Clients, Logout(c)
         PROVE  Frame /\ \A d \in Clients : Clear(d)
    <2>1. Frame /\ UNCHANGED <<pc, attempt, token>>
      BY <1>14 DEF Logout, signingIn, AccountInv, Shape
    <2>2. \A d \in Clients : token[d] # token[c] => Clear(d)
      BY <1>1, <1>14, <2>1 DEF Logout
    <2>3. ASSUME NEW d \in Clients, token[d] = token[c]
          PROVE  Clear(d)
      <3>1. token[d] # None /\ token[d] \in revoked'
        BY <1>14, <2>3 DEF Logout
      <3>2. pc[d] = "idle" /\ attempt[d] = NoAttempt
        BY <3>1 DEF AccountInv, ClientInv, LoginKnown
      <3>3. TokenKnown(d)'
        BY <1>0, <2>1, GrownKeeps DEF AccountInv, Shape, ClientInv, TokenKnown
      <3> QED
        BY <2>1, <3>1, <3>2, <3>3 DEF Clear, ClientInv, LoginKnown, OutdatedLogin, OutdatedToken, Refused
    <2> QED
      BY <2>1, <2>2, <2>3
  <1>15. CASE Tick \/ UNCHANGED vars
    BY <1>3, <1>15 DEF Tick, vars, signingIn, watched
  <1> QED
    BY <1>3, <1>4, <1>5, <1>7, <1>8, <1>9, <1>10, <1>12, <1>13, <1>14, <1>15, SignsUp DEF Next, Manage

-----------------------------------------------------------------------------

\* The invariant of the accounts holds in every state.
THEOREM AccountsAlways == Spec => []AccountInv
  BY InitAccountInv, StepKeepsAccountInv, PTL DEF Spec

\* A token is refused once its browser signed out or its account changed, in
\* every state, a login under way included (authenticate_token, login).
THEOREM TokensFollowAccounts == Spec => []OutdatedAreRefused
  BY AccountsAlways, InvRefuses, PTL

\* Once set up, the site keeps an enabled administrator (update_user,
\* delete_user).
THEOREM AdminAlwaysRemains == Spec => AdminRemains
PROOF
  <1>1. AccountInv /\ [Next]_vars => [EnabledAdmins # {} => EnabledAdmins' # {}]_vars
    BY StepKeepsAnAdmin DEF AccountInv, Shape, Rows
  <1> QED
    BY <1>1, AccountsAlways, PTL DEF Spec, AdminRemains

-----------------------------------------------------------------------------
(* Wrong passwords are counted one by one. *)

\* Whoever records a failure holds the lock, and has read the count there is.
Recorder(c) ==
    /\ pc[c] # "idle" => attempt[c].email \in Emails
    /\ pc[c] = "recording" => /\ loginLock = c
                              /\ attempt[c].count = failed[attempt[c].email].count

CountInv ==
    /\ failed = [e \in Emails |-> failed[e]] /\ wrong = [e \in Emails |-> wrong[e]]
    /\ FailuresCounted
    /\ \A c \in Clients : Recorder(c)

\* Every step keeps the counts of wrong passwords.
LEMMA StepKeepsCountInv ==
  ASSUME AccountInv, CountInv, [Next]_vars
  PROVE  CountInv'
PROOF
  <1> DEFINE Same(c) == pc'[c] = pc[c] /\ attempt'[c] = attempt[c]
             Others(c) == \A d \in Clients \ {c} : Same(d)
  <1>1. CASE UNCHANGED <<failed, wrong, loginLock, pc, attempt>>
    BY <1>1 DEF CountInv, FailuresCounted, Recorder
  <1>2. ASSUME NEW c \in Clients, NEW i \in Ids, NEW e \in Emails, NEW role \in Roles, SignUp(c, i, e, role)
        PROVE  UNCHANGED <<failed, wrong, loginLock, pc, attempt>>
    BY <1>2 DEF SignUp
  <1>3. ASSUME NEW c \in Clients, NEW i \in Ids, BeginLogin(c, i)
        PROVE  CountInv'
    <2>1. Others(c) /\ UNCHANGED <<failed, wrong, loginLock>>
      BY <1>3 DEF BeginLogin, AccountInv, Shape
    <2>2. pc'[c] = "verifying" /\ attempt'[c].email = user[i].email /\ user[i].email \in Emails
      BY <1>3 DEF BeginLogin, AccountInv, Shape, Accounts, Row
    <2> QED
      BY <2>1, <2>2 DEF CountInv, FailuresCounted, Recorder
  <1>4. ASSUME NEW c \in Clients, WrongPassword(c)
        PROVE  CountInv'
    <2>1. /\ Others(c) /\ UNCHANGED <<failed, wrong>>
          /\ loginLock = None /\ loginLock' = c
          /\ pc[c] = "verifying" /\ pc'[c] = "recording"
      BY <1>4 DEF WrongPassword, FailureLocked, watched, AccountInv, Shape
    <2>2. attempt'[c].email = attempt[c].email /\ attempt'[c].count = failed[attempt[c].email].count
      <3>1. attempt'[c] = [attempt[c] EXCEPT !.count = failed[attempt[c].email].count]
        BY <1>4 DEF WrongPassword, AccountInv, Shape
      <3>2. IsAttempt(attempt[c])
        BY <2>1 DEF AccountInv, ClientInv, LoginKnown
      <3> QED
        BY <3>1, <3>2 DEF IsAttempt
    <2>3. \A d \in Clients : pc[d] # "recording"
      BY <2>1, AccountsAssumption DEF CountInv, Recorder
    <2> QED
      BY <2>1, <2>2, <2>3 DEF CountInv, FailuresCounted, Recorder
  <1>5. ASSUME NEW c \in Clients, RecordFailure(c)
        PROVE  CountInv'
    <2> DEFINE e == attempt[c].email
    <2>1. /\ Others(c) /\ pc[c] = "recording" /\ pc'[c] = "idle"
          /\ loginLock' = None
      BY <1>5 DEF RecordFailure, EndLogin, AccountInv, Shape
    <2>2. e \in Emails /\ loginLock = c /\ attempt[c].count = failed[e].count
      BY <2>1 DEF CountInv, Recorder
    <2>3. /\ failed' = [failed EXCEPT ![e] = failed'[e]] /\ failed'[e].count = failed[e].count + 1
          /\ wrong' = [wrong EXCEPT ![e] = wrong[e] + 1]
      BY <1>5, <2>2 DEF RecordFailure, CountInv
    <2>4. \A d \in Clients \ {c} : pc[d] # "recording"
      BY <2>2 DEF CountInv, Recorder
    <2>5. FailuresCounted'
      BY <2>2, <2>3 DEF CountInv, FailuresCounted
    <2>6. \A d \in Clients : Recorder(d)'
      BY <2>1, <2>4 DEF CountInv, Recorder
    <2> QED
      BY <2>2, <2>3, <2>5, <2>6 DEF CountInv
  <1>6. ASSUME NEW c \in Clients, FinishLogin(c)
        PROVE  CountInv'
    <2> DEFINE e == attempt[c].email
    <2>1. /\ Others(c) /\ pc[c] = "verifying" /\ pc'[c] = "idle"
          /\ loginLock = None
      BY <1>6 DEF FinishLogin, FailureLocked, EndLogin, AccountInv, Shape
    <2>2. e \in Emails
      BY <2>1 DEF CountInv, Recorder
    <2>3. /\ failed' = [failed EXCEPT ![e] = NoFailure] /\ wrong' = [wrong EXCEPT ![e] = 0]
      BY <1>6 DEF FinishLogin
    <2>4. \A d \in Clients : pc[d] # "recording"
      BY <2>1, AccountsAssumption DEF CountInv, Recorder
    <2>5. FailuresCounted'
      BY <2>2, <2>3 DEF CountInv, FailuresCounted, NoFailure
    <2>6. \A d \in Clients : Recorder(d)'
      BY <2>1, <2>4 DEF CountInv, Recorder
    <2> QED
      BY <2>2, <2>3, <2>5, <2>6 DEF CountInv
  <1>7. ASSUME NEW c \in Clients, RefuseLogin(c)
        PROVE  CountInv'
    <2>1. Others(c) /\ pc'[c] = "idle" /\ UNCHANGED <<failed, wrong, loginLock>>
      BY <1>7 DEF RefuseLogin, EndLogin, watched, AccountInv, Shape
    <2> QED
      BY <2>1 DEF CountInv, FailuresCounted, Recorder
  <1>8. ASSUME \/ \E i \in Ids, e \in Emails, role \in Roles, enabled \in BOOLEAN : CreateUser(i, e, role, enabled)
               \/ \E actor \in Ids : Manage(actor)
               \/ \E c \in Clients : Logout(c)
               \/ Tick \/ UNCHANGED vars
        PROVE  UNCHANGED <<failed, wrong, loginLock, pc, attempt>>
    <2> DEFINE Counting == UNCHANGED <<failed, wrong, loginLock, pc, attempt>>
    <2>1. ASSUME NEW i \in Ids, NEW e \in Emails, NEW role \in Roles, NEW enabled \in BOOLEAN,
                 CreateUser(i, e, role, enabled)
          PROVE  Counting
      BY <2>1 DEF CreateUser, signingIn, watched
    <2>2. ASSUME NEW actor \in Ids, NEW i \in Ids, NEW e \in Emails, NEW password \in BOOLEAN,
                 NEW enabled \in BOOLEAN, NEW role \in Roles,
                 UpdateUser(actor, i, e, password, role, enabled)
          PROVE  Counting
      BY <2>2 DEF UpdateUser, signingIn
    <2>3. ASSUME NEW actor \in Ids, NEW i \in Ids, NEW history \in BOOLEAN, DeleteUser(actor, i, history)
          PROVE  Counting
      BY <2>3 DEF DeleteUser, signingIn
    <2>4. ASSUME NEW c \in Clients, Logout(c)
          PROVE  Counting
      BY <2>4 DEF Logout, signingIn
    <2>5. CASE Tick \/ UNCHANGED vars
      BY <2>5 DEF Tick, vars, signingIn, watched
    <2> QED
      BY <1>8, <2>1, <2>2, <2>3, <2>4, <2>5 DEF Manage
  <1> QED
    BY <1>1, <1>2, <1>3, <1>4, <1>5, <1>6, <1>7, <1>8, SignsUp DEF Next

\* What is counted is true in every state.
THEOREM CountsAlways == Spec => []CountInv
PROOF
  <1>1. Init => CountInv
    BY DEF Init, CountInv, FailuresCounted, Recorder, NoFailure
  <1>2. AccountInv /\ CountInv /\ [Next]_vars => CountInv'
    BY StepKeepsCountInv
  <1> QED
    BY <1>1, <1>2, AccountsAlways, PTL DEF Spec

\* However many wrong passwords are tried at once, each of them is counted
\* (_record_login_failure under _login_failure_lock).
THEOREM FailuresAlwaysCounted == Spec => []FailuresCounted
PROOF
  <1>1. CountInv => FailuresCounted
    BY DEF CountInv
  <1> QED
    BY <1>1, CountsAlways, PTL

-----------------------------------------------------------------------------
(* How long an email is locked: powers of two are natural numbers.  What   *)
(* the recursion defines is shown from a least counterexample.             *)

\* A set of natural numbers has a least member.
LEMMA LeastOf ==
  ASSUME NEW T \in SUBSET Nat, NEW n \in T
  PROVE  \E m \in T : \A k \in T : m <= k
PROOF
  <1> DEFINE S == 0 .. n
             B == {0 .. k : k \in {k \in T : k <= n}}
  <1>1. IsFiniteSet(S)
    BY FS_Interval
  <1>2. B \in SUBSET SUBSET S /\ 0 .. n \in B
    OBVIOUS
  <1>3. IsWellFoundedOn(StrictSubsetOrdering(S), SUBSET S)
    BY <1>1, FS_StrictSubsetOrderingWellFounded, FS_FiniteSubsetsOfFinite
  <1>4. PICK s \in B : \A t \in B : <<t, s>> \notin StrictSubsetOrdering(S)
    <2> HIDE DEF B, S
    <2> QED
      BY <1>2, <1>3, WFMin
  <1>5. PICK m \in T : m <= n /\ s = 0 .. m
    OBVIOUS
  <1>6. ASSUME NEW k \in T, ~(m <= k) PROVE FALSE
    <2>1. k < m /\ 0 .. k \in B
      BY <1>5, <1>6
    <2>2. 0 .. k \in SUBSET S /\ 0 .. m \in SUBSET S /\ 0 .. k \subseteq 0 .. m /\ m \in 0 .. m /\ m \notin 0 .. k
      BY <1>5, <2>1
    <2> HIDE DEF B, S
    <2>3. <<0 .. k, 0 .. m>> \in StrictSubsetOrdering(S)
      BY <2>2 DEF StrictSubsetOrdering
    <2> QED
      BY <1>4, <1>5, <2>1, <2>3
  <1> QED
    BY <1>6

\* Up to n, g is 1 and then twice what it was before.
Doubles(g, n) ==
    /\ g \in [0 .. n -> Nat]
    /\ g[0] = 1
    /\ \A k \in 1 .. n : g[k] = 2 * g[k - 1]

\* There is a function that doubles, up to any number.
LEMMA DoublesExist == \A n \in Nat : \E g : Doubles(g, n)
PROOF
  <1> DEFINE B == {n \in Nat : ~\E g : Doubles(g, n)}
  <1> SUFFICES ASSUME NEW b \in B PROVE FALSE
    OBVIOUS
  <1>1. PICK n \in B : \A k \in B : n <= k
    <2>1. B \in SUBSET Nat
      OBVIOUS
    <2> HIDE DEF B
    <2> QED
      BY <2>1, LeastOf
  <1>2. CASE n = 0
    <2>1. Doubles([k \in 0 .. 0 |-> 1], 0)
      BY DEF Doubles
    <2> QED
      BY <1>2, <2>1
  <1>3. CASE n # 0
    <2>1. n - 1 \in Nat /\ n - 1 \notin B /\ n \in Nat
      BY <1>1, <1>3
    <2>2. PICK g : Doubles(g, n - 1)
      BY <2>1
    <2> DEFINE h == [k \in 0 .. n |-> IF k = n THEN 2 * g[n - 1] ELSE g[k]]
    <2>3. g \in [0 .. n - 1 -> Nat] /\ g[0] = 1 /\ \A k \in 1 .. n - 1 : g[k] = 2 * g[k - 1]
      BY <2>2 DEF Doubles
    <2>4. g[n - 1] \in Nat
      BY <2>1, <2>3
    <2>5. \A k \in 0 .. n : h[k] \in Nat
      BY <2>1, <2>3, <2>4
    <2>6. \A k \in 1 .. n : h[k] = 2 * h[k - 1]
      BY <2>1, <2>3
    <2>7. h[0] = 1
      BY <2>1, <2>3, <1>3
    <2>8. Doubles(h, n)
      BY <2>5, <2>6, <2>7 DEF Doubles
    <2> QED
      BY <2>8
  <1> QED
    BY <1>2, <1>3

\* Two functions that double are the same as far as both go.
LEMMA DoublesAgree ==
  ASSUME NEW n \in Nat, NEW m \in Nat, NEW g, NEW h, Doubles(g, n), Doubles(h, m),
         NEW k \in Nat, k <= n, k <= m
  PROVE  g[k] = h[k]
PROOF
  <1> DEFINE B == {i \in 0 .. k : g[i] # h[i]}
  <1> SUFFICES ASSUME k \in B PROVE FALSE
    OBVIOUS
  <1>1. PICK i \in B : \A j \in B : i <= j
    <2>1. B \in SUBSET Nat
      OBVIOUS
    <2> HIDE DEF B
    <2> QED
      BY <2>1, LeastOf
  <1>2. i # 0
    BY <1>1 DEF Doubles
  <1>3. i - 1 \in 0 .. k /\ i - 1 \notin B
    BY <1>1, <1>2
  <1>4. g[i] = 2 * g[i - 1] /\ h[i] = 2 * h[i - 1]
    BY <1>1, <1>2 DEF Doubles
  <1> QED
    BY <1>1, <1>3, <1>4

\* The powers of two are natural numbers.
LEMMA TwoToIsNat == TwoTo \in [Nat -> Nat]
PROOF
  <1> DEFINE G(n) == CHOOSE g : Doubles(g, n)
             f == [n \in Nat |-> G(n)[n]]
             Step(h) == [n \in Nat |-> IF n = 0 THEN 1 ELSE 2 * h[n - 1]]
  <1>1. \A n \in Nat : Doubles(G(n), n)
    BY DoublesExist
  <1> HIDE DEF G
  <1>2. f \in [Nat -> Nat]
    BY <1>1 DEF Doubles
  <1>3. \A n \in Nat : f[n] = IF n = 0 THEN 1 ELSE 2 * f[n - 1]
    <2> TAKE n \in Nat
    <2>1. CASE n = 0
      BY <1>1, <2>1 DEF Doubles
    <2>2. CASE n # 0
      <3>1. n - 1 \in Nat /\ n \in 1 .. n
        BY <2>2
      <3>2. G(n)[n] = 2 * G(n)[n - 1]
        BY <1>1, <3>1 DEF Doubles
      <3>3. G(n)[n - 1] = G(n - 1)[n - 1]
        BY <1>1, <3>1, DoublesAgree
      <3> QED
        BY <2>2, <3>1, <3>2, <3>3
    <2> QED
      BY <2>1, <2>2
  <1>4. f = Step(f)
    BY <1>2, <1>3
  <1>5. TwoTo = CHOOSE h : h = Step(h)
    BY DEF TwoTo
  <1>6. TwoTo = Step(TwoTo)
    <2> HIDE DEF f, Step
    <2> QED
      BY <1>4, <1>5
  <1>7. \A n \in Nat : TwoTo[n] = IF n = 0 THEN 1 ELSE 2 * TwoTo[n - 1]
    BY <1>6
  <1>8. \A n \in Nat : TwoTo[n] \in Nat
    <2> DEFINE B == {n \in Nat : TwoTo[n] \notin Nat}
    <2> SUFFICES ASSUME NEW b \in B PROVE FALSE
      OBVIOUS
    <2>1. PICK n \in B : \A k \in B : n <= k
      <3>1. B \in SUBSET Nat
        OBVIOUS
      <3> HIDE DEF B
      <3> QED
        BY <3>1, LeastOf
    <2>2. n # 0
      BY <1>7, <2>1
    <2>3. n - 1 \in Nat /\ n - 1 \notin B
      BY <2>1, <2>2
    <2> QED
      BY <1>7, <2>1, <2>2, <2>3
  <1>9. TwoTo = [n \in Nat |-> TwoTo[n]]
    BY <1>6
  <1> QED
    BY <1>8, <1>9

\* A lock is never longer than the longest.
LEMMA LockIsBounded ==
  ASSUME NEW count \in Nat, count >= Threshold
  PROVE  LockSeconds(count) \in 0 .. LongestLock
PROOF
  <1>1. TwoTo[count - Threshold] \in Nat
    BY TwoToIsNat, AccountsAssumption
  <1> DEFINE seconds == InitialLock * TwoTo[count - Threshold]
  <1>2. seconds \in Nat
    BY <1>1, AccountsAssumption
  <1>3. LockSeconds(count) = IF seconds < LongestLock THEN seconds ELSE LongestLock
    BY DEF LockSeconds
  <1> HIDE DEF seconds
  <1> QED
    BY <1>2, <1>3, AccountsAssumption

-----------------------------------------------------------------------------
(* Types.  That the count of failures keeps its bound needs the lock: the  *)
(* failure that is being recorded was admitted below the bound, and no     *)
(* other is recorded meanwhile.                                            *)

BelowTheBound(c) == pc[c] = "recording" => wrong[attempt[c].email] < MaxFailures
TypeInv == TypeOK /\ \A c \in Clients : BelowTheBound(c)

\* Every step keeps the types.
LEMMA StepKeepsTypes ==
  ASSUME AccountInv, CountInv, TypeInv, [Next]_vars
  PROVE  TypeInv'
PROOF
  <1>0. Rows' /\ outdated' \subseteq Clients /\ AccountInv' /\ CountInv'
    BY StepKeepsAccountInv, StepKeepsCountInv DEF AccountInv, Shape
  <1> DEFINE Counted == [count : 0 .. MaxFailures, until : 0 .. MaxTime + LongestLock]
             SameCounts == UNCHANGED <<failed, wrong>>
             SameLogins == UNCHANGED <<loginLock, pc, attempt>>
  <1>a. TypeOK
    BY DEF TypeInv
  <1>b. now' \in 0 .. MaxTime
    <2>1. ASSUME NEW c \in Clients,
                 \/ \E i \in Ids, e \in Emails : Setup(c, i, e) \/ Register(c, i, e)
                 \/ \E i \in Ids : BeginLogin(c, i)
                 \/ WrongPassword(c) \/ RecordFailure(c) \/ FinishLogin(c) \/ RefuseLogin(c) \/ Logout(c)
          PROVE  now' = now
      BY <2>1 DEF Setup, Register, SignUp, BeginLogin, WrongPassword, RecordFailure, FinishLogin, RefuseLogin, Logout
    <2>2. ASSUME NEW i \in Ids, NEW e \in Emails, NEW role \in Roles, NEW enabled \in BOOLEAN,
                 CreateUser(i, e, role, enabled)
          PROVE  now' = now
      BY <2>2 DEF CreateUser
    <2>3. ASSUME NEW actor \in Ids, Manage(actor)
          PROVE  now' = now
      BY <2>3 DEF Manage, UpdateUser, DeleteUser
    <2>4. CASE Tick
      BY <2>4, <1>a, AccountsAssumption DEF Tick, TypeOK
    <2>5. CASE UNCHANGED vars
      BY <1>a, <2>5 DEF vars, TypeOK
    <2> QED
      BY <1>a, <2>1, <2>2, <2>3, <2>4, <2>5 DEF Next, TypeOK
  <1>c. pc' \in [Clients -> {"idle", "verifying", "recording"}]
    BY <1>0 DEF AccountInv, Shape, ClientInv, LoginKnown
  <1>1. ASSUME SameCounts, SameLogins, revoked' \subseteq Token, token' \in [Clients -> Token \cup {None}]
        PROVE  TypeInv'
    BY <1>0, <1>a, <1>b, <1>1 DEF TypeInv, TypeOK, Rows, BelowTheBound
  <1>2. ASSUME NEW i \in Ids, NEW v \in 0 .. MaxVersion
        PROVE  Issued(i, v) \in Token
    BY <1>a DEF Issued, Token, TypeOK
  <1>3. ASSUME NEW c \in Clients, NEW i \in Ids, NEW e \in Emails, NEW role \in Roles, SignUp(c, i, e, role)
        PROVE  TypeInv'
    <2>1. SameCounts /\ SameLogins /\ revoked' = revoked /\ token' = [token EXCEPT ![c] = Issued(i, 0)]
      BY <1>3 DEF SignUp
    <2>2. Issued(i, 0) \in Token
      BY <1>2, AccountsAssumption
    <2>3. token' \in [Clients -> Token \cup {None}]
      BY <1>a, <2>1, <2>2 DEF TypeOK
    <2> QED
      BY <1>1, <1>a, <2>1, <2>3 DEF TypeOK
  <1>4. ASSUME UNCHANGED <<revoked, signingIn, wrong>>
        PROVE  TypeInv'
    BY <1>1, <1>4, <1>a DEF signingIn, TypeOK
  <1>5. ASSUME NEW i \in Ids, NEW e \in Emails, NEW role \in Roles, NEW enabled \in BOOLEAN,
               CreateUser(i, e, role, enabled)
        PROVE  TypeInv'
    BY <1>4, <1>5 DEF CreateUser, watched
  <1>6. ASSUME NEW actor \in Ids, Manage(actor)
        PROVE  TypeInv'
    <2>1. ASSUME NEW i \in Ids, NEW e \in Emails, NEW password \in BOOLEAN, NEW enabled \in BOOLEAN,
                 NEW role \in Roles, UpdateUser(actor, i, e, password, role, enabled)
          PROVE  UNCHANGED <<revoked, signingIn, wrong>>
      BY <2>1 DEF UpdateUser
    <2>2. ASSUME NEW i \in Ids, NEW history \in BOOLEAN, DeleteUser(actor, i, history)
          PROVE  UNCHANGED <<revoked, signingIn, wrong>>
      BY <2>2 DEF DeleteUser
    <2> QED
      BY <1>4, <1>6, <2>1, <2>2 DEF Manage
  <1>7. ASSUME NEW c \in Clients, NEW i \in Ids, BeginLogin(c, i)
        PROVE  TypeInv'
    <2> DEFINE a == [id |-> i, email |-> user[i].email, ver |-> user[i].version,
                     enabled |-> user[i].enabled, at |-> now, count |-> 0]
    <2>1. /\ SameCounts /\ loginLock' = loginLock /\ revoked' = revoked
          /\ attempt' = [attempt EXCEPT ![c] = a] /\ token' = [token EXCEPT ![c] = None]
          /\ pc' = [pc EXCEPT ![c] = "verifying"] /\ user[i] \in Row
      BY <1>7 DEF BeginLogin, Accounts
    <2>2. a \in Attempt
      BY <1>a, <2>1, AccountsAssumption DEF Attempt, Row, TypeOK
    <2> HIDE DEF a
    <2>3. attempt' \in [Clients -> Attempt \cup {NoAttempt}] /\ token' \in [Clients -> Token \cup {None}]
      BY <1>a, <2>1, <2>2 DEF TypeOK
    <2>4. ASSUME NEW d \in Clients PROVE BelowTheBound(d)'
      BY <1>a, <2>1 DEF TypeInv, TypeOK, BelowTheBound
    <2>5. TypeOK'
      BY <1>0, <1>a, <1>b, <1>c, <2>1, <2>3 DEF TypeOK, Rows
    <2> QED
      BY <2>4, <2>5 DEF TypeInv
  <1>8. ASSUME NEW c \in Clients, WrongPassword(c)
        PROVE  TypeInv'
    <2> DEFINE e == attempt[c].email
               n == failed[e].count
    <2>1. /\ SameCounts /\ UNCHANGED <<revoked, token>> /\ loginLock' = c
          /\ attempt' = [attempt EXCEPT ![c] = [attempt[c] EXCEPT !.count = n]]
          /\ pc[c] = "verifying" /\ pc' = [pc EXCEPT ![c] = "recording"] /\ wrong[e] < MaxFailures
      BY <1>8 DEF WrongPassword, watched
    <2>2. attempt[c] \in Attempt /\ e \in Emails
      <3>1. attempt[c] \in Attempt \cup {NoAttempt}
        BY <1>a DEF TypeOK
      <3>2. attempt[c].id \in Ids
        BY <2>1 DEF AccountInv, ClientInv, LoginKnown, Known
      <3>3. attempt[c] # NoAttempt
        BY <3>2, AccountsAssumption DEF NoAttempt
      <3> QED
        BY <3>1, <3>3 DEF Attempt
    <2>3. n \in 0 .. MaxFailures
      BY <1>a, <2>2 DEF TypeOK
    <2> HIDE DEF n
    <2>4. [attempt[c] EXCEPT !.count = n] \in Attempt
      BY <2>2, <2>3 DEF Attempt
    <2>5. attempt' \in [Clients -> Attempt \cup {NoAttempt}]
      BY <1>a, <2>1, <2>4 DEF TypeOK
    <2>6. TypeOK'
      BY <1>0, <1>a, <1>b, <1>c, <2>1, <2>5 DEF TypeOK, Rows
    <2>7. attempt'[c].email = e
      BY <1>a, <2>1, <2>2 DEF TypeOK, Attempt
    <2>8. ASSUME NEW d \in Clients PROVE BelowTheBound(d)'
      <3>1. CASE d = c
        BY <2>1, <2>7, <3>1 DEF BelowTheBound
      <3>2. CASE d # c
        BY <1>a, <2>1, <3>2 DEF TypeInv, TypeOK, BelowTheBound
      <3> QED
        BY <3>1, <3>2
    <2> QED
      BY <2>6, <2>8 DEF TypeInv
  <1>9. ASSUME NEW c \in Clients, EndLogin(c)
        PROVE  attempt' \in [Clients -> Attempt \cup {NoAttempt}]
    BY <1>9, <1>a DEF EndLogin, TypeOK
  <1>10. ASSUME NEW c \in Clients, RecordFailure(c)
         PROVE  TypeInv'
    <2> DEFINE e == attempt[c].email
               count == attempt[c].count + 1
               until == IF count >= Threshold THEN attempt[c].at + LockSeconds(count) ELSE 0
    <2>1. /\ UNCHANGED <<revoked, token>> /\ loginLock' = None /\ EndLogin(c)
          /\ failed' = [failed EXCEPT ![e] = [count |-> count, until |-> until]]
          /\ wrong' = [wrong EXCEPT ![e] = wrong[e] + 1] /\ pc[c] = "recording"
      BY <1>10 DEF RecordFailure
    <2>2. e \in Emails /\ loginLock = c /\ attempt[c].count = wrong[e]
      BY <2>1 DEF CountInv, Recorder, FailuresCounted
    <2>3. wrong[e] \in Nat /\ wrong[e] < MaxFailures
      BY <1>a, <2>1, <2>2 DEF TypeOK, TypeInv, BelowTheBound
    <2>4. count \in 0 .. MaxFailures /\ wrong[e] + 1 \in 0 .. MaxFailures
      BY <2>2, <2>3, AccountsAssumption
    <2>5. attempt[c].at \in 0 .. MaxTime
      <3>1. attempt[c] \in Attempt \cup {NoAttempt}
        BY <1>a DEF TypeOK
      <3> QED
        BY <3>1, AccountsAssumption DEF Attempt, NoAttempt
    <2>6. until \in 0 .. MaxTime + LongestLock
      <3>1. CASE count >= Threshold
        <4>1. LockSeconds(count) \in 0 .. LongestLock
          BY <2>4, <3>1, LockIsBounded
        <4>2. until = attempt[c].at + LockSeconds(count)
          BY <3>1
        <4> HIDE DEF until
        <4> QED
          BY <2>5, <4>1, <4>2, AccountsAssumption
      <3>2. CASE ~(count >= Threshold)
        <4>1. until = 0
          BY <3>2
        <4> HIDE DEF until
        <4> QED
          BY <4>1, AccountsAssumption
      <3> QED
        BY <3>1, <3>2
    <2> HIDE DEF count, until
    <2>7. failed' \in [Emails -> Counted] /\ wrong' \in [Emails -> 0 .. MaxFailures]
      BY <1>a, <2>1, <2>4, <2>6 DEF TypeOK
    <2>8. TypeOK'
      BY <1>0, <1>9, <1>a, <1>b, <1>c, <2>1, <2>7 DEF TypeOK, Rows
    <2>9. ASSUME NEW d \in Clients PROVE BelowTheBound(d)'
      <3>1. pc'[d] # "recording"
        BY <1>a, <2>1, <2>2 DEF EndLogin, TypeOK, CountInv, Recorder
      <3> QED
        BY <3>1 DEF BelowTheBound
    <2> QED
      BY <2>8, <2>9 DEF TypeInv
  <1>11. ASSUME NEW c \in Clients, FinishLogin(c)
         PROVE  TypeInv'
    <2> DEFINE e == attempt[c].email
               i == attempt[c].id
               v == attempt[c].ver
    <2>1. /\ UNCHANGED <<revoked, loginLock>> /\ EndLogin(c) /\ loginLock = None
          /\ failed' = [failed EXCEPT ![e] = NoFailure] /\ wrong' = [wrong EXCEPT ![e] = 0]
          /\ token' = [token EXCEPT ![c] = Issued(i, v)] /\ i \in Ids
      BY <1>11 DEF FinishLogin, FailureLocked, VersionFor, Accounts
    <2>2. v \in 0 .. MaxVersion
      <3>1. attempt[c] \in Attempt \cup {NoAttempt}
        BY <1>a DEF TypeOK
      <3> QED
        BY <3>1, AccountsAssumption DEF Attempt, NoAttempt
    <2>3. Issued(i, v) \in Token
      BY <1>2, <2>1, <2>2
    <2> HIDE DEF v, i
    <2>4. token' \in [Clients -> Token \cup {None}]
      BY <1>a, <2>1, <2>3 DEF TypeOK
    <2>5. NoFailure \in Counted
      BY AccountsAssumption DEF NoFailure
    <2>6. failed' \in [Emails -> Counted] /\ wrong' \in [Emails -> 0 .. MaxFailures]
      <3>1. 0 \in 0 .. MaxFailures
        BY AccountsAssumption
      <3> QED
        BY <1>a, <2>1, <2>5, <3>1 DEF TypeOK
    <2>7. TypeOK'
      BY <1>0, <1>9, <1>a, <1>b, <1>c, <2>1, <2>4, <2>6 DEF TypeOK, Rows
    <2>8. ASSUME NEW d \in Clients PROVE BelowTheBound(d)'
      <3>1. pc'[d] # "recording"
        BY <1>a, <2>1, AccountsAssumption DEF EndLogin, TypeOK, CountInv, Recorder
      <3> QED
        BY <3>1 DEF BelowTheBound
    <2> QED
      BY <2>7, <2>8 DEF TypeInv
  <1>12. ASSUME NEW c \in Clients, RefuseLogin(c)
         PROVE  TypeInv'
    <2>1. SameCounts /\ UNCHANGED <<revoked, loginLock, token>> /\ EndLogin(c)
      BY <1>12 DEF RefuseLogin, watched
    <2>2. TypeOK'
      BY <1>0, <1>9, <1>a, <1>b, <1>c, <2>1 DEF TypeOK, Rows
    <2>3. ASSUME NEW d \in Clients PROVE BelowTheBound(d)'
      BY <1>a, <2>1 DEF EndLogin, TypeInv, TypeOK, BelowTheBound
    <2> QED
      BY <2>2, <2>3 DEF TypeInv
  <1>13. ASSUME NEW c \in Clients, Logout(c)
         PROVE  TypeInv'
    <2>1. revoked' = Purged \cup {token[c]} /\ token[c] # None /\ UNCHANGED <<signingIn, wrong>>
      BY <1>13 DEF Logout
    <2>2. revoked' \subseteq Token
      BY <1>a, <2>1 DEF Purged, TypeOK
    <2> QED
      BY <1>1, <1>a, <2>1, <2>2 DEF signingIn, TypeOK
  <1>14. CASE Tick \/ UNCHANGED vars
    BY <1>4, <1>14 DEF Tick, vars, watched
  <1> QED
    BY <1>3, <1>5, <1>6, <1>7, <1>8, <1>10, <1>11, <1>12, <1>13, <1>14, SignsUp DEF Next

\* Every variable keeps its type: no version, count or lock outgrows its bound
\* (the token_version of update_user, _record_login_failure,
\* _login_failure_lock_seconds).
THEOREM AccountsTyped == Spec => []TypeOK
PROOF
  <1>1. Init => TypeInv
    BY AccountsAssumption DEF Init, TypeInv, TypeOK, BelowTheBound, NoFailure, Attempt
  <1>2. AccountInv /\ CountInv /\ TypeInv /\ [Next]_vars => TypeInv'
    BY StepKeepsTypes
  <1>3. TypeInv => TypeOK
    BY DEF TypeInv
  <1> QED
    BY <1>1, <1>2, <1>3, AccountsAlways, CountsAlways, PTL DEF Spec
=============================================================================
