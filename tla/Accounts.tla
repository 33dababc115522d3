------------------------------- MODULE Accounts -------------------------------
(***************************************************************************)
(* The local accounts of an instance and their sessions                    *)
(* (internal/identity): setup, logins, passwords, roles and activation.    *)
(*                                                                         *)
(* A handler is one request: it authenticates its session when it begins,  *)
(* and reads or writes in transactions whose isolation is READ COMMITTED,  *)
(* PostgreSQL's default.  A transaction that locks one row and then counts *)
(* others is two actions; one that only writes what it locked is one.      *)
(***************************************************************************)
EXTENDS Integers, FiniteSets

CONSTANTS
    User,
    Handler,        \* the requests served at the same time
    MaxAcctOps,     \* bound on what administrators and users do
    MaxSessions     \* bound on the sessions opened

free == "free"

ASSUME AccountConstants ==
    MaxAcctOps \in Nat /\ MaxSessions \in Nat /\ free \notin Handler

VARIABLES
    acct,       \* User -> its row: role, regime, active, the version of its password
    acctLock,   \* User -> the handler that holds the lock of the row
    sessions,   \* the sessions that are not revoked
    opened,     \* how many were opened
    handler,    \* Handler -> what it is doing
    acctOps

acctVars == <<acct, acctLock, sessions, opened, handler, acctOps>>

NoUser == [role |-> "none", regime |-> "none", active |-> FALSE, password |-> 0]

LocalUser(role) == [role |-> role, regime |-> "local", active |-> TRUE, password |-> 1]

AcctIdle == [at |-> "idle"]

\* Nobody has set the instance up.
AcctInit ==
    /\ acct = [u \in User |-> NoUser]
    /\ acctLock = [u \in User |-> free]
    /\ sessions = {} /\ opened = 0
    /\ handler = [h \in Handler |-> AcctIdle]
    /\ acctOps = 0

Registered(u) == acct[u].role # "none"

Initialized == \E u \in User : Registered(u)

Local(u) == acct[u].regime = "local"

\* The sessions Authenticate accepts.
Authenticated(u) == acct[u].active /\ \E s \in sessions : s.user = u

\* What the routes of accounts ask of a session, requireLocalAdministrator.
LocalAdministrator(u) == Authenticated(u) /\ Local(u) /\ acct[u].role = "administrator"

AcctOperation == acctOps < MaxAcctOps /\ acctOps' = acctOps + 1

Handling(h, to) == handler' = [handler EXCEPT ![h] = to]

OpenSession(u) ==
    /\ opened < MaxSessions
    /\ opened' = opened + 1
    /\ sessions' = sessions \cup {[user |-> u, id |-> opened + 1]}

\* Mutant: the newest session, from which the change was made, is kept.
RevokedButLast(u) == {s \in sessions : s.user # u \/ s.id = opened}

Revoked(u) == {s \in sessions : s.user # u}

----------------------------------------------------------------------------

\* The lock on the installation makes one setup the first.
InitializeInstance(u) ==
    /\ ~Initialized
    /\ acct' = [acct EXCEPT ![u] = LocalUser("administrator")]
    /\ OpenSession(u)
    /\ UNCHANGED <<acctLock, handler, acctOps>>

\* The session is checked once, before the request is served.
Authorize(h, actor) ==
    /\ handler[h].at = "idle" /\ LocalAdministrator(actor) /\ AcctOperation
    /\ Handling(h, [at |-> "authorized", actor |-> actor])
    /\ UNCHANGED <<acct, acctLock, sessions, opened>>

Serves(h) == handler[h].at = "authorized"

\* The username is unique by its index.
CreateAccount(h, u, role) ==
    /\ Serves(h) /\ ~Registered(u)
    /\ acct' = [acct EXCEPT ![u] = LocalUser(role)]
    /\ Handling(h, AcctIdle)
    /\ UNCHANGED <<acctLock, sessions, opened, acctOps>>

\* Users of the provider, see ExternalIdentity: created or followed as they log
\* in, without a password.
ExternalLogin(u, role) ==
    /\ Initialized /\ ~Local(u) /\ acctLock[u] = free /\ (Registered(u) => acct[u].active)
    /\ AcctOperation
    /\ acct' = [acct EXCEPT ![u] = [role |-> role, regime |-> "external", active |-> TRUE, password |-> 0]]
    /\ opened < MaxSessions /\ opened' = opened + 1
    /\ sessions' = (IF role # acct[u].role THEN Revoked(u) ELSE sessions)
                        \cup {[user |-> u, id |-> opened + 1]}
    /\ UNCHANGED <<acctLock, handler>>

\* The password is verified after it is read, slowly, and outside a transaction.
Login(h, u) ==
    /\ handler[h].at = "idle" /\ Local(u) /\ acct[u].active /\ opened < MaxSessions /\ AcctOperation
    /\ Handling(h, [at |-> "verified", user |-> u])
    /\ UNCHANGED <<acct, acctLock, sessions, opened>>

CreateSession(h) ==
    /\ handler[h].at = "verified"
    /\ OpenSession(handler[h].user)
    /\ Handling(h, AcctIdle)
    /\ UNCHANGED <<acct, acctLock, acctOps>>

Logout(s) ==
    /\ s \in sessions /\ AcctOperation
    /\ sessions' = sessions \ {s}
    /\ UNCHANGED <<acct, acctLock, opened, handler>>

WritePassword(u) ==
    /\ Local(u) /\ acctLock[u] = free
    /\ acct' = [acct EXCEPT ![u].password = @ + 1]
    /\ sessions' = Revoked(u)
    /\ UNCHANGED <<acctLock, opened>>

ChangePassword(u) ==
    Authenticated(u) /\ AcctOperation /\ WritePassword(u) /\ UNCHANGED handler

SetPassword(h, u) ==
    Serves(h) /\ WritePassword(u) /\ Handling(h, AcctIdle) /\ UNCHANGED acctOps

\* The way in when nobody has a session left; the token of the deployment is
\* its proof.
RecoverPassword(u) ==
    acct[u].active /\ AcctOperation /\ WritePassword(u) /\ UNCHANGED handler

----------------------------------------------------------------------------
(* mutateAccount: lock the row, apply the change, count, commit *)

MutateAccount(h, u, row, revokes) ==
    /\ acctLock[u] = free
    /\ acctLock' = [acctLock EXCEPT ![u] = h]
    /\ Handling(h, [at |-> "changed", user |-> u, row |-> row, revokes |-> revokes])
    /\ UNCHANGED <<acct, sessions, opened, acctOps>>

UpdateAccount(h, u, role) ==
    /\ Serves(h) /\ Local(u) /\ handler[h].actor # u
    /\ MutateAccount(h, u, [acct[u] EXCEPT !.role = role], TRUE)

SetAccountActivation(h, u, active) ==
    /\ Serves(h) /\ Registered(u) /\ (active \/ handler[h].actor # u)
    /\ MutateAccount(h, u, [acct[u] EXCEPT !.active = active], ~active)

Counted(rows) ==
    {u \in User : rows[u].role = "administrator" /\ rows[u].active /\ rows[u].regime = "local"}

\* The count sees what others committed, and the change of its own transaction.
CountAdministrators(h) ==
    /\ handler[h].at = "changed"
    /\ Counted([acct EXCEPT ![handler[h].user] = handler[h].row]) # {}
    /\ Handling(h, [handler[h] EXCEPT !.at = "counted"])
    /\ UNCHANGED <<acct, acctLock, sessions, opened, acctOps>>

\* Refused, or broken before the commit.
RollbackAccount(h) ==
    /\ handler[h].at \in {"changed", "counted"}
    /\ acctLock' = [acctLock EXCEPT ![handler[h].user] = free]
    /\ Handling(h, AcctIdle)
    /\ UNCHANGED <<acct, sessions, opened, acctOps>>

CommitAccount(h) ==
    LET u == handler[h].user IN
    /\ handler[h].at = "counted"
    /\ acct' = [acct EXCEPT ![u] = handler[h].row]
    /\ sessions' = IF handler[h].revokes THEN Revoked(u) ELSE sessions
    /\ acctLock' = [acctLock EXCEPT ![u] = free]
    /\ Handling(h, AcctIdle)
    /\ UNCHANGED <<opened, acctOps>>

----------------------------------------------------------------------------

Role == {"administrator", "observer"}

AcctNext ==
    \/ \E u \in User :
          \/ InitializeInstance(u) \/ ChangePassword(u) \/ RecoverPassword(u)
          \/ \E role \in Role : ExternalLogin(u, role)
    \/ \E h \in Handler :
          \/ CreateSession(h) \/ CountAdministrators(h) \/ RollbackAccount(h) \/ CommitAccount(h)
          \/ \E u \in User :
                \/ Login(h, u) \/ Authorize(h, u) \/ SetPassword(h, u)
                \/ \E role \in Role : CreateAccount(h, u, role) \/ UpdateAccount(h, u, role)
                \/ \E active \in BOOLEAN : SetAccountActivation(h, u, active)
    \/ \E s \in sessions : Logout(s)

AcctSpec == AcctInit /\ [][AcctNext]_acctVars

----------------------------------------------------------------------------
(* Correctness *)

\* An instance that was set up keeps an active administrator of its own, who
\* needs no provider, whatever administrators do to each other: mutateAccount
\* counts them in the transaction of the change.
KeepsAnAdministrator ==
    Initialized => \E u \in User : /\ acct[u].role = "administrator"
                                   /\ acct[u].active /\ Local(u)

ClosesSessions(u) ==
    (\/ acct'[u].password # acct[u].password /\ Registered(u)
     \/ acct'[u].role # acct[u].role /\ Registered(u)
     \/ acct[u].active /\ ~acct'[u].active)
    => \A s \in sessions \cap sessions' : s.user # u

\* No session outlives a new password, another role or the deactivation of its
\* account, whichever of the ways leads there.
ChangesCloseSessions == [][\A u \in User : ClosesSessions(u)]_acctVars

=============================================================================
