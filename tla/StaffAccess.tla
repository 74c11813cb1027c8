---------------------------- MODULE StaffAccess ----------------------------
(***************************************************************************)
(* Staff accounts, their sessions, and the locks under which a session is  *)
(* opened, used and revoked.  A token stands for one login; its holder     *)
(* sends one request at a time, besides the logout.  A step between a row  *)
(* lock and the commit is a step of its own where others can act in the    *)
(* meantime; a transaction that keeps its lock throughout is one step.     *)
(***************************************************************************)
EXTENDS Integers

CONSTANTS
    Candidate,     \* identities given to ticket-staff bootstrap-admin
    Staff,         \* identities an admin may create
    Token,         \* logins
    Nobody,        \* no account, no token
    MaxPassword    \* a bound: passwords of one account

Account == Candidate \cup Staff

ASSUME AccessAssumption ==
    /\ Candidate \cap Staff = {}
    /\ Nobody \notin Account \cup Token
    /\ MaxPassword \in Nat \ {0}

VARIABLES
    role,        \* staff_users.role, NONE without a row
    active,      \* the accounts with staff_users.active
    password,    \* which password staff_users.password_hash is of
    assigned,    \* the staff with a row in staff_assignments for the gate of the scans
    session,     \* the row of staff_sessions under a token: none, live or expired
    holder,      \* its staff_id, known to the login before there is a row
    opened,      \* the hash the login has read and compared
    pc,          \* how far the holder's request is
    carried,     \* the answer of the payment provider it brings, if any: see CaseDesk
    bootstrap    \* how far each bootstrap-admin command is

accounts == <<role, active, password, assigned>>
logins == <<session, holder, opened>>
accessVars == <<accounts, logins, pc, carried, bootstrap>>

NoAnswer == -1

Role == {"NONE", "ADMIN", "STAFF"}
Session == {"none", "live", "expired"}

\* out: no token yet; read: the hash is compared; locked: createSession has the user row;
\* in: no request under way; admitted: past the handler's admin check; user, op: in
\* AuthenticateTx with the first lock and with both; allowed: the gate is checked too;
\* asking, answered: between the two transactions of a recheck, see CaseDesk.
PC == {"out", "read", "locked", "in", "admitted", "user", "op", "allowed", "asking", "answered"}

\* orphan: the command is gone, the server still has its INSERT and its GET_LOCK.
Bootstrap == {"idle", "locked", "counted", "orphan"}

AccessTypeOK ==
    /\ role \in [Account -> Role]
    /\ active \subseteq Account
    /\ password \in [Account -> 0..MaxPassword]
    /\ assigned \subseteq Staff
    /\ session \in [Token -> Session]
    /\ holder \in [Token -> Account \cup {Nobody}]
    /\ opened \in [Token -> 0..MaxPassword]
    /\ pc \in [Token -> PC]
    /\ carried \in [Token -> Int]
    /\ bootstrap \in [Candidate -> Bootstrap]

AccessInit ==
    /\ role = [a \in Account |-> "NONE"]
    /\ active = {} /\ assigned = {}
    /\ password = [a \in Account |-> 0]
    /\ session = [t \in Token |-> "none"]
    /\ holder = [t \in Token |-> Nobody]
    /\ opened = [t \in Token |-> 0]
    /\ pc = [t \in Token |-> "out"]
    /\ carried = [t \in Token |-> NoAnswer]
    /\ bootstrap = [c \in Candidate |-> "idle"]

---------------------------------------------------------------------------
(* Locks *)

\* FOR UPDATE on the user row, by createSession
Exclusive(a) == \E t \in Token : pc[t] = "locked" /\ holder[t] = a

\* FOR SHARE on the user row, by AuthenticateTx
Shared(a) == \E t \in Token : pc[t] \in {"user", "op", "allowed"} /\ holder[t] = a

\* FOR SHARE on the session row
SessionShared(t) == pc[t] \in {"op", "allowed"}

Goto(t, where) == pc' = [pc EXCEPT ![t] = where]

\* The request of t is over, and its transaction with it.
Release(t) ==
    /\ Goto(t, "in")
    /\ carried' = [carried EXCEPT ![t] = NoAnswer]

---------------------------------------------------------------------------
(* The first administrator *)

\* A slip: no lock is asked for.
BootstrapUnlocked(c) ==
    /\ bootstrap[c] = "idle"
    /\ bootstrap' = [bootstrap EXCEPT ![c] = "locked"]
    /\ UNCHANGED <<accounts, logins, pc, carried>>

BootstrapLock(c) ==
    /\ \A d \in Candidate : bootstrap[d] = "idle"
    /\ bootstrap' = [bootstrap EXCEPT ![c] = "locked"]
    /\ UNCHANGED <<accounts, logins, pc, carried>>

BootstrapCount(c) ==
    /\ bootstrap[c] = "locked"
    /\ bootstrap' = [bootstrap EXCEPT ![c] =
          IF \E a \in Account : role[a] = "ADMIN" THEN "idle" ELSE "counted"]
    /\ UNCHANGED <<accounts, logins, pc, carried>>

AddAccount(a, r) ==
    /\ role' = [role EXCEPT ![a] = r]
    /\ active' = active \cup {a}
    /\ password' = [password EXCEPT ![a] = 1]

\* The INSERT, and with it the release of the lock; for a command that is gone, at the
\* server.
BootstrapInsert(c) ==
    /\ bootstrap[c] \in {"counted", "orphan"}
    /\ role[c] = "NONE"
    /\ AddAccount(c, "ADMIN")
    /\ bootstrap' = [bootstrap EXCEPT ![c] = "idle"]
    /\ UNCHANGED <<assigned, logins, pc, carried>>

\* The deadline of 30 seconds, a lost connection or a crash; an INSERT on its way may
\* still arrive or be lost.
BootstrapCut(c) ==
    /\ \/ /\ bootstrap[c] \in {"locked", "orphan"}
          /\ bootstrap' = [bootstrap EXCEPT ![c] = "idle"]
       \/ /\ bootstrap[c] = "counted"
          /\ bootstrap' = [bootstrap EXCEPT ![c] = "orphan"]
    /\ UNCHANGED <<accounts, logins, pc, carried>>

---------------------------------------------------------------------------
(* Opening and ending sessions *)

\* Login, up to the comparison with the stored hash.  A token without a row
\* is as good as a new one.
Login(t, a) ==
    /\ pc[t] \in {"out", "in"} /\ session[t] = "none"
    /\ a \in active
    /\ holder' = [holder EXCEPT ![t] = a]
    /\ opened' = [opened EXCEPT ![t] = password[a]]
    /\ Goto(t, "read")
    /\ UNCHANGED <<accounts, session, carried, bootstrap>>

\* A slip: the user is locked, but what was read before is relied on.
LockUserRowBlindly(t) ==
    /\ pc[t] = "read"
    /\ ~Exclusive(holder[t]) /\ ~Shared(holder[t])
    /\ Goto(t, "locked")
    /\ UNCHANGED <<accounts, logins, carried, bootstrap>>

\* createSession, SELECT ... FOR UPDATE: the account is looked at again.
LockUserRow(t) ==
    LET a == holder[t] IN
    /\ pc[t] = "read"
    /\ ~Exclusive(a) /\ ~Shared(a)
    /\ Goto(t, IF a \in active /\ password[a] = opened[t] THEN "locked" ELSE "out")
    /\ UNCHANGED <<accounts, logins, carried, bootstrap>>

\* createSession, the rest: expired sessions of everybody go, the new one comes.
OpenSession(t) ==
    LET Expired == {u \in Token : session[u] = "expired"} IN
    /\ pc[t] = "locked"
    /\ \A u \in Expired : ~SessionShared(u)
    /\ session' = [u \in Token |-> IF u = t THEN "live"
                                   ELSE IF u \in Expired THEN "none" ELSE session[u]]
    /\ Goto(t, "in")
    /\ UNCHANGED <<accounts, holder, opened, carried, bootstrap>>

\* expires_at passes.
Expire(t) ==
    /\ session[t] = "live"
    /\ session' = [session EXCEPT ![t] = "expired"]
    /\ UNCHANGED <<accounts, holder, opened, pc, carried, bootstrap>>

\* Logout, also while another request of the same token is under way.
Logout(t) ==
    /\ session[t] # "none" /\ ~SessionShared(t)
    /\ session' = [session EXCEPT ![t] = "none"]
    /\ UNCHANGED <<accounts, holder, opened, pc, carried, bootstrap>>

---------------------------------------------------------------------------
(* Protected operations *)

\* AuthenticateTx, the user row.  The session was looked up without a lock
\* before the user row was granted, so nothing is known of it here.
AuthenticateUser(t) ==
    /\ pc[t] \in {"in", "answered"}
    /\ holder[t] \in active /\ ~Exclusive(holder[t])
    /\ Goto(t, "user")
    /\ UNCHANGED <<accounts, logins, carried, bootstrap>>

\* A slip: the session is not asked for again under the lock.
AuthenticateSessionOnce(t) ==
    /\ pc[t] = "user"
    /\ Goto(t, "op")
    /\ UNCHANGED <<accounts, logins, carried, bootstrap>>

\* AuthenticateTx, the session row
AuthenticateSession(t) ==
    /\ pc[t] = "user" /\ session[t] = "live"
    /\ Goto(t, "op")
    /\ UNCHANGED <<accounts, logins, carried, bootstrap>>

\* AuthorizeTicketStatusTx, asked for by CheckIn: a plain read under the user's lock
AuthorizeTicketStatusTx(t) ==
    /\ pc[t] = "op" /\ carried[t] = NoAnswer
    /\ role[holder[t]] = "STAFF" /\ holder[t] \in assigned
    /\ Goto(t, "allowed")
    /\ UNCHANGED <<accounts, logins, carried, bootstrap>>

\* CheckIn goes through the ticket's own tests and commits an entry or an attempt.
CommitCheckIn(t) ==
    /\ pc[t] = "allowed"
    /\ Release(t)
    /\ UNCHANGED <<accounts, logins, bootstrap>>

\* A request ends without an effect: it is refused, its client is gone, its context has
\* run out, or the process dies.
Abort(t) ==
    /\ \/ pc[t] \in {"read", "locked"} /\ Goto(t, "out") /\ UNCHANGED carried
       \/ pc[t] \notin {"out", "in", "read", "locked"} /\ Release(t)
    /\ UNCHANGED <<accounts, logins, bootstrap>>

---------------------------------------------------------------------------
(* Administration of the staff *)

\* The handler's check, without a transaction
Admit(t) ==
    /\ pc[t] = "in" /\ session[t] = "live"
    /\ holder[t] \in active /\ role[holder[t]] = "ADMIN"
    /\ Goto(t, "admitted")
    /\ UNCHANGED <<accounts, logins, carried, bootstrap>>

Unlocked(s) == ~Exclusive(s) /\ ~Shared(s)

\* The rows of staff_sessions without those of s
RevokedSessions(s) == [t \in Token |-> IF holder[t] = s THEN "none" ELSE session[t]]

CreateStaff(t, s) ==
    /\ pc[t] = "admitted" /\ role[s] = "NONE"
    /\ AddAccount(s, "STAFF")
    /\ assigned' \in {assigned, assigned \cup {s}}
    /\ Release(t)
    /\ UNCHANGED <<logins, bootstrap>>

\* UpdateStaff; a change of the name alone is left out.
UpdateStaff(t, s) ==
    /\ pc[t] = "admitted" /\ role[s] = "STAFF" /\ Unlocked(s)
    /\ \/ active' = active \cup {s} /\ UNCHANGED session
       \/ active' = active \ {s} /\ session' = RevokedSessions(s)
    /\ Release(t)
    /\ UNCHANGED <<role, password, assigned, holder, opened, bootstrap>>

ReplaceAssignments(t, s) ==
    /\ pc[t] = "admitted" /\ role[s] = "STAFF" /\ Unlocked(s)
    /\ assigned' \in {assigned \ {s}, assigned \cup {s}}
    /\ Release(t)
    /\ UNCHANGED <<role, active, password, logins, bootstrap>>

ResetPassword(t, s) ==
    /\ pc[t] = "admitted" /\ role[s] = "STAFF" /\ Unlocked(s)
    /\ password[s] < MaxPassword
    /\ password' = [password EXCEPT ![s] = @ + 1]
    /\ session' = RevokedSessions(s)
    /\ Release(t)
    /\ UNCHANGED <<role, active, assigned, holder, opened, bootstrap>>

AccessNext ==
    \/ \E c \in Candidate :
          BootstrapLock(c) \/ BootstrapCount(c) \/ BootstrapInsert(c) \/ BootstrapCut(c)
    \/ \E t \in Token :
          \/ \E a \in Account : Login(t, a)
          \/ LockUserRow(t) \/ OpenSession(t) \/ Expire(t) \/ Logout(t)
          \/ AuthenticateUser(t) \/ AuthenticateSession(t)
          \/ AuthorizeTicketStatusTx(t) \/ CommitCheckIn(t) \/ Abort(t)
          \/ Admit(t)
          \/ \E s \in Staff : \/ CreateStaff(t, s) \/ UpdateStaff(t, s)
                              \/ ReplaceAssignments(t, s) \/ ResetPassword(t, s)

---------------------------------------------------------------------------
(* Correctness *)

\* Every session in the table belongs to an active account and was opened
\* with the password that is valid now: a login that races a deactivation
\* or a reset of the password leaves no session behind (createSession).
SessionsAreCurrent ==
    \A t \in Token :
        session[t] # "none" => holder[t] \in active /\ opened[t] = password[holder[t]]

\* While a protected operation is under way its session is in the table, its account is
\* active, and a gate once checked stays assigned: revocation waits for it
\* (AuthenticateTx).
RevocationWaits ==
    \A t \in Token :
        /\ SessionShared(t) => session[t] # "none" /\ holder[t] \in active
        /\ pc[t] = "allowed" => holder[t] \in assigned

\* However often and by whomever bootstrap-admin is started, and wherever it is cut
\* short, there is at most one administrator.
OneAdmin ==
    \A a, b \in Account : role[a] = "ADMIN" /\ role[b] = "ADMIN" => a = b

\* What SessionsAreCurrent and RevocationWaits need to be kept by every step: an account
\* in use has a row, and createSession looks at it under the lock.
SessionInvariant ==
    /\ \A a \in active : role[a] # "NONE"
    /\ \A t \in Token :
           pc[t] = "locked" => holder[t] \in active /\ opened[t] = password[holder[t]]
    /\ SessionsAreCurrent
    /\ RevocationWaits

\* Likewise for OneAdmin: whoever has seen no administrator is alone.
BootstrapInvariant ==
    /\ \A c, d \in Candidate :
           bootstrap[c] # "idle" /\ bootstrap[d] # "idle" => c = d
    /\ \A c \in Candidate :
           bootstrap[c] \in {"counted", "orphan"} => \A a \in Account : role[a] # "ADMIN"
    /\ OneAdmin
===========================================================================
