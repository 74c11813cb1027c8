-------------------------- MODULE CaseDeskProofs --------------------------
(***************************************************************************)
(* Sessions and cases for any number of accounts, logins, passwords and    *)
(* answers.                                                                *)
(***************************************************************************)
EXTENDS CaseDesk, TLAPS

\* The tables start typed and empty.
LEMMA InitDesk ==
    Init => TypeOK /\ SessionInvariant /\ BootstrapInvariant /\ CaseInvariant
<1> SUFFICES ASSUME Init
             PROVE  TypeOK /\ SessionInvariant /\ BootstrapInvariant /\ CaseInvariant
  OBVIOUS
<1> USE AccessAssumption, TruthAssumption DEF Init, AccessInit
<1>1. TypeOK
  <2>1. AccessTypeOK
    BY DEF AccessTypeOK, Account, Role, Session, PC, Bootstrap, NoAnswer
  <2>2. claim \in Token \cup {Nobody} /\ status \in {"OPEN", "RESOLVED"}
    OBVIOUS
  <2>3. leased \in BOOLEAN /\ limited \in BOOLEAN
    OBVIOUS
  <2>4. known \in 0..MaxTruth /\ truth \in 1..MaxTruth
    OBVIOUS
  <2> QED
    BY <2>1, <2>2, <2>3, <2>4, Zenon DEF TypeOK
<1>2. SessionInvariant
  BY DEF SessionInvariant, SessionsAreCurrent, RevocationWaits, SessionShared
<1>3. BootstrapInvariant
  BY DEF BootstrapInvariant, OneAdmin, Account
<1>4. CaseInvariant
  BY DEF CaseInvariant, NoAnswer
<1> QED
  BY <1>1, <1>2, <1>3, <1>4

---------------------------------------------------------------------------
(* Types *)

\* Bootstrap commands, and the logins up to the session.
LEMMA LoginTyped ==
    ASSUME AccessTypeOK,
           \/ \E c \in Candidate :
                 BootstrapLock(c) \/ BootstrapCount(c) \/ BootstrapInsert(c) \/ BootstrapCut(c)
           \/ \E t \in Token :
                 \/ \E a \in Account : Login(t, a)
                 \/ LockUserRow(t) \/ OpenSession(t) \/ Expire(t) \/ Logout(t)
    PROVE  AccessTypeOK'
<1> USE AccessAssumption DEF AccessTypeOK, Account, Role, Session, PC, Bootstrap,
                             accounts, logins, Goto
<1>1. ASSUME NEW c \in Candidate, BootstrapLock(c) \/ BootstrapCount(c) \/ BootstrapCut(c)
      PROVE  AccessTypeOK'
  BY <1>1 DEF BootstrapLock, BootstrapCount, BootstrapCut
<1>2. ASSUME NEW c \in Candidate, BootstrapInsert(c)  PROVE AccessTypeOK'
  BY <1>2 DEF BootstrapInsert, AddAccount
<1>3. ASSUME NEW t \in Token, NEW a \in Account, Login(t, a)  PROVE AccessTypeOK'
  BY <1>3 DEF Login
<1>4. ASSUME NEW t \in Token, LockUserRow(t) \/ Expire(t) \/ Logout(t)  PROVE AccessTypeOK'
  BY <1>4 DEF LockUserRow, Expire, Logout
<1>5. ASSUME NEW t \in Token, OpenSession(t)  PROVE AccessTypeOK'
  BY <1>5 DEF OpenSession
<1> QED
  BY <1>1, <1>2, <1>3, <1>4, <1>5

\* The requests that come with a session.
LEMMA RequestTyped ==
    ASSUME AccessTypeOK, NEW t \in Token,
           \/ AuthenticateUser(t) \/ AuthenticateSession(t)
           \/ AuthorizeTicketStatusTx(t) \/ CommitCheckIn(t) \/ Abort(t) \/ Admit(t)
           \/ \E s \in Staff : \/ CreateStaff(t, s) \/ UpdateStaff(t, s)
                               \/ ReplaceAssignments(t, s) \/ ResetPassword(t, s)
    PROVE  AccessTypeOK'
<1> USE AccessAssumption DEF AccessTypeOK, Account, Role, Session, PC, Bootstrap,
                             accounts, logins, Goto, Release, NoAnswer
<1>1. CASE AuthenticateUser(t) \/ AuthenticateSession(t) \/ AuthorizeTicketStatusTx(t)
  BY <1>1 DEF AuthenticateUser, AuthenticateSession, AuthorizeTicketStatusTx
<1>2. CASE CommitCheckIn(t) \/ Abort(t) \/ Admit(t)
  BY <1>2 DEF CommitCheckIn, Abort, Admit
<1>3. ASSUME NEW s \in Staff, CreateStaff(t, s)  PROVE AccessTypeOK'
  BY <1>3 DEF CreateStaff, AddAccount
<1>4. ASSUME NEW s \in Staff, UpdateStaff(t, s)  PROVE AccessTypeOK'
  BY <1>4 DEF UpdateStaff, RevokedSessions
<1>5. ASSUME NEW s \in Staff, ReplaceAssignments(t, s)  PROVE AccessTypeOK'
  BY <1>5 DEF ReplaceAssignments
<1>6. ASSUME NEW s \in Staff, ResetPassword(t, s)  PROVE AccessTypeOK'
  BY <1>6 DEF ResetPassword, RevokedSessions
<1> QED
  BY <1>1, <1>2, <1>3, <1>4, <1>5, <1>6

\* The desk.
LEMMA CaseTyped ==
    ASSUME TypeOK, CaseInvariant, CaseNext
    PROVE  TypeOK'
<1> USE AccessAssumption, TruthAssumption DEF TypeOK, AccessTypeOK, Session, PC, accounts, logins,
                         accessVars, caseVars, Goto, Release, NoAnswer, Unclaim
<1>1. ASSUME NEW t \in Token, Recheck(t)  PROVE TypeOK'
  BY <1>1 DEF Recheck
<1>2. ASSUME NEW t \in Token, ReadGatewayStatus(t)  PROVE TypeOK'
  BY <1>2 DEF ReadGatewayStatus
<1>3. ASSUME NEW t \in Token, ApplyResult(t)  PROVE TypeOK'
  <2>1. AccessTypeOK'
    BY <1>3 DEF ApplyResult
  <2>2. claim' = Nobody /\ leased' = FALSE
    BY <1>3 DEF ApplyResult
  <2>3. known' \in 0..MaxTruth
    BY <1>3 DEF ApplyResult, CaseInvariant
  <2> QED
    BY <1>3, <2>1, <2>2, <2>3 DEF ApplyResult
<1>4. ASSUME NEW t \in Token, FinishFailure(t)  PROVE TypeOK'
  <2>1. AccessTypeOK'
    BY <1>4 DEF FinishFailure
  <2>2. claim' = Nobody /\ leased' = FALSE
    BY <1>4 DEF FinishFailure
  <2> QED
    BY <1>4, <2>1, <2>2 DEF FinishFailure
<1>5. ASSUME NEW t \in Token, ResolveCase(t)  PROVE TypeOK'
  <2>1. AccessTypeOK'
    BY <1>5 DEF ResolveCase
  <2>2. claim' = Nobody /\ leased' = FALSE
    BY <1>5 DEF ResolveCase
  <2> QED
    BY <1>5, <2>1, <2>2 DEF ResolveCase
<1>6. CASE FinishRefund \/ LeaseLapses \/ LimitEnds
  BY <1>6 DEF FinishRefund, LeaseLapses, LimitEnds
<1>7. CASE ProviderMoves
  BY <1>7 DEF ProviderMoves
<1> QED
  BY <1>1, <1>2, <1>3, <1>4, <1>5, <1>6, <1>7 DEF CaseNext

---------------------------------------------------------------------------
(* Sessions *)

\* New accounts and the logins up to the session: what createSession has
\* looked at under the lock is still so when the row comes.
LEMMA LoginCurrent ==
    ASSUME AccessTypeOK, SessionInvariant,
           \/ \E c \in Candidate :
                 BootstrapLock(c) \/ BootstrapCount(c) \/ BootstrapInsert(c) \/ BootstrapCut(c)
           \/ \E t \in Token :
                 \/ \E a \in Account : Login(t, a)
                 \/ LockUserRow(t) \/ OpenSession(t) \/ Expire(t) \/ Logout(t)
    PROVE  SessionInvariant'
<1> USE DEF AccessTypeOK, SessionInvariant, SessionsAreCurrent, RevocationWaits, SessionShared,
            accounts, logins, Goto
<1>1. ASSUME NEW c \in Candidate, BootstrapLock(c) \/ BootstrapCount(c) \/ BootstrapCut(c)
      PROVE  SessionInvariant'
  BY <1>1 DEF BootstrapLock, BootstrapCount, BootstrapCut
<1>2. ASSUME NEW c \in Candidate, BootstrapInsert(c)  PROVE SessionInvariant'
  <2>1. c \in Account /\ c \notin active
    BY <1>2 DEF BootstrapInsert, Account
  <2> QED
    BY <1>2, <2>1 DEF BootstrapInsert, AddAccount
<1>3. ASSUME NEW t \in Token, NEW a \in Account, Login(t, a)  PROVE SessionInvariant'
  BY <1>3 DEF Login
<1>4. ASSUME NEW t \in Token, LockUserRow(t)  PROVE SessionInvariant'
  BY <1>4 DEF LockUserRow
<1>5. ASSUME NEW t \in Token, OpenSession(t)  PROVE SessionInvariant'
  BY <1>5 DEF OpenSession
<1>6. ASSUME NEW t \in Token, Expire(t) \/ Logout(t)  PROVE SessionInvariant'
  BY <1>6 DEF Expire, Logout
<1> QED
  BY <1>1, <1>2, <1>3, <1>4, <1>5, <1>6

\* Requests: revocation takes the user row exclusively, so whoever holds it
\* shared, or is about to open a session, is not touched.
LEMMA RequestCurrent ==
    ASSUME AccessTypeOK, SessionInvariant, NEW t \in Token,
           \/ AuthenticateUser(t) \/ AuthenticateSession(t)
           \/ AuthorizeTicketStatusTx(t) \/ CommitCheckIn(t) \/ Abort(t) \/ Admit(t)
           \/ \E s \in Staff : \/ CreateStaff(t, s) \/ UpdateStaff(t, s)
                               \/ ReplaceAssignments(t, s) \/ ResetPassword(t, s)
    PROVE  SessionInvariant'
<1> USE DEF AccessTypeOK, SessionInvariant, SessionsAreCurrent, RevocationWaits, SessionShared,
            accounts, logins, Goto, Release
<1>1. CASE AuthenticateUser(t)
  BY <1>1 DEF AuthenticateUser
<1>2. CASE AuthenticateSession(t)
  BY <1>2 DEF AuthenticateSession
<1>3. CASE AuthorizeTicketStatusTx(t)
  BY <1>3 DEF AuthorizeTicketStatusTx
<1>4. CASE CommitCheckIn(t) \/ Abort(t) \/ Admit(t)
  BY <1>4 DEF CommitCheckIn, Abort, Admit
<1>5. ASSUME NEW s \in Staff, CreateStaff(t, s)  PROVE SessionInvariant'
  <2>1. s \in Account /\ s \notin active
    BY <1>5 DEF CreateStaff, Account
  <2> QED
    BY <1>5, <2>1 DEF CreateStaff, AddAccount
<1>6. ASSUME NEW s \in Staff, Unlocked(s), NEW u \in Token,
             pc[u] \in {"locked", "user", "op", "allowed"}
      PROVE  holder[u] # s
  BY <1>6 DEF Unlocked, Exclusive, Shared
<1>7. ASSUME NEW s \in Staff, UpdateStaff(t, s)  PROVE SessionInvariant'
  BY <1>6, <1>7 DEF UpdateStaff, RevokedSessions
<1>8. ASSUME NEW s \in Staff, ReplaceAssignments(t, s)  PROVE SessionInvariant'
  BY <1>6, <1>8 DEF ReplaceAssignments
<1>9. ASSUME NEW s \in Staff, ResetPassword(t, s)  PROVE SessionInvariant'
  BY <1>6, <1>9 DEF ResetPassword, RevokedSessions
<1> QED
  BY <1>1, <1>2, <1>3, <1>4, <1>5, <1>7, <1>8, <1>9

\* The desk only moves requests on.
LEMMA CaseCurrent ==
    ASSUME AccessTypeOK, SessionInvariant, BootstrapInvariant, CaseNext
    PROVE  SessionInvariant' /\ BootstrapInvariant'
<1> DEFINE MovesOn ==
      /\ UNCHANGED <<accounts, logins, bootstrap>>
      /\ \A u \in Token : pc'[u] = pc[u] \/ pc'[u] \in {"in", "asking", "answered"}
<1>1. MovesOn
  <2> USE DEF AccessTypeOK, accounts, logins, Goto, Release
  <2>1. ASSUME NEW t \in Token, Recheck(t) \/ ReadGatewayStatus(t)  PROVE MovesOn
    BY <2>1 DEF Recheck, ReadGatewayStatus
  <2>2. ASSUME NEW t \in Token, ApplyResult(t) \/ FinishFailure(t) \/ ResolveCase(t)  PROVE MovesOn
    BY <2>2 DEF ApplyResult, FinishFailure, ResolveCase
  <2>3. CASE FinishRefund \/ LeaseLapses \/ LimitEnds \/ ProviderMoves
    BY <2>3 DEF FinishRefund, LeaseLapses, LimitEnds, ProviderMoves, accessVars
  <2> QED
    BY <2>1, <2>2, <2>3 DEF CaseNext
<1>2. SessionInvariant'
  BY <1>1 DEF accounts, logins, SessionInvariant, SessionsAreCurrent, RevocationWaits, SessionShared
<1>3. BootstrapInvariant'
  BY <1>1 DEF accounts, BootstrapInvariant, OneAdmin
<1> QED
  BY <1>2, <1>3

---------------------------------------------------------------------------
(* The first administrator *)

\* The named lock lets one command look and insert at a time, also when the
\* command is gone; nothing else makes an administrator.
LEMMA AccessOneAdmin ==
    ASSUME AccessTypeOK, BootstrapInvariant, AccessNext
    PROVE  BootstrapInvariant'
<1> USE DEF AccessTypeOK, BootstrapInvariant, OneAdmin, accounts
<1>1. ASSUME NEW c \in Candidate, BootstrapLock(c)  PROVE BootstrapInvariant'
  BY <1>1 DEF BootstrapLock
<1>2. ASSUME NEW c \in Candidate, BootstrapCount(c)  PROVE BootstrapInvariant'
  BY <1>2 DEF BootstrapCount
<1>3. ASSUME NEW c \in Candidate, BootstrapInsert(c)  PROVE BootstrapInvariant'
  <2>1. \A d \in Candidate : bootstrap'[d] = "idle"
    BY <1>3 DEF BootstrapInsert
  <2>2. \A a \in Account : role'[a] = "ADMIN" => a = c
    BY <1>3 DEF BootstrapInsert, AddAccount
  <2> QED
    BY <2>1, <2>2
<1>4. ASSUME NEW c \in Candidate, BootstrapCut(c)  PROVE BootstrapInvariant'
  BY <1>4 DEF BootstrapCut
<1>5. ASSUME NEW t \in Token, NEW s \in Staff, CreateStaff(t, s)  PROVE BootstrapInvariant'
  BY <1>5 DEF CreateStaff, AddAccount
<1>6. CASE UNCHANGED <<role, bootstrap>>
  BY <1>6
<1>7. ASSUME NEW t \in Token,
             \/ \E a \in Account : Login(t, a)
             \/ LockUserRow(t) \/ OpenSession(t) \/ Expire(t) \/ Logout(t)
             \/ AuthenticateUser(t) \/ AuthenticateSession(t)
             \/ AuthorizeTicketStatusTx(t) \/ CommitCheckIn(t) \/ Abort(t) \/ Admit(t)
             \/ \E s \in Staff : \/ UpdateStaff(t, s)
                                 \/ ReplaceAssignments(t, s) \/ ResetPassword(t, s)
      PROVE  UNCHANGED <<role, bootstrap>>
  BY <1>7 DEF Login, LockUserRow, OpenSession, Expire, Logout, AuthenticateUser,
              AuthenticateSession, AuthorizeTicketStatusTx, CommitCheckIn, Abort, Admit,
              UpdateStaff, ReplaceAssignments, ResetPassword
<1> QED
  BY <1>1, <1>2, <1>3, <1>4, <1>5, <1>6, <1>7 DEF AccessNext

---------------------------------------------------------------------------
(* Answers *)

\* The desk keeps what an answer in hand stands for.
LEMMA CaseInOrder ==
    ASSUME TypeOK, CaseInvariant, CaseNext
    PROVE  CaseInvariant' /\ (known' # known => status = "OPEN" /\ known' > known)
<1> USE AccessAssumption, TruthAssumption
    DEF TypeOK, AccessTypeOK, CaseInvariant, NoAnswer, Goto, Release, Unclaim
<1>1. ASSUME NEW t \in Token, Recheck(t)
      PROVE  CaseInvariant' /\ known' = known
  BY <1>1 DEF Recheck, Authorized
<1>2. ASSUME NEW t \in Token, ReadGatewayStatus(t)
      PROVE  CaseInvariant' /\ known' = known
  BY <1>2 DEF ReadGatewayStatus, caseVars
<1>3. ASSUME NEW t \in Token, ApplyResult(t)
      PROVE  CaseInvariant' /\ status = "OPEN" /\ known' >= known
  BY <1>3 DEF ApplyResult, StillClaimed
<1>4. ASSUME NEW t \in Token, FinishFailure(t)
      PROVE  CaseInvariant' /\ known' = known
  BY <1>4 DEF FinishFailure
<1>5. ASSUME NEW t \in Token, ResolveCase(t)
      PROVE  CaseInvariant' /\ known' = known
  BY <1>5 DEF ResolveCase
<1>6. CASE FinishRefund \/ LeaseLapses \/ LimitEnds
  BY <1>6 DEF FinishRefund, LeaseLapses, LimitEnds, accessVars
<1>7. CASE ProviderMoves
  BY <1>7 DEF ProviderMoves, accessVars
<1>8. known' \in Int /\ known \in Int
  BY CaseTyped DEF TypeOK
<1> QED
  BY <1>1, <1>2, <1>3, <1>4, <1>5, <1>6, <1>7, <1>8 DEF CaseNext

\* The sessions only bring answers to nothing.
LEMMA AccessInOrder ==
    ASSUME TypeOK, CaseInvariant, AccessNext, UNCHANGED caseVars
    PROVE  CaseInvariant'
<1> DEFINE BringsNothing ==
      \A u \in Token : /\ carried'[u] = carried[u] \/ carried'[u] = NoAnswer
                       /\ pc'[u] = "asking" => pc[u] = "asking"
<1>1. BringsNothing
  <2> USE DEF TypeOK, AccessTypeOK, Goto, Release
  <2>1. ASSUME NEW c \in Candidate,
               BootstrapLock(c) \/ BootstrapCount(c) \/ BootstrapInsert(c) \/ BootstrapCut(c)
        PROVE  UNCHANGED <<pc, carried>>
    BY <2>1 DEF BootstrapLock, BootstrapCount, BootstrapInsert, BootstrapCut
  <2>2. ASSUME NEW t \in Token, \/ \E a \in Account : Login(t, a)
                                \/ LockUserRow(t) \/ OpenSession(t) \/ Expire(t) \/ Logout(t)
        PROVE  BringsNothing
    BY <2>2 DEF Login, LockUserRow, OpenSession, Expire, Logout
  <2>3. ASSUME NEW t \in Token, \/ AuthenticateUser(t) \/ AuthenticateSession(t)
                                \/ AuthorizeTicketStatusTx(t) \/ Admit(t)
        PROVE  BringsNothing
    BY <2>3 DEF AuthenticateUser, AuthenticateSession, AuthorizeTicketStatusTx, Admit
  <2>4. ASSUME NEW t \in Token, CommitCheckIn(t) \/ Abort(t)  PROVE BringsNothing
    BY <2>4 DEF CommitCheckIn, Abort
  <2>5. ASSUME NEW t \in Token, NEW s \in Staff,
               \/ CreateStaff(t, s) \/ UpdateStaff(t, s)
               \/ ReplaceAssignments(t, s) \/ ResetPassword(t, s)
        PROVE  BringsNothing
    BY <2>5 DEF CreateStaff, UpdateStaff, ReplaceAssignments, ResetPassword
  <2> QED
    BY <2>1, <2>2, <2>3, <2>4, <2>5 DEF AccessNext
<1> QED
  BY <1>1 DEF TypeOK, CaseInvariant, caseVars, NoAnswer

---------------------------------------------------------------------------
(* Theorems *)

Desk == TypeOK /\ SessionInvariant /\ BootstrapInvariant /\ CaseInvariant

\* Every step of the composition keeps the three invariants and the order of
\* the answers.
LEMMA DeskStep ==
    ASSUME Desk, [Next]_vars
    PROVE  Desk' /\ (known' # known => status = "OPEN" /\ known' > known)
<1> USE DEF Desk
<1>1. CASE CaseNext
  BY <1>1, CaseTyped, CaseCurrent, CaseInOrder DEF TypeOK
<1>2. CASE AccessNext /\ UNCHANGED caseVars
  <2>1. AccessTypeOK' /\ SessionInvariant'
    BY <1>2, LoginTyped, RequestTyped, LoginCurrent, RequestCurrent DEF AccessNext, TypeOK
  <2>2. TypeOK'
    BY <1>2, <2>1 DEF TypeOK, caseVars
  <2>3. BootstrapInvariant' /\ CaseInvariant' /\ known' = known
    BY <1>2, AccessOneAdmin, AccessInOrder DEF TypeOK, caseVars
  <2> QED
    BY <2>1, <2>2, <2>3
<1>3. CASE UNCHANGED vars
  <2> USE <1>3 DEF vars, accessVars, accounts, logins, caseVars
  <2>1. TypeOK'
    BY DEF TypeOK, AccessTypeOK
  <2>2. SessionInvariant'
    BY DEF SessionInvariant, SessionsAreCurrent, RevocationWaits, SessionShared
  <2>3. BootstrapInvariant'
    BY DEF BootstrapInvariant, OneAdmin
  <2>4. CaseInvariant' /\ known' = known
    BY DEF CaseInvariant
  <2> QED
    BY <2>1, <2>2, <2>3, <2>4
<1> QED
  BY <1>1, <1>2, <1>3 DEF Next

\* The rows keep their types, and with them the three invariants hold.
THEOREM DeskHolds == Spec => []Desk
<1>1. Init => Desk
  BY InitDesk DEF Desk
<1>2. Desk /\ [Next]_vars => Desk'
  BY DeskStep
<1> QED
  BY <1>1, <1>2, PTL DEF Spec

\* No login survives a deactivation or a new password (createSession, UpdateStaff,
\* ResetPassword).
THEOREM SessionsStayCurrent == Spec => []SessionsAreCurrent
<1>1. Desk => SessionsAreCurrent
  BY DEF Desk, SessionInvariant
<1> QED
  BY <1>1, DeskHolds, PTL

\* Revocation does not race a protected operation (AuthenticateTx).
THEOREM RevocationAlwaysWaits == Spec => []RevocationWaits
<1>1. Desk => RevocationWaits
  BY DEF Desk, SessionInvariant
<1> QED
  BY <1>1, DeskHolds, PTL

\* bootstrap-admin makes one administrator, once (BootstrapAdmin).
THEOREM AlwaysOneAdmin == Spec => []OneAdmin
<1>1. Desk => OneAdmin
  BY DEF Desk, BootstrapInvariant
<1> QED
  BY <1>1, DeskHolds, PTL

\* The provider's answers reach the case in order (Recheck, applyProviderResult).
THEOREM AnswersStayInOrder == Spec => AnswersInOrder
<1>1. Desk /\ [Next]_vars => [known' # known => status = "OPEN" /\ known' > known]_vars
  BY DeskStep
<1> QED
  BY <1>1, DeskHolds, PTL DEF Spec, AnswersInOrder
===========================================================================
