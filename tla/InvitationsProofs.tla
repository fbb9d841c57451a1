--------------------------- MODULE InvitationsProofs ---------------------------
(***************************************************************************)
(* Theorems about Invitations, for any number of requests, invitations,    *)
(* e-mail addresses and identities.                                        *)
(***************************************************************************)
EXTENDS Invitations, TLAPS

Redemptions == Accepts \cup Revokes

\* What a request has found out, and what it is about, by the place it is at.
PhaseOf(r) ==
    /\ pc[r] = "idle" => task[r] = None
    /\ task[r] = None => pc[r] \in {"idle", "rejected"}
    /\ pc[r] \in {"hydrated", "unregistered", "checked", "added"} => task[r] = "invite"
    /\ pc[r] \in {"redeeming", "authorised"} => task[r] \in Accepts
    /\ pc[r] = "free" => task[r] \in {"keycloak", "register"}
    /\ pc[r] = "identified" => task[r] \in Joins
    /\ pc[r] \in {"changed", "fetched"} => task[r] \in Accepts \cup Revokes \cup TenantTasks
    /\ pc[r] = "written" => task[r] \in Joins \cup Revokes \cup TenantTasks
    /\ task[r] \in Joins \cup {"invite"} => email[r] \in Emails
    /\ task[r] \in Joins /\ pc[r] \in {"identified", "changed", "fetched", "written"} =>
           subject[r] \in Subjects \cup Requests
Phases == \A r \in Requests : PhaseOf(r)

\* A redemption or a revocation is about an invitation that is there, and a
\* redemption has its e-mail; an invitation is named after who issued it.
AboutOf(r) ==
    /\ task[r] \in Redemptions => about[r] \in DOMAIN invitations
    /\ task[r] \notin Redemptions => about[r] = None
    /\ task[r] \in Accepts => email[r] = invitations[about[r]].email
AboutInvitations ==
    /\ \A r \in Requests : AboutOf(r)
    /\ \A i \in DOMAIN invitations \ Old : task[i] = "invite" /\ pc[i] = "done"

\* The users are those of the joins that committed.
UsersJoined ==
    /\ \A u \in DOMAIN users :
        /\ task[u] \in Joins /\ pc[u] = "done"
        /\ users[u] = [email |-> email[u], subject |-> subject[u], via |-> about[u]]
    /\ \A r \in Requests : task[r] \in Joins /\ pc[r] = "done" => r \in DOMAIN users

\* The unique index on the e-mail: of users, and of rows not committed yet.
EmailsUnique ==
    /\ \A u, v \in DOMAIN users : users[u].email = users[v].email => u = v
    /\ \A r \in Requests : Added(r) => ~ HasUser(email[r])
    /\ \A r, q \in Requests : Added(r) /\ Added(q) /\ email[r] = email[q] => r = q

\* The account of whoever was identified by Keycloak.
AccountsMade ==
    /\ \A r \in Requests :
        pc[r] \in {"identified", "changed", "fetched", "written", "done"} =>
            /\ task[r] \in {"keycloak", "register"} =>
                   /\ subject[r] = r
                   /\ email[r] \in DOMAIN accounts /\ accounts[email[r]] = r
            /\ task[r] = "supabase" => subject[r] \in Subjects
    /\ \A e \in DOMAIN accounts :
        /\ task[accounts[e]] \in {"keycloak", "register"}
        /\ pc[accounts[e]] \notin {"idle", "redeeming"}

\* No copy is ahead of what is committed: once an invitation is not pending, it
\* never is again.
CopiesNotAhead ==
    \A r \in Requests : task[r] \in Redemptions /\ base[r] # "PENDING" =>
        invitations[about[r]].status # "PENDING"

\* The requests a request saw the end of ended before it.
BeforeEnded == \A r \in Requests : \A q \in before[r] : pc[q] \in Ended

\* Whoever loaded an invitation began before anybody had joined by it or revoked it.
LoadedPending ==
    \A r \in Requests : task[r] \in Redemptions =>
        \A q \in before[r] : q \notin Joined(about[r]) /\ q \notin Revokers(about[r])

\* Whoever passed the look at an active tenant began before the end of whatever
\* has closed it since.
PassedActive ==
    tenant # "ACTIVE" =>
        \A r \in Requests :
            \/ task[r] = "invite"
            \/ task[r] \in Accepts /\ pc[r] \notin {"redeeming"} \cup Ended
            => \E c \in Requests : /\ task[c] \in {"suspend", "archive"} /\ pc[c] = "done"
                                   /\ c \notin before[r]

\* Whoever may suspend or reactivate began before the end of whatever has archived
\* the tenant since.
PassedUnarchived ==
    tenant = "ARCHIVED" =>
        \A r \in Requests : task[r] \in {"suspend", "reactivate"} =>
            \E a \in Requests : task[a] = "archive" /\ pc[a] = "done" /\ a \notin before[r]

IInv ==
    /\ TypeOK
    /\ Phases
    /\ AboutInvitations
    /\ UsersJoined
    /\ EmailsUnique
    /\ AccountsMade
    /\ CopiesNotAhead
    /\ BeforeEnded
    /\ LoadedPending
    /\ PassedActive
    /\ PassedUnarchived
    /\ InvitationsAdmitOnce

-----------------------------------------------------------------------------
\* A step of request r.
Step(r) ==
    \/ Invite(r)
    \/ CheckInvite(r)
    \/ AddInvitation(r)
    \/ CommitInvitation(r)
    \/ Redeem(r)
    \/ CheckAuthority(r)
    \/ CheckEmail(r)
    \/ CreateAccount(r)
    \/ Identify(r)
    \/ AddUser(r)
    \/ Revoke(r)
    \/ ChangeTenant(r)
    \/ Fetch(r)
    \/ Write(r)
    \/ CommitTenant(r)
    \/ CommitRevocation(r)
    \/ CommitUser(r)
    \/ Reject(r)
    \/ Fail(r)

\* A step of a request moves no other.
LEMMA OthersKeep ==
    ASSUME TypeOK, NEW r \in Requests, Step(r), NEW q \in Requests, q # r
    PROVE  UNCHANGED <<pc[q], task[q], about[q], email[q], subject[q], base[q], before[q]>>
BY DEF Step, Invite, CheckInvite, AddInvitation, CommitInvitation, Redeem, CheckAuthority,
   CheckEmail, CreateAccount, Identify, AddUser, Revoke, ChangeTenant, Fetch, Write,
   CommitTenant, CommitRevocation, CommitUser, Reject, Fail, Begin, Goto, TypeOK

\* A request that has ended takes no step.
LEMMA EndedIsOver ==
    ASSUME NEW r \in Requests, Step(r)
    PROVE  pc[r] \notin Ended
BY DEF Step, Invite, CheckInvite, AddInvitation, CommitInvitation, Redeem, CheckAuthority,
   CheckEmail, CreateAccount, Identify, AddUser, Revoke, ChangeTenant, Fetch, Write,
   CommitTenant, CommitRevocation, CommitUser, Reject, Fail, Begin, Goto, Ended

\* A step leaves its request in a phase of its task.
LEMMA PhaseKept ==
    ASSUME TypeOK, NEW r \in Requests, Step(r), PhaseOf(r)
    PROVE  PhaseOf(r)'
<1> USE DEF TypeOK, PhaseOf, Accepts, Joins, Revokes, TenantTasks, Ended
<1>1. CASE Invite(r)
  <2>1. pc'[r] = "hydrated" /\ task'[r] = "invite" /\ email'[r] \in Emails
    BY <1>1 DEF Invite, Goto, Begin
  <2>2. QED
    BY <2>1, NamesAssumption DEF Tasks
<1>2. CASE Redeem(r)
  <2>1. pc'[r] = "redeeming" /\ task'[r] \in Accepts /\ email'[r] \in Emails
    BY <1>2 DEF Redeem, Goto, Begin, IsPending
  <2>2. QED
    BY <2>1, NamesAssumption DEF Tasks
<1>3. CASE CheckAuthority(r)
  <2>1. email[r] \in Emails
    BY <1>3 DEF CheckAuthority
  <2>2. /\ email'[r] = email[r]
        /\ \/ pc'[r] = "authorised" /\ task'[r] \in Accepts
           \/ pc'[r] = "changed" /\ task'[r] = "refuse"
    BY <1>3 DEF CheckAuthority, Goto
  <2>3. QED
    BY <2>1, <2>2, NamesAssumption DEF Tasks
<1>4. CASE CheckEmail(r)
  <2>1. pc'[r] = "free" /\ task'[r] \in {"keycloak", "register"} /\ email'[r] \in Emails
    BY <1>4 DEF CheckEmail, Goto, Begin
  <2>2. QED
    BY <2>1, NamesAssumption DEF Tasks
<1>5. CASE Revoke(r)
  <2>1. pc'[r] = "changed" /\ task'[r] = "revoke"
    BY <1>5 DEF Revoke, Goto, Begin
  <2>2. QED
    BY <2>1, NamesAssumption DEF Tasks
<1>6. CASE ChangeTenant(r)
  <2>1. pc'[r] = "changed" /\ task'[r] \in TenantTasks
    BY <1>6 DEF ChangeTenant, Goto, Begin
  <2>2. QED
    BY <2>1, NamesAssumption DEF Tasks
<1>7. CASE CheckInvite(r) \/ AddInvitation(r) \/ CommitInvitation(r) \/ CreateAccount(r) \/
          Identify(r) \/ AddUser(r) \/ Fetch(r) \/ Write(r) \/ CommitTenant(r) \/
          CommitRevocation(r) \/ CommitUser(r) \/ Reject(r) \/ Fail(r)
  BY <1>7 DEF CheckInvite, AddInvitation, CommitInvitation, CreateAccount, Identify,
      AddUser, Fetch, Write, CommitTenant, CommitRevocation, CommitUser, Reject, Fail, Goto,
      Begin, AfterUser
<1>8. QED
  BY <1>1, <1>2, <1>3, <1>4, <1>5, <1>6, <1>7 DEF Step

\* A step keeps its request and the invitation it is about together.
LEMMA AboutKept ==
    ASSUME TypeOK, NEW r \in Requests, Step(r), PhaseOf(r), AboutOf(r)
    PROVE  AboutOf(r)'
<1> USE DEF TypeOK, PhaseOf, AboutOf, Redemptions, Accepts, Joins, Revokes, TenantTasks, Ended
<1>1. CASE CheckAuthority(r)
  <2>1. UNCHANGED <<about[r], email[r], invitations>>
    BY <1>1 DEF CheckAuthority, Goto
  <2>2. task[r] \in Accepts /\ task'[r] \in {task[r], "refuse"}
    BY <1>1 DEF CheckAuthority, Goto
  <2>3. QED
    BY <2>1, <2>2
<1>2. CASE CheckEmail(r)
  <2>1. UNCHANGED <<about[r], invitations>> /\ task'[r] \in {"keycloak", "register"}
    BY <1>2 DEF CheckEmail, Goto, Begin
  <2>2. CASE task[r] = "keycloak"
    BY <1>2, <2>1, <2>2, NamesAssumption DEF CheckEmail, Goto, Begin, Tasks
  <2>3. CASE task[r] = None
    BY <1>2, <2>1, <2>3, NamesAssumption DEF CheckEmail, Goto, Begin, Tasks
  <2>4. QED
    BY <1>2, <2>2, <2>3 DEF CheckEmail, Goto, Begin
<1>3. CASE ChangeTenant(r)
  <2>1. UNCHANGED <<about[r], email[r], invitations>> /\ task[r] = None
    BY <1>3 DEF ChangeTenant, Goto, Begin
  <2>2. task'[r] \in TenantTasks
    BY <1>3 DEF ChangeTenant, Goto, Begin
  <2>3. QED
    BY <2>1, <2>2, NamesAssumption DEF Tasks
<1>4. CASE CommitUser(r)
  <2>1. UNCHANGED <<about[r], email[r], task[r]>>
    BY <1>4 DEF CommitUser, Goto
  <2>2. /\ DOMAIN invitations' = DOMAIN invitations
        /\ \A i \in DOMAIN invitations : invitations'[i].email = invitations[i].email
    BY <1>4 DEF CommitUser, Goto
  <2>3. QED
    BY <2>1, <2>2
<1>5. CASE Invite(r) \/ CheckInvite(r) \/ AddInvitation(r) \/ CommitInvitation(r) \/
          Redeem(r) \/ CreateAccount(r) \/ Identify(r) \/ AddUser(r) \/ Revoke(r) \/
          Fetch(r) \/ Write(r) \/ CommitTenant(r) \/ CommitRevocation(r) \/ Reject(r) \/
          Fail(r)
  BY <1>5, NamesAssumption DEF Invite, CheckInvite, AddInvitation, CommitInvitation, Redeem,
      CreateAccount, Identify, AddUser, Revoke, Fetch, Write, CommitTenant,
      CommitRevocation, Reject, Fail, Goto, Begin, Tasks, With
<1>6. QED
  BY <1>1, <1>2, <1>3, <1>4, <1>5 DEF Step

-----------------------------------------------------------------------------
\* A step leaves the variables well formed.
LEMMA TypeKept ==
    ASSUME TypeOK, NEW r \in Requests, Step(r), PhaseOf(r), AboutOf(r)
    PROVE  TypeOK'
<1> USE DEF TypeOK, Accepts, Joins, Revokes, TenantTasks, Tasks, PCs, Ended, InvitationIds,
           TenantStatuses, InvitationStatuses
<1>1. CASE Invite(r)
  BY <1>1 DEF Invite, Goto, Begin
<1>2. CASE CommitInvitation(r)
  BY <1>2 DEF CommitInvitation, Goto, PhaseOf, With
<1>3. CASE Redeem(r)
  BY <1>3 DEF Redeem, Goto, Begin
<1>4. CASE CheckAuthority(r)
  <2>1. task' \in [Requests -> Tasks \cup {None}] /\ pc' \in [Requests -> PCs]
    BY <1>4 DEF CheckAuthority, Goto
  <2>2. QED
    BY <1>4, <2>1 DEF CheckAuthority
<1>5. CASE CheckEmail(r)
  <2>1. pc' \in [Requests -> PCs] /\ task' \in [Requests -> Tasks \cup {None}]
    BY <1>5 DEF CheckEmail, Goto, Begin
  <2>2. email' \in [Requests -> Emails \cup {None}]
    BY <1>5 DEF CheckEmail
  <2>3. before' \in [Requests -> SUBSET Requests]
    BY <1>5 DEF CheckEmail, Begin
  <2>4. QED
    BY <1>5, <2>1, <2>2, <2>3 DEF CheckEmail
<1>6. CASE CreateAccount(r)
  BY <1>6 DEF CreateAccount, Goto, PhaseOf, With
<1>7. CASE Revoke(r)
  BY <1>7 DEF Revoke, Goto, Begin
<1>8. CASE ChangeTenant(r)
  BY <1>8 DEF ChangeTenant, Goto, Begin
<1>9. CASE Fetch(r)
  <2>1. Committed(r) \in TenantStatuses \cup InvitationStatuses
    BY <1>9, NamesAssumption DEF Fetch, Committed, PhaseOf, AboutOf, Redemptions
  <2>2. base' \in [Requests -> TenantStatuses \cup InvitationStatuses]
    BY <1>9, <2>1 DEF Fetch
  <2>3. QED
    BY <1>9, <2>2 DEF Fetch, Goto
<1>10. CASE CommitTenant(r)
  <2>1. Merged(r) \in TenantStatuses
    <3>1. Committed(r) = tenant /\ Target(task[r]) \in TenantStatuses
      BY <1>10 DEF CommitTenant, Target, Committed, Revokes
    <3>2. QED
      BY <3>1 DEF Merged
  <2>2. QED
    BY <1>10, <2>1 DEF CommitTenant, Goto
<1>11. CASE CommitRevocation(r)
  <2>1. ASSUME task[r] \in Redemptions
        PROVE  about[r] \in DOMAIN invitations /\ Merged(r) \in InvitationStatuses
    BY <1>11, <2>1 DEF Merged, Target, Committed, AboutOf, Redemptions
  <2>2. QED
    BY <1>11, <2>1 DEF CommitRevocation, Goto, Redemptions
<1>12. CASE CommitUser(r)
  <2>1. ASSUME task[r] \in Redemptions
        PROVE  about[r] \in DOMAIN invitations /\ Merged(r) \in InvitationStatuses
    BY <1>12, <2>1 DEF Merged, Target, Committed, AboutOf, Redemptions
  <2>2. /\ DOMAIN invitations' \subseteq InvitationIds
        /\ invitations' \in [DOMAIN invitations' -> [email : Emails, status : InvitationStatuses]]
    <3>1. CASE task[r] = "register"
      BY <1>12, <3>1 DEF CommitUser
    <3>2. CASE task[r] # "register"
      <4>1. task[r] \in Redemptions
        BY <1>12, <3>2 DEF CommitUser, Redemptions
      <4>2. invitations' = [invitations EXCEPT ![about[r]].status = Merged(r)]
        BY <1>12, <3>2 DEF CommitUser
      <4>3. QED
        BY <2>1, <4>1, <4>2
    <3>3. QED
      BY <3>1, <3>2
  <2>3. /\ email[r] \in Emails /\ subject[r] \in Subjects \cup Requests
        /\ about[r] \in InvitationIds \cup {None}
    BY <1>12 DEF CommitUser, PhaseOf
  <2>4. /\ DOMAIN users' \subseteq Requests
        /\ users' \in [DOMAIN users' -> [email : Emails, subject : Subjects \cup Requests,
                                         via : InvitationIds \cup {None}]]
    BY <1>12, <2>3 DEF CommitUser, With
  <2>5. QED
    BY <1>12, <2>2, <2>4 DEF CommitUser, Goto
<1>13. CASE Reject(r)
  BY <1>13, SMTT(20) DEF Reject, Goto, Begin
<1>14. CASE CheckInvite(r) \/ AddInvitation(r) \/ Identify(r) \/ AddUser(r) \/ Write(r) \/
          Fail(r)
  BY <1>14 DEF CheckInvite, AddInvitation, Identify, AddUser, Write, Fail, Goto, AfterUser
<1>15. QED
  BY <1>1, <1>2, <1>3, <1>4, <1>5, <1>6, <1>7, <1>8, <1>9, <1>10, <1>11, <1>12, <1>13, <1>14,
     SMTT(20) DEF Step

-----------------------------------------------------------------------------
\* Which steps write to which record.
LEMMA WhoWrites ==
    ASSUME NEW r \in Requests, Step(r)
    PROVE  /\ UNCHANGED tenant \/ CommitTenant(r)
           /\ UNCHANGED invitations \/ CommitInvitation(r) \/ CommitRevocation(r) \/ CommitUser(r)
           /\ UNCHANGED users \/ CommitUser(r)
           /\ UNCHANGED accounts \/ CreateAccount(r)
<1>1. UNCHANGED tenant \/ CommitTenant(r)
  BY DEF Step, Invite, CheckInvite, AddInvitation, CommitInvitation, Redeem, CheckAuthority,
         CheckEmail, CreateAccount, Identify, AddUser, Revoke, ChangeTenant, Fetch, Write,
         CommitRevocation, CommitUser, Reject, Fail
<1>2. UNCHANGED invitations \/ CommitInvitation(r) \/ CommitRevocation(r) \/ CommitUser(r)
  BY DEF Step, Invite, CheckInvite, AddInvitation, Redeem, CheckAuthority,
         CheckEmail, CreateAccount, Identify, AddUser, Revoke, ChangeTenant, Fetch, Write,
         CommitTenant, Reject, Fail
<1>3. UNCHANGED users \/ CommitUser(r)
  BY DEF Step, Invite, CheckInvite, AddInvitation, CommitInvitation, Redeem, CheckAuthority,
         CheckEmail, CreateAccount, Identify, AddUser, Revoke, ChangeTenant, Fetch, Write,
         CommitTenant, CommitRevocation, Reject, Fail
<1>4. UNCHANGED accounts \/ CreateAccount(r)
  BY DEF Step, Invite, CheckInvite, AddInvitation, CommitInvitation, Redeem, CheckAuthority,
         CheckEmail, Identify, AddUser, Revoke, ChangeTenant, Fetch, Write,
         CommitTenant, CommitRevocation, CommitUser, Reject, Fail
<1>5. QED
  BY <1>1, <1>2, <1>3, <1>4

\* Invitations keep their e-mail; users and accounts stay as they are.
LEMMA RecordsRemain ==
    ASSUME IInv, NEW r \in Requests, Step(r)
    PROVE  /\ \A i \in DOMAIN invitations :
              i \in DOMAIN invitations' /\ invitations'[i].email = invitations[i].email
           /\ \A u \in DOMAIN users : u \in DOMAIN users' /\ users'[u] = users[u]
           /\ \A e \in DOMAIN accounts : e \in DOMAIN accounts' /\ accounts'[e] = accounts[e]
<1> USE DEF IInv, TypeOK
<1>1. CASE CommitInvitation(r)
  BY <1>1, NamesAssumption DEF CommitInvitation, With, AboutInvitations
<1>2. CASE CommitRevocation(r)
  BY <1>2 DEF CommitRevocation
<1>3. CASE CommitUser(r)
  BY <1>3, SMTT(20) DEF CommitUser, With, UsersJoined
<1>4. CASE CreateAccount(r)
  BY <1>4 DEF CreateAccount, With
<1>5. QED
  BY <1>1, <1>2, <1>3, <1>4, WhoWrites

\* What a request begins as.
LEMMA BeginsAs ==
    ASSUME TypeOK, NEW r \in Requests, Step(r), pc[r] = "idle"
    PROVE  \/ Invite(r) /\ task'[r] = "invite"
           \/ Redeem(r) /\ task'[r] \in Accepts /\ pc'[r] = "redeeming"
           \/ CheckEmail(r) /\ task'[r] = "register"
           \/ Revoke(r) /\ task'[r] = "revoke"
           \/ ChangeTenant(r) /\ task'[r] \in TenantTasks
           \/ Reject(r) /\ task'[r] = None
<1>1. \/ Invite(r) \/ Redeem(r) \/ CheckEmail(r) \/ Revoke(r) \/ ChangeTenant(r) \/ Reject(r)
  BY DEF Step, CheckInvite, AddInvitation, CommitInvitation, CheckAuthority, CreateAccount,
     Identify, AddUser, Fetch, Write, CommitTenant, CommitRevocation, CommitUser, Fail, Ended
<1>2. /\ Invite(r) => task'[r] = "invite"
      /\ Redeem(r) => task'[r] \in Accepts /\ pc'[r] = "redeeming"
      /\ CheckEmail(r) => task'[r] = "register"
      /\ Revoke(r) => task'[r] = "revoke"
      /\ ChangeTenant(r) => task'[r] \in TenantTasks
      /\ Reject(r) => task'[r] = None
  BY DEF Invite, Redeem, CheckEmail, Revoke, ChangeTenant, Reject, Begin, Goto, TypeOK
<1>3. QED
  BY <1>1, <1>2

\* What becomes of a redemption that looks at the tenant.
LEMMA LooksAtTenant ==
    ASSUME TypeOK, Phases, NEW r \in Requests, Step(r), pc[r] = "redeeming"
    PROVE  /\ task[r] \in Accepts
           /\ \/ tenant = "ACTIVE" /\ UNCHANGED task[r]
              \/ task'[r] = "refuse"
              \/ pc'[r] = "failed" /\ UNCHANGED task[r]
<1>1. CheckAuthority(r) \/ Fail(r)
  BY DEF Step, Invite, CheckInvite, AddInvitation, CommitInvitation, Redeem, CheckEmail,
     CreateAccount, Identify, AddUser, Revoke, ChangeTenant, Fetch, Write, CommitTenant,
     CommitRevocation, CommitUser, Reject, Begin
<1>2. QED
  BY <1>1 DEF CheckAuthority, Fail, Goto, TypeOK, Phases, PhaseOf

\* A request that gets done is one that commits, and it is the same request still.
LEMMA WhoIsDone ==
    ASSUME TypeOK, NEW r \in Requests, Step(r), pc'[r] = "done"
    PROVE  /\ CommitInvitation(r) \/ CommitTenant(r) \/ CommitRevocation(r) \/ CommitUser(r)
           /\ UNCHANGED <<task[r], about[r], email[r], subject[r], base[r], before[r]>>
<1> USE DEF TypeOK, Goto
<1>1. CommitInvitation(r) \/ CommitTenant(r) \/ CommitRevocation(r) \/ CommitUser(r)
  BY DEF Step, Invite, CheckInvite, AddInvitation, Redeem, CheckAuthority,
         CheckEmail, CreateAccount, Identify, AddUser, AfterUser, Revoke, ChangeTenant,
         Fetch, Write, Reject, Fail
<1>2. QED
  BY <1>1 DEF CommitInvitation, CommitTenant, CommitRevocation, CommitUser

\* The status of an invitation moves to that of the copy written over it, and never
\* back to PENDING.
LEMMA StatusMoves ==
    ASSUME TypeOK, Phases, AboutInvitations, NEW r \in Requests, Step(r),
           NEW i \in DOMAIN invitations
    PROVE  \/ invitations'[i].status = invitations[i].status
           \/ /\ about[r] = i
              /\ CommitRevocation(r) \/ (CommitUser(r) /\ task[r] \in Accepts)
              /\ invitations'[i].status = Target(task[r])
<1>1. CASE CommitInvitation(r)
  <2>1. r \notin DOMAIN invitations
    BY <1>1, NamesAssumption DEF CommitInvitation, AboutInvitations
  <2>2. QED
    BY <1>1, <2>1 DEF CommitInvitation, With
<1>2. ASSUME task[r] \in Redemptions, CommitRevocation(r) \/ CommitUser(r),
             invitations' = [invitations EXCEPT ![about[r]].status = Merged(r)],
             about[r] = i
      PROVE  invitations'[i].status \in {invitations[i].status, Target(task[r])}
  <2>1. invitations'[i].status = Merged(r)
    BY <1>2 DEF TypeOK
  <2>2. Committed(r) = invitations[i].status
    BY <1>2 DEF Committed, Redemptions, Accepts, Revokes, TenantTasks
  <2>3. QED
    BY <2>1, <2>2 DEF Merged
<1>3. CASE CommitRevocation(r)
  <2>1. task[r] \in Redemptions
    BY <1>3 DEF CommitRevocation, Redemptions
  <2>2. CASE about[r] = i
    <3>1. invitations' = [invitations EXCEPT ![about[r]].status = Merged(r)]
      BY <1>3 DEF CommitRevocation
    <3>2. QED
      BY <1>2, <1>3, <2>1, <2>2, <3>1
  <2>3. CASE about[r] # i
    BY <1>3, <2>3 DEF CommitRevocation, TypeOK
  <2>4. QED
    BY <2>2, <2>3
<1>4. CASE CommitUser(r)
  <2>1. CASE task[r] = "register"
    BY <1>4, <2>1 DEF CommitUser
  <2>2. CASE task[r] # "register"
    <3>1. task[r] \in Accepts /\ task[r] \in Redemptions
      BY <1>4, <2>2 DEF CommitUser, Joins, Redemptions
    <3>2. invitations' = [invitations EXCEPT ![about[r]].status = Merged(r)]
      BY <1>4, <2>2 DEF CommitUser
    <3>3. CASE about[r] = i
      BY <1>2, <1>4, <3>1, <3>2, <3>3
    <3>4. CASE about[r] # i
      BY <3>2, <3>4 DEF TypeOK
    <3>5. QED
      BY <3>3, <3>4
  <2>3. QED
    BY <2>1, <2>2
<1>5. QED
  BY <1>1, <1>3, <1>4, WhoWrites

\* What a redemption writes is not PENDING.
LEMMA TargetNotPending ==
    ASSUME NEW t \in Redemptions
    PROVE  Target(t) = IF t \in Accepts THEN "ACCEPTED" ELSE "REVOKED"
BY DEF Redemptions, Accepts, Revokes, Target

\* What was not PENDING is not PENDING again.
LEMMA NeverPendingAgain ==
    ASSUME TypeOK, Phases, AboutInvitations, NEW r \in Requests, Step(r),
           NEW i \in DOMAIN invitations, invitations[i].status # "PENDING"
    PROVE  invitations'[i].status # "PENDING"
<1>1. ASSUME CommitRevocation(r) \/ (CommitUser(r) /\ task[r] \in Accepts)
      PROVE  Target(task[r]) # "PENDING"
  <2>1. task[r] \in Redemptions
    BY <1>1 DEF CommitRevocation, Redemptions
  <2>2. QED
    BY <2>1, TargetNotPending
<1>2. QED
  BY <1>1, StatusMoves

\* What becomes of who joined by an invitation and who revoked it.
LEMMA JoinedMoves ==
    ASSUME TypeOK, Phases, AboutInvitations, UsersJoined, NEW r \in Requests, Step(r), NEW i
    PROVE  /\ Joined(i)' = IF CommitUser(r) /\ about[r] = i THEN Joined(i) \cup {r} ELSE Joined(i)
           /\ Revokers(i)' = IF CommitRevocation(r) /\ about[r] = i
                             THEN Revokers(i) \cup {r} ELSE Revokers(i)
<1>1. Joined(i)' = IF CommitUser(r) /\ about[r] = i THEN Joined(i) \cup {r} ELSE Joined(i)
  <2>1. CASE CommitUser(r)
    <3>1. r \notin DOMAIN users
      BY <2>1 DEF CommitUser, UsersJoined
    <3>2. QED
      BY <2>1, <3>1 DEF CommitUser, With, Joined
  <2>2. CASE ~ CommitUser(r)
    BY <2>2, WhoWrites DEF Joined
  <2>3. QED
    BY <2>1, <2>2
<1>2. Revokers(i)' = IF CommitRevocation(r) /\ about[r] = i
                     THEN Revokers(i) \cup {r} ELSE Revokers(i)
  <2>1. \A q \in Requests \ {r} : q \in Revokers(i)' <=> q \in Revokers(i)
    BY OthersKeep DEF Revokers
  <2>2. r \notin Revokers(i)
    BY EndedIsOver DEF Revokers, Ended
  <2>3. r \in Revokers(i)' <=> CommitRevocation(r) /\ about[r] = i
    <3>1. CASE CommitRevocation(r)
      BY <3>1 DEF CommitRevocation, Revokers, Goto, TypeOK
    <3>2. CASE ~ CommitRevocation(r)
      <4>1. ASSUME pc'[r] = "done", task'[r] \in Revokes PROVE FALSE
        <5>1. CommitInvitation(r) \/ CommitTenant(r) \/ CommitUser(r)
          BY <3>2, <4>1, WhoIsDone
        <5>2. task[r] \in Revokes
          BY <4>1, WhoIsDone
        <5>3. pc[r] = "added" => task[r] = "invite"
          BY DEF Phases, PhaseOf
        <5>4. QED
          BY <5>1, <5>2, <5>3 DEF CommitInvitation, CommitTenant, CommitUser, Joins, Accepts,
             Revokes, TenantTasks
      <4>2. QED
        BY <3>2, <4>1 DEF Revokers
    <3>3. QED
      BY <3>1, <3>2
  <2>4. Revokers(i) \subseteq Requests /\ Revokers(i)' \subseteq Requests
    BY DEF Revokers
  <2>5. QED
    BY <2>1, <2>2, <2>3, <2>4
<1>3. QED
  BY <1>1, <1>2

-----------------------------------------------------------------------------
\* Once it has been let in, a request is about the same all along.
LEMMA TaskStays ==
    ASSUME TypeOK, NEW r \in Requests, Step(r), pc[r] \notin {"idle", "redeeming"}
    PROVE  /\ UNCHANGED <<task[r], about[r], email[r], before[r]>>
           /\ pc'[r] \notin {"idle", "redeeming"}
BY DEF Step, Invite, CheckInvite, AddInvitation, CommitInvitation, Redeem, CheckAuthority,
   CheckEmail, CreateAccount, Identify, AddUser, Revoke, ChangeTenant, Fetch, Write,
   CommitTenant, CommitRevocation, CommitUser, Reject, Fail, Begin, Goto, AfterUser, TypeOK

\* Its beginning is when a request sees what has ended.
LEMMA StartsLater ==
    ASSUME TypeOK, NEW r \in Requests, Step(r)
    PROVE  IF pc[r] = "idle" THEN before'[r] = {q \in Requests : pc[q] \in Ended}
                              ELSE UNCHANGED <<about[r], before[r]>> /\ pc'[r] # "idle"
BY DEF Step, Invite, CheckInvite, AddInvitation, CommitInvitation, Redeem, CheckAuthority,
   CheckEmail, CreateAccount, Identify, AddUser, Revoke, ChangeTenant, Fetch, Write,
   CommitTenant, CommitRevocation, CommitUser, Reject, Fail, Begin, Goto, AfterUser, TypeOK

\* A step leaves every request in a phase of its task.
LEMMA PhasesHold ==
    ASSUME IInv, NEW r \in Requests, Step(r)
    PROVE  TypeOK' /\ Phases' /\ AboutInvitations'
<1>1. TypeOK /\ PhaseOf(r) /\ AboutOf(r)
  BY DEF IInv, Phases, AboutInvitations
<1>2. TypeOK'
  BY <1>1, TypeKept
<1>3. ASSUME NEW q \in Requests PROVE PhaseOf(q)' /\ AboutOf(q)'
  <2>1. CASE q = r
    BY <1>1, <2>1, PhaseKept, AboutKept
  <2>2. CASE q # r
    <3>1. UNCHANGED <<pc[q], task[q], about[q], email[q], subject[q]>>
      BY <1>1, <2>2, OthersKeep
    <3>2. PhaseOf(q) /\ AboutOf(q)
      BY DEF IInv, Phases, AboutInvitations
    <3>3. PhaseOf(q)'
      BY <3>1, <3>2 DEF PhaseOf
    <3>4. task[q] \in Accepts => task[q] \in Redemptions
      BY DEF Redemptions
    <3>5. AboutOf(q)'
      BY <3>1, <3>2, <3>4, RecordsRemain DEF AboutOf
    <3>6. QED
      BY <3>3, <3>5
  <2>3. QED
    BY <2>1, <2>2
<1>4. ASSUME NEW i \in DOMAIN invitations', i \notin Old
      PROVE  task'[i] = "invite" /\ pc'[i] = "done"
  <2>1. CASE i \in DOMAIN invitations
    <3>1. i \in Requests /\ task[i] = "invite" /\ pc[i] = "done"
      BY <1>1, <1>4, <2>1 DEF IInv, AboutInvitations, TypeOK, InvitationIds
    <3>2. i # r
      BY <3>1, EndedIsOver DEF Ended
    <3>3. QED
      BY <1>1, <3>1, <3>2, OthersKeep
  <2>2. CASE i \notin DOMAIN invitations
    <3>1. CommitInvitation(r) /\ i = r
      BY <1>4, <2>2, WhoWrites DEF CommitInvitation, CommitRevocation, CommitUser, With
    <3>2. QED
      BY <1>1, <3>1 DEF CommitInvitation, Goto, TypeOK, PhaseOf
  <2>3. QED
    BY <2>1, <2>2
<1>5. QED
  BY <1>2, <1>3, <1>4 DEF Phases, AboutInvitations

\* The users stay those of the joins that committed.
LEMMA UsersHold ==
    ASSUME IInv, NEW r \in Requests, Step(r)
    PROVE  UsersJoined'
<1> USE DEF IInv
<1>1. r \notin DOMAIN users
  BY EndedIsOver DEF UsersJoined, Ended
<1>2. ASSUME NEW u \in DOMAIN users'
      PROVE  /\ task'[u] \in Joins /\ pc'[u] = "done"
             /\ users'[u] = [email |-> email'[u], subject |-> subject'[u], via |-> about'[u]]
  <2>1. CASE u \in DOMAIN users
    <3>1. u \in Requests \ {r} /\ users'[u] = users[u]
      BY <1>1, <2>1, RecordsRemain DEF TypeOK
    <3>2. UNCHANGED <<pc[u], task[u], about[u], email[u], subject[u]>>
      BY <3>1, OthersKeep
    <3>3. QED
      BY <2>1, <3>1, <3>2 DEF UsersJoined
  <2>2. CASE u \notin DOMAIN users
    <3>1. CommitUser(r) /\ u = r
      BY <1>2, <2>2, WhoWrites DEF CommitUser, With
    <3>2. users'[r] = [email |-> email[r], subject |-> subject[r], via |-> about[r]]
      BY <3>1 DEF CommitUser, With
    <3>3. QED
      BY <3>1, <3>2 DEF CommitUser, Goto, TypeOK
  <2>3. QED
    BY <2>1, <2>2
<1>3. ASSUME NEW q \in Requests, task'[q] \in Joins, pc'[q] = "done"
      PROVE  q \in DOMAIN users'
  <2>1. CASE q = r
    <3>1. task[r] \in Joins
      BY <1>3, <2>1, WhoIsDone
    <3>2. pc[r] = "added" => task[r] = "invite"
      BY DEF Phases, PhaseOf
    <3>3. CommitUser(r)
      BY <1>3, <2>1, <3>1, <3>2, WhoIsDone DEF CommitInvitation, CommitTenant, CommitRevocation,
         Joins, Accepts, Revokes, TenantTasks
    <3>4. QED
      BY <2>1, <3>3 DEF CommitUser, With
  <2>2. CASE q # r
    <3>1. task[q] \in Joins /\ pc[q] = "done"
      BY <1>3, <2>2, OthersKeep
    <3>2. QED
      BY <3>1, RecordsRemain DEF UsersJoined
  <2>3. QED
    BY <2>1, <2>2
<1>4. QED
  BY <1>2, <1>3 DEF UsersJoined

\* No two users, committed or not, get one e-mail.
LEMMA EmailsHold ==
    ASSUME IInv, NEW r \in Requests, Step(r)
    PROVE  EmailsUnique'
<1> USE DEF IInv
<1>1. ASSUME NEW q \in Requests, q # r
      PROVE  (Added(q)' <=> Added(q)) /\ UNCHANGED email[q]
  BY <1>1, OthersKeep DEF Added
<1>2. ASSUME Added(r)'
      PROVE  /\ ~ CommitUser(r) /\ UNCHANGED email[r]
             /\ ~ HasUser(email[r])
             /\ \A q \in Requests \ {r} : Added(q) => email[q] # email[r]
  <2>1. ~ CommitUser(r)
    BY <1>2 DEF CommitUser, Goto, TypeOK, Added
  <2>2. CASE AddUser(r)
    BY <2>1, <2>2 DEF AddUser, HasUser
  <2>3. CASE ~ AddUser(r)
    <3>1. Added(r)
      BY <1>2, <2>3 DEF Step, Invite, CheckInvite, AddInvitation, CommitInvitation, Redeem,
         CheckAuthority, CheckEmail, CreateAccount, Identify, Revoke, ChangeTenant, Fetch,
         Write, CommitTenant, CommitRevocation, CommitUser, Reject, Fail, Begin, Goto, Added,
         TypeOK, Joins, Accepts, Revokes, TenantTasks
    <3>2. UNCHANGED email[r]
      BY <3>1, TaskStays DEF Added
    <3>3. QED
      BY <2>1, <3>1, <3>2 DEF EmailsUnique
  <2>4. QED
    BY <2>2, <2>3
<1>3. CASE CommitUser(r)
  <2>1. ~ Added(r)' /\ Added(r)
    BY <1>2, <1>3 DEF CommitUser, Added
  <2>2. /\ DOMAIN users' = DOMAIN users \cup {r}
        /\ \A u \in DOMAIN users' :
             users'[u].email = IF u = r THEN email[r] ELSE users[u].email
    BY <1>3 DEF CommitUser, With
  <2>3. \A u, v \in DOMAIN users' : users'[u].email = users'[v].email => u = v
    BY <2>1, <2>2 DEF EmailsUnique, HasUser
  <2>4. ASSUME NEW q \in Requests, Added(q)' PROVE ~ HasUser(email[q])'
    <3>1. q # r /\ Added(q) /\ UNCHANGED email[q]
      BY <1>1, <2>1, <2>4
    <3>2. QED
      BY <2>1, <2>2, <3>1 DEF EmailsUnique, HasUser
  <2>5. \A q, s \in Requests : Added(q)' /\ Added(s)' /\ email'[q] = email'[s] => q = s
    BY <1>1, <2>1 DEF EmailsUnique
  <2>6. QED
    BY <2>3, <2>4, <2>5 DEF EmailsUnique
<1>4. CASE ~ CommitUser(r)
  <2>1. UNCHANGED users
    BY <1>4, WhoWrites
  <2>2. ASSUME NEW q \in Requests, Added(q)' PROVE ~ HasUser(email[q])'
    BY <1>1, <1>2, <2>1, <2>2 DEF EmailsUnique, HasUser
  <2>3. \A q, s \in Requests : Added(q)' /\ Added(s)' /\ email'[q] = email'[s] => q = s
    BY <1>1, <1>2 DEF EmailsUnique
  <2>4. QED
    BY <2>1, <2>2, <2>3 DEF EmailsUnique
<1>5. QED
  BY <1>3, <1>4

-----------------------------------------------------------------------------
\* An account stays with the request that made it, which stays identified by it.
LEMMA AccountsHold ==
    ASSUME IInv, NEW r \in Requests, Step(r)
    PROVE  AccountsMade'
<1> USE DEF IInv
<1> DEFINE Identified == {"identified", "changed", "fetched", "written", "done"}
           MadeBy(q) == /\ task[q] \in {"keycloak", "register"} =>
                              /\ subject[q] = q
                              /\ email[q] \in DOMAIN accounts /\ accounts[email[q]] = q
                        /\ task[q] = "supabase" => subject[q] \in Subjects
<1>1. PhaseOf(r)
  BY DEF Phases
<1>2. ASSUME NEW q \in Requests, q # r, pc'[q] \in Identified
      PROVE  MadeBy(q)'
  <2>1. UNCHANGED <<pc[q], task[q], email[q], subject[q]>>
    BY <1>2, OthersKeep
  <2>2. MadeBy(q)
    BY <1>2, <2>1 DEF AccountsMade
  <2>3. QED
    BY <2>1, <2>2, RecordsRemain
<1>3. ASSUME pc'[r] \in Identified
      PROVE  MadeBy(r)'
  <2>1. CASE CreateAccount(r)
    BY <1>1, <2>1, NamesAssumption DEF CreateAccount, With, Goto, TypeOK, PhaseOf
  <2>2. CASE Identify(r)
    BY <2>2 DEF Identify, Goto, TypeOK
  <2>3. CASE pc[r] \in Identified
    <3>1. UNCHANGED <<task[r], email[r]>>
      BY <2>3, TaskStays
    <3>2. ~ CreateAccount(r) /\ ~ Identify(r)
      BY <2>3 DEF CreateAccount, Identify
    <3>3. UNCHANGED subject[r]
      BY <3>2 DEF Step, Invite, CheckInvite, AddInvitation, CommitInvitation, Redeem,
         CheckAuthority, CheckEmail, AddUser, Revoke, ChangeTenant, Fetch, Write,
         CommitTenant, CommitRevocation, CommitUser, Reject, Fail
    <3>4. MadeBy(r)
      BY <2>3 DEF AccountsMade
    <3>5. QED
      BY <3>1, <3>3, <3>4, RecordsRemain
  <2>4. CASE ~ CreateAccount(r) /\ ~ Identify(r) /\ pc[r] \notin Identified
    <3>1. CommitInvitation(r) \/ CheckAuthority(r) \/ Revoke(r) \/ ChangeTenant(r)
      BY <1>3, <2>4 DEF Step, Invite, CheckInvite, AddInvitation, Redeem, CheckEmail, AddUser,
         Fetch, Write, CommitTenant, CommitRevocation, CommitUser, Reject, Fail, Goto, TypeOK
    <3>2. CASE CommitInvitation(r)
      BY <1>1, <3>2 DEF CommitInvitation, PhaseOf
    <3>3. CASE CheckAuthority(r)
      BY <1>3, <3>3 DEF CheckAuthority, Goto, TypeOK
    <3>4. CASE Revoke(r)
      BY <3>4 DEF Revoke, Begin, TypeOK
    <3>5. CASE ChangeTenant(r)
      BY <3>5 DEF ChangeTenant, Begin, TypeOK, TenantTasks
    <3>6. QED
      BY <3>1, <3>2, <3>3, <3>4, <3>5
  <2>5. QED
    BY <2>1, <2>2, <2>3, <2>4
<1>4. ASSUME NEW e \in DOMAIN accounts'
      PROVE  /\ task'[accounts'[e]] \in {"keycloak", "register"}
             /\ pc'[accounts'[e]] \notin {"idle", "redeeming"}
  <2>1. CASE e \in DOMAIN accounts
    <3>1. accounts'[e] = accounts[e] /\ accounts[e] \in Requests
      BY <2>1, RecordsRemain DEF TypeOK
    <3>2. /\ task[accounts[e]] \in {"keycloak", "register"}
          /\ pc[accounts[e]] \notin {"idle", "redeeming"}
      BY <2>1 DEF AccountsMade
    <3>3. QED
      BY <3>1, <3>2, OthersKeep, TaskStays
  <2>2. CASE e \notin DOMAIN accounts
    <3>1. CreateAccount(r)
      BY <1>4, <2>2, WhoWrites
    <3>2. accounts'[e] = r
      BY <1>4, <2>2, <3>1 DEF CreateAccount, With
    <3>3. QED
      BY <1>1, <3>1, <3>2 DEF CreateAccount, Goto, TypeOK, PhaseOf
  <2>3. QED
    BY <2>1, <2>2
<1>5. QED
  BY <1>2, <1>3, <1>4 DEF AccountsMade

\* A request that is about an invitation has just loaded it, or was about it before.
LEMMA RedemptionStays ==
    ASSUME TypeOK, Phases, NEW r \in Requests, Step(r), NEW q \in Requests,
           task'[q] \in Redemptions, ~ (q = r /\ Redeem(r)), ~ (q = r /\ Revoke(r))
    PROVE  /\ task[q] \in Redemptions /\ pc[q] # "idle"
           /\ UNCHANGED <<about[q], before[q]>>
<1> USE DEF Redemptions
<1>1. PhaseOf(q)
  BY DEF Phases
<1>2. CASE q # r
  BY <1>1, <1>2, OthersKeep, NamesAssumption DEF PhaseOf, Accepts, Revokes, Tasks, Joins
<1>3. CASE q = r
  <2>1. pc[r] # "idle"
    BY <1>3, BeginsAs, NamesAssumption DEF Accepts, Revokes, TenantTasks, Tasks, Joins
  <2>2. UNCHANGED <<about[r], before[r]>>
    BY <2>1, StartsLater
  <2>3. task[r] \in Redemptions
    <3>1. CASE pc[r] = "redeeming"
      BY <3>1, LooksAtTenant
    <3>2. CASE pc[r] # "redeeming"
      BY <1>3, <2>1, <3>2, TaskStays
    <3>3. QED
      BY <3>1, <3>2
  <2>4. QED
    BY <1>3, <2>1, <2>2, <2>3
<1>4. QED
  BY <1>2, <1>3

\* No copy of an invitation gets ahead of what is committed.
LEMMA CopiesHold ==
    ASSUME IInv, NEW r \in Requests, Step(r)
    PROVE  CopiesNotAhead'
<1> USE DEF IInv
<1>1. SUFFICES ASSUME NEW q \in Requests, task'[q] \in Redemptions, base'[q] # "PENDING"
               PROVE  invitations'[about'[q]].status # "PENDING"
  BY DEF CopiesNotAhead
<1>2. CASE task[q] \in Redemptions /\ UNCHANGED <<about[q], base[q]>>
  <2>1. about[q] \in DOMAIN invitations /\ invitations[about[q]].status # "PENDING"
    BY <1>1, <1>2 DEF AboutInvitations, AboutOf, CopiesNotAhead
  <2>2. QED
    BY <1>2, <2>1, NeverPendingAgain
<1>3. CASE q # r
  BY <1>1, <1>2, <1>3, OthersKeep
<1>4. CASE q = r /\ Fetch(r)
  <2>1. task[r] \in Redemptions /\ about'[r] = about[r] /\ UNCHANGED invitations
    BY <1>1, <1>4 DEF Fetch
  <2>2. CASE base'[r] = base[r]
    BY <1>2, <1>4, <2>1, <2>2
  <2>3. CASE base'[r] = Committed(r)
    BY <1>1, <1>4, <2>1, <2>3 DEF Committed, Redemptions, Accepts, Revokes, TenantTasks
  <2>4. QED
    BY <1>4, <2>2, <2>3 DEF Fetch, TypeOK
<1>5. CASE q = r /\ (Redeem(r) \/ Revoke(r))
  BY <1>1, <1>5 DEF Redeem, Revoke, IsPending, TypeOK
<1>6. CASE q = r /\ ~ Fetch(r) /\ ~ Redeem(r) /\ ~ Revoke(r)
  <2>1. task[r] \in Redemptions /\ UNCHANGED about[r] /\ pc[r] # "idle"
    BY <1>1, <1>6, RedemptionStays
  <2>2. UNCHANGED base
    BY <1>6, <2>1
       DEF Step, Invite, CheckInvite, AddInvitation, CommitInvitation, CheckAuthority,
       CheckEmail, CreateAccount, Identify, AddUser, ChangeTenant, Write,
       CommitTenant, CommitRevocation, CommitUser, Reject, Fail, Begin
  <2>3. QED
    BY <1>2, <1>6, <2>1, <2>2
<1>7. QED
  BY <1>3, <1>4, <1>5, <1>6

\* What a request saw ended stays ended.
LEMMA BeforeHolds ==
    ASSUME IInv, NEW r \in Requests, Step(r)
    PROVE  BeforeEnded'
<1> USE DEF IInv
<1>1. ASSUME NEW q \in Requests, pc[q] \in Ended PROVE pc'[q] \in Ended
  BY <1>1, OthersKeep, EndedIsOver
<1>2. ASSUME NEW q \in Requests, NEW s \in before'[q] PROVE s \in Requests /\ pc[s] \in Ended
  <2>1. CASE s \in before[q]
    BY <2>1 DEF BeforeEnded, TypeOK
  <2>2. CASE s \notin before[q]
    <3>1. q = r /\ pc[r] = "idle"
      BY <1>2, <2>2, OthersKeep, StartsLater
    <3>2. QED
      BY <1>2, <3>1, StartsLater
  <2>3. QED
    BY <2>1, <2>2
<1>3. QED
  BY <1>1, <1>2 DEF BeforeEnded

\* Only the request of a step joins or revokes by it.
LEMMA LoadedMoves ==
    ASSUME IInv, NEW r \in Requests, Step(r), NEW i
    PROVE  Joined(i)' \subseteq Joined(i) \cup {r} /\ Revokers(i)' \subseteq Revokers(i) \cup {r}
BY JoinedMoves DEF IInv

\* Nobody has joined by, or revoked, an invitation before whoever loads it began.
LEMMA LoadedHolds ==
    ASSUME IInv, NEW r \in Requests, Step(r)
    PROVE  LoadedPending'
<1> USE DEF IInv
<1>1. SUFFICES ASSUME NEW q \in Requests, task'[q] \in Redemptions, NEW s \in before'[q],
                      NEW i, i = about'[q]
               PROVE  s \notin Joined(i)' /\ s \notin Revokers(i)'
  BY DEF LoadedPending, Joined, Revokers
<1>2. s # r
  <2>1. s \in Requests /\ pc'[s] \in Ended /\ pc[s] \in Ended
    <3>1. CASE s \in before[q]
      BY <1>1, <3>1, BeforeHolds DEF BeforeEnded, TypeOK
    <3>2. CASE s \notin before[q]
      <4>1. q = r /\ pc[r] = "idle"
        BY <1>1, <3>2, OthersKeep, StartsLater
      <4>2. QED
        BY <1>1, <4>1, StartsLater, BeforeHolds DEF BeforeEnded
    <3>3. QED
      BY <3>1, <3>2
  <2>2. QED
    BY <2>1, EndedIsOver
<1>3. CASE q = r /\ (Redeem(r) \/ Revoke(r))
  <2>1. IsPending(i)
    BY <1>1, <1>3 DEF Redeem, Revoke, TypeOK
  <2>2. Joined(i) = {} /\ Revokers(i) = {}
    BY <2>1 DEF IsPending, InvitationsAdmitOnce
  <2>3. QED
    BY <1>2, <1>3, <2>2, LoadedMoves
<1>4. CASE ~ (q = r /\ Redeem(r)) /\ ~ (q = r /\ Revoke(r))
  <2>1. task[q] \in Redemptions /\ UNCHANGED <<about[q], before[q]>>
    BY <1>1, <1>4, RedemptionStays
  <2>2. s \notin Joined(i) /\ s \notin Revokers(i)
    BY <1>1, <2>1 DEF LoadedPending
  <2>3. QED
    BY <1>2, <2>1, <2>2, LoadedMoves
<1>5. QED
  BY <1>3, <1>4

-----------------------------------------------------------------------------
\* A closed tenant was closed after the beginning of whoever is past the look at it.
LEMMA ActiveHolds ==
    ASSUME IInv, NEW r \in Requests, Step(r)
    PROVE  PassedActive'
<1> USE DEF IInv
<1> DEFINE Past(q) == \/ task[q] = "invite"
                      \/ task[q] \in Accepts /\ pc[q] \notin {"redeeming"} \cup Ended
<1>1. SUFFICES ASSUME tenant' # "ACTIVE", NEW q \in Requests, Past(q)'
               PROVE  \E c \in Requests : /\ task'[c] \in {"suspend", "archive"}
                                          /\ pc'[c] = "done" /\ c \notin before'[q]
  BY DEF PassedActive
<1>2. CASE CommitTenant(r) /\ tenant' = Target(task[r])
  <2>1. task'[r] \in {"suspend", "archive"} /\ pc'[r] = "done"
    BY <1>1, <1>2 DEF CommitTenant, Goto, TypeOK, Target, TenantTasks, Accepts, Revokes
  <2>2. r \notin before'[q]
    <3>1. CASE q = r
      BY <2>1, <1>1, <3>1 DEF Accepts
    <3>2. CASE q # r
      BY <3>2, OthersKeep, EndedIsOver DEF BeforeEnded
    <3>3. QED
      BY <3>1, <3>2
  <2>3. QED
    BY <2>1, <2>2
<1>3. CASE UNCHANGED tenant
  <2>1. Past(q) /\ UNCHANGED before[q]
    <3>1. CASE q # r
      BY <1>1, <3>1, OthersKeep
    <3>2. CASE q = r
      <4>1. pc[r] # "idle"
        <5>1. ~ Invite(r)
          BY <1>1, <1>3 DEF Invite
        <5>2. QED
          BY <1>1, <3>2, <5>1, BeginsAs, NamesAssumption DEF Accepts, TenantTasks, Tasks, Joins
      <4>2. pc[r] # "redeeming"
        BY <1>1, <1>3, <3>2, LooksAtTenant DEF Accepts, Ended
      <4>3. UNCHANGED <<task[r], before[r]>>
        BY <4>1, <4>2, TaskStays
      <4>4. QED
        BY <1>1, <3>2, <4>2, <4>3, EndedIsOver
    <3>3. QED
      BY <3>1, <3>2
  <2>2. PICK c \in Requests : /\ task[c] \in {"suspend", "archive"} /\ pc[c] = "done"
                              /\ c \notin before[q]
    BY <1>1, <1>3, <2>1 DEF PassedActive
  <2>3. c # r
    BY <2>2, EndedIsOver DEF Ended
  <2>4. QED
    BY <2>1, <2>2, <2>3, OthersKeep
<1>4. tenant' \in {tenant, Target(task[r])} /\ (UNCHANGED tenant \/ CommitTenant(r))
  BY WhoWrites DEF CommitTenant, Merged, Committed
<1>5. QED
  BY <1>2, <1>3, <1>4

\* An archived tenant was archived after the beginning of whoever may change it.
LEMMA UnarchivedHolds ==
    ASSUME IInv, NEW r \in Requests, Step(r)
    PROVE  PassedUnarchived'
<1> USE DEF IInv
<1>1. SUFFICES ASSUME tenant' = "ARCHIVED", NEW q \in Requests,
                      task'[q] \in {"suspend", "reactivate"}
               PROVE  \E a \in Requests : /\ task'[a] = "archive" /\ pc'[a] = "done"
                                          /\ a \notin before'[q]
  BY DEF PassedUnarchived
<1>2. CASE CommitTenant(r) /\ tenant' = Target(task[r])
  <2>1. task'[r] = "archive" /\ pc'[r] = "done"
    BY <1>1, <1>2 DEF CommitTenant, Goto, TypeOK, Target, TenantTasks, Accepts, Revokes
  <2>2. r \notin before'[q]
    <3>1. q # r
      BY <1>1, <2>1
    <3>2. QED
      BY <3>1, OthersKeep, EndedIsOver DEF BeforeEnded
  <2>3. QED
    BY <2>1, <2>2
<1>3. CASE UNCHANGED tenant
  <2>1. task[q] \in {"suspend", "reactivate"} /\ UNCHANGED before[q]
    <3>1. CASE q # r
      BY <1>1, <3>1, OthersKeep
    <3>2. CASE q = r
      <4>1. pc[r] # "idle"
        <5>1. ~ ChangeTenant(r)
          BY <1>1, <1>3, <3>2 DEF ChangeTenant, Begin, TypeOK, MayDo
        <5>2. QED
          BY <1>1, <3>2, <5>1, BeginsAs, NamesAssumption DEF Accepts, TenantTasks, Tasks
      <4>2. pc[r] # "redeeming"
        BY <1>1, <3>2, LooksAtTenant DEF Accepts
      <4>3. QED
        BY <1>1, <3>2, <4>1, <4>2, TaskStays
    <3>3. QED
      BY <3>1, <3>2
  <2>2. PICK a \in Requests : task[a] = "archive" /\ pc[a] = "done" /\ a \notin before[q]
    BY <1>1, <1>3, <2>1 DEF PassedUnarchived
  <2>3. a # r
    BY <2>2, EndedIsOver DEF Ended
  <2>4. QED
    BY <2>1, <2>2, <2>3, OthersKeep
<1>4. tenant' \in {tenant, Target(task[r])} /\ (UNCHANGED tenant \/ CommitTenant(r))
  BY WhoWrites DEF CommitTenant, Merged, Committed
<1>5. QED
  BY <1>2, <1>3, <1>4

\* What is written over an invitation is not PENDING, even if the copy said so.
LEMMA MergedNotPending ==
    ASSUME IInv, NEW r \in Requests, task[r] \in Redemptions
    PROVE  Merged(r) \in {invitations[about[r]].status, Target(task[r])} \ {"PENDING"}
<1>1. Committed(r) = invitations[about[r]].status
  BY DEF Committed, Redemptions, Accepts, Revokes, TenantTasks
<1>2. Target(task[r]) # "PENDING"
  BY TargetNotPending
<1>3. CASE base[r] = Target(task[r])
  BY <1>1, <1>2, <1>3 DEF Merged, IInv, CopiesNotAhead
<1>4. CASE base[r] # Target(task[r])
  BY <1>2, <1>4 DEF Merged
<1>5. QED
  BY <1>3, <1>4

\* Whoever joined by an invitation was about it, and has its e-mail.
LEMMA JoinedAreAbout ==
    ASSUME IInv, NEW i \in Requests \cup Old, NEW u \in Joined(i)
    PROVE  /\ u \in Requests /\ u \in DOMAIN users /\ pc[u] = "done" /\ task[u] \in Accepts
           /\ about[u] = i /\ i \in DOMAIN invitations
           /\ users[u].email = invitations[i].email
<1> USE DEF IInv
<1>1. u \in DOMAIN users /\ u \in Requests /\ users[u].via = i
  BY DEF Joined, TypeOK
<1>2. task[u] \in Joins /\ pc[u] = "done" /\ about[u] = i /\ users[u].email = email[u]
  BY <1>1 DEF UsersJoined
<1>3. task[u] \in Redemptions
  BY <1>1, <1>2, NamesAssumption DEF AboutInvitations, AboutOf
<1>4. task[u] \in Accepts
  BY <1>2, <1>3 DEF Redemptions, Joins, Accepts, Revokes
<1>5. QED
  BY <1>1, <1>2, <1>3, <1>4 DEF AboutInvitations, AboutOf

\* An invitation admits one user at most, and is closed by whoever closed it.
LEMMA AdmitHolds ==
    ASSUME IInv, NEW r \in Requests, Step(r)
    PROVE  InvitationsAdmitOnce'
<1> USE DEF IInv
<1>1. SUFFICES ASSUME NEW i \in DOMAIN invitations'
      PROVE  /\ invitations'[i].status = "PENDING" => Joined(i)' = {} /\ Revokers(i)' = {}
             /\ invitations'[i].status = "ACCEPTED" => Joined(i)' # {}
             /\ invitations'[i].status = "REVOKED" => Revokers(i)' # {}
             /\ \A u, v \in Joined(i)' : u = v
             /\ \A u \in Joined(i)', q \in Revokers(i)' : u \notin before'[q] /\ q \notin before'[u]
  BY DEF InvitationsAdmitOnce
<1>2. i \in Requests \cup Old
  BY PhasesHold DEF TypeOK, InvitationIds
<1>3. \A q \in Joined(i) \cup Revokers(i) : q \in Requests /\ q # r /\ UNCHANGED before[q]
  <2>1. \A q \in Joined(i) \cup Revokers(i) : q \in Requests /\ pc[q] = "done"
    BY <1>2, JoinedAreAbout DEF Revokers
  <2>2. QED
    BY <2>1, EndedIsOver, OthersKeep DEF Ended
<1>4. \A q \in Requests : r \notin before[q]
  BY EndedIsOver DEF BeforeEnded
<1>5. CASE i \notin DOMAIN invitations
  <2>1. CommitInvitation(r) /\ i = r /\ invitations'[r].status = "PENDING"
    <3>1. CommitInvitation(r)
      BY <1>1, <1>5, WhoWrites DEF CommitRevocation, CommitUser
    <3>2. QED
      BY <1>1, <1>5, <3>1 DEF CommitInvitation, With
  <2>2. Joined(i) = {}
    BY <1>2, <1>5, JoinedAreAbout
  <2>3. Revokers(i) = {}
    BY <1>5 DEF Revokers, AboutInvitations, AboutOf, Redemptions
  <2>4. ~ CommitUser(r) /\ ~ CommitRevocation(r)
    BY <2>1 DEF CommitInvitation, CommitUser, CommitRevocation
  <2>5. Joined(i)' = {} /\ Revokers(i)' = {}
    BY <2>2, <2>3, <2>4, JoinedMoves
  <2>6. QED
    BY <2>1, <2>5
<1>6. CASE i \in DOMAIN invitations /\ CommitRevocation(r) /\ about[r] = i
  <2>1. task[r] \in Redemptions /\ Target(task[r]) = "REVOKED"
    BY <1>6, TargetNotPending DEF CommitRevocation, Redemptions, Accepts, Revokes
  <2>2. invitations'[i].status = Merged(r)
    BY <1>6 DEF CommitRevocation, TypeOK
  <2>3. invitations'[i].status \in {invitations[i].status, "REVOKED"} \ {"PENDING"}
    BY <1>6, <2>1, <2>2, MergedNotPending
  <2>4. Joined(i)' = Joined(i) /\ Revokers(i)' = Revokers(i) \cup {r}
    BY <1>6, JoinedMoves DEF CommitRevocation, CommitUser, Joins, Accepts, Revokes
  <2>5. UNCHANGED before[r]
    BY <1>6 DEF CommitRevocation
  <2>6. \A u \in Joined(i) : u \notin before[r]
    BY <1>6, <2>1 DEF LoadedPending
  <2>7. QED
    BY <1>3, <1>4, <1>6, <2>3, <2>4, <2>5, <2>6 DEF InvitationsAdmitOnce
<1>7. CASE i \in DOMAIN invitations /\ CommitUser(r) /\ about[r] = i
  <2>1. task[r] \in Accepts /\ task[r] \in Redemptions /\ task[r] # "register"
    <3>1. task[r] \in Redemptions
      BY <1>2, <1>7, NamesAssumption DEF AboutInvitations, AboutOf
    <3>2. QED
      BY <1>7, <3>1 DEF CommitUser, Joins, Redemptions, Accepts, Revokes
  <2>2. invitations'[i].status = Merged(r)
    BY <1>7, <2>1 DEF CommitUser, TypeOK
  <2>3. invitations'[i].status \in {invitations[i].status, "ACCEPTED"} \ {"PENDING"}
    BY <1>7, <2>1, <2>2, MergedNotPending, TargetNotPending
  <2>4. Joined(i)' = Joined(i) \cup {r} /\ Revokers(i)' = Revokers(i)
    BY <1>7, <2>1, JoinedMoves DEF CommitRevocation, Accepts, Revokes
  <2>5. Joined(i) = {}
    <3>1. SUFFICES ASSUME NEW u \in Joined(i) PROVE FALSE
      OBVIOUS
    <3>2. u \in DOMAIN users /\ users[u].email = email[r]
      BY <1>2, <1>7, <2>1, JoinedAreAbout DEF AboutInvitations, AboutOf
    <3>3. Added(r)
      BY <1>7 DEF CommitUser, Added
    <3>4. QED
      BY <3>2, <3>3 DEF EmailsUnique, HasUser
  <2>6. UNCHANGED before[r]
    BY <1>7 DEF CommitUser
  <2>7. \A q \in Revokers(i) : q \notin before[r]
    BY <1>7, <2>1 DEF LoadedPending
  <2>8. QED
    BY <1>3, <1>4, <1>7, <2>3, <2>4, <2>5, <2>6, <2>7 DEF InvitationsAdmitOnce
<1>8. CASE i \in DOMAIN invitations /\ ~ (CommitRevocation(r) /\ about[r] = i)
                                    /\ ~ (CommitUser(r) /\ about[r] = i)
  <2>1. Joined(i)' = Joined(i) /\ Revokers(i)' = Revokers(i)
    BY <1>8, JoinedMoves
  <2>2. invitations'[i].status = invitations[i].status
    BY <1>8, StatusMoves
  <2>3. QED
    BY <1>3, <1>8, <2>1, <2>2 DEF InvitationsAdmitOnce
<1>9. QED
  BY <1>5, <1>6, <1>7, <1>8

-----------------------------------------------------------------------------
\* The invariant survives every step.
LEMMA Inductive ==
    ASSUME IInv, [Next]_vars
    PROVE  IInv'
<1>1. ASSUME NEW r \in Requests, Step(r) PROVE IInv'
  BY <1>1, PhasesHold, UsersHold, EmailsHold, AccountsHold, CopiesHold, BeforeHolds, LoadedHolds,
     ActiveHolds, UnarchivedHolds, AdmitHolds DEF IInv
<1>2. CASE UNCHANGED vars
  BY <1>2 DEF vars, IInv, TypeOK, Phases, PhaseOf, AboutInvitations, AboutOf, UsersJoined,
     EmailsUnique, Added, HasUser, AccountsMade, CopiesNotAhead, BeforeEnded, LoadedPending,
     PassedActive, PassedUnarchived, InvitationsAdmitOnce, Joined, Revokers
<1>3. QED
  BY <1>1, <1>2 DEF Next, Step

\* What is loaded, copied and written back by concurrent requests stays consistent.
THEOREM InvariantHolds == Spec => []IInv
<1>1. Init => IInv
  <2> SUFFICES ASSUME Init PROVE IInv
    OBVIOUS
  <2> USE DEF Init
  <2>1. TypeOK
    BY DEF TypeOK, InvitationIds, InvitationStatuses, TenantStatuses, PCs
  <2>2. \A r \in Requests : task[r] \notin Tasks
    BY NamesAssumption
  <2>3. Phases /\ AboutInvitations
    BY <2>2, NamesAssumption DEF Phases, PhaseOf, AboutInvitations, AboutOf, Redemptions,
       Accepts, Revokes, Joins, Tasks
  <2>4. UsersJoined /\ EmailsUnique /\ AccountsMade
    BY DEF UsersJoined, EmailsUnique, AccountsMade, Added
  <2>5. CopiesNotAhead /\ BeforeEnded /\ LoadedPending
    BY DEF CopiesNotAhead, BeforeEnded, LoadedPending
  <2>6. PassedActive /\ PassedUnarchived
    BY DEF PassedActive, PassedUnarchived
  <2>7. InvitationsAdmitOnce
    BY DEF InvitationsAdmitOnce, Joined, Revokers
  <2>8. QED
    BY <2>1, <2>3, <2>4, <2>5, <2>6, <2>7 DEF IInv
<1>2. IInv /\ [Next]_vars => IInv'
  BY Inductive
<1>3. QED
  BY <1>1, <1>2, PTL DEF Spec

\* Each invitation admits at most one user, is closed by whoever closed it, and is
\* both accepted and revoked only by requests that overlapped.
THEOREM AlwaysAdmitOnce == Spec => []InvitationsAdmitOnce
<1>1. IInv => InvitationsAdmitOnce
  BY DEF IInv
<1>2. QED
  BY <1>1, InvariantHolds, PTL

\* Users who came by Keycloak have the account that their own request made.
THEOREM AccountsAlwaysBack == Spec => []AccountsBackUsers
<1>1. IInv => AccountsBackUsers
  <2> SUFFICES ASSUME IInv PROVE AccountsBackUsers
    OBVIOUS
  <2> USE DEF IInv
  <2>1. ASSUME NEW u \in DOMAIN users, users[u].subject \notin Subjects
        PROVE  users[u].email \in DOMAIN accounts /\ accounts[users[u].email] = users[u].subject
    <3>1. /\ u \in Requests /\ task[u] \in Joins /\ pc[u] = "done"
          /\ users[u].email = email[u] /\ users[u].subject = subject[u]
      BY DEF UsersJoined, TypeOK
    <3>2. task[u] \in {"keycloak", "register"}
      BY <2>1, <3>1 DEF AccountsMade, Joins, Accepts
    <3>3. QED
      BY <3>1, <3>2 DEF AccountsMade
  <2>2. ASSUME NEW e \in DOMAIN accounts, pc[accounts[e]] = "done"
        PROVE  accounts[e] \in DOMAIN users
    BY <2>2 DEF AccountsMade, UsersJoined, TypeOK, Joins, Accepts
  <2>3. QED
    BY <2>1, <2>2 DEF AccountsBackUsers
<1>2. QED
  BY <1>1, InvariantHolds, PTL

\* A suspended or archived tenant locks out whoever began after it was closed.
THEOREM ClosedTenantHolds == Spec => ClosedTenantAdmitsNobody
<1>1. ASSUME IInv, [Next]_vars,
             NEW r \in Requests, pc[r] # "done", pc'[r] = "done",
             task[r] \in Accepts \cup {"invite"}, tenant # "ACTIVE"
      PROVE  \E c \in Requests : /\ task[c] \in {"suspend", "archive"} /\ pc[c] = "done"
                                 /\ c \notin before[r]
  <2>1. PICK q \in Requests : Step(q)
    BY <1>1 DEF Next, Step, vars
  <2>2. q = r
    BY <1>1, <2>1, OthersKeep DEF IInv
  <2>3. CommitInvitation(r) \/ CommitTenant(r) \/ CommitRevocation(r) \/ CommitUser(r)
    BY <1>1, <2>1, <2>2, WhoIsDone DEF IInv
  <2>4. pc[r] \in {"added", "written"}
    BY <2>3 DEF CommitInvitation, CommitTenant, CommitRevocation, CommitUser
  <2>5. QED
    BY <1>1, <2>4 DEF IInv, PassedActive, Ended
<1>2. IInv /\ [Next]_vars =>
          [\A r \in Requests :
              /\ pc[r] # "done" /\ pc'[r] = "done"
              /\ task[r] \in Accepts \cup {"invite"}
              /\ tenant # "ACTIVE"
              => \E c \in Requests : /\ task[c] \in {"suspend", "archive"} /\ pc[c] = "done"
                                     /\ c \notin before[r]]_vars
  BY <1>1
<1>3. QED
  BY <1>2, InvariantHolds, PTL DEF Spec, ClosedTenantAdmitsNobody

\* Only a request that overlapped the archiving brings a tenant back.
THEOREM ArchivedHolds == Spec => ArchivedIsTerminal
<1>1. ASSUME IInv, [Next]_vars, tenant = "ARCHIVED", tenant' # "ARCHIVED"
      PROVE  \E r, a \in Requests :
                /\ pc[r] = "written" /\ pc'[r] = "done"
                /\ task[a] = "archive" /\ pc[a] = "done" /\ a \notin before[r]
  <2>1. PICK r \in Requests : Step(r)
    BY <1>1 DEF Next, Step, vars
  <2>2. CommitTenant(r)
    BY <1>1, <2>1, WhoWrites
  <2>3. task[r] \in {"suspend", "reactivate"}
    <3>1. task[r] # "archive"
      BY <1>1, <2>2 DEF CommitTenant, Merged, Committed, Target, TenantTasks, Accepts, Revokes
    <3>2. QED
      BY <2>2, <3>1 DEF CommitTenant, TenantTasks
  <2>4. PICK a \in Requests : task[a] = "archive" /\ pc[a] = "done" /\ a \notin before[r]
    BY <1>1, <2>3 DEF IInv, PassedUnarchived
  <2>5. pc[r] = "written" /\ pc'[r] = "done"
    BY <1>1, <2>2 DEF CommitTenant, Goto, IInv, TypeOK
  <2>6. QED
    BY <2>4, <2>5
<1>2. IInv /\ [Next]_vars =>
          [tenant = "ARCHIVED" /\ tenant' # "ARCHIVED" =>
              \E r, a \in Requests :
                  /\ pc[r] = "written" /\ pc'[r] = "done"
                  /\ task[a] = "archive" /\ pc[a] = "done" /\ a \notin before[r]]_vars
  BY <1>1
<1>3. QED
  BY <1>2, InvariantHolds, PTL DEF Spec, ArchivedIsTerminal
=============================================================================
