------------------------------ MODULE Invitations ------------------------------
(***************************************************************************)
(* Who becomes a member of one tenant: invitations, their acceptance by way *)
(* of Keycloak or Supabase, self-registration, and the suspension and       *)
(* archiving of the tenant, by concurrent requests.                         *)
(*                                                                         *)
(* Invitations and the tenant are loaded, checked and written back with no  *)
(* version; an account at Keycloak is made outside the transaction.  What   *)
(* orders the requests are row locks and the unique indexes on the e-mail   *)
(* and the subject of a user and on the pending invitations of an e-mail.    *)
(***************************************************************************)
CONSTANTS
    Requests,   \* requests; a user, an invitation, an account is named after its
    Old,        \* invitations of earlier days, pending
    Emails,     \* normalised e-mail addresses
    Subjects,   \* identities verified by Supabase
    None        \* no invitation, no identity yet

VARIABLES
    tenant,     \* committed status of the tenant
    invitations,\* committed invitations, with their e-mail and status
    users,      \* committed users: e-mail, subject, and the invitation they came by
    accounts,   \* accounts at Keycloak, by e-mail: the request that made them
    pc,         \* where a request is
    task,       \* what it is about
    about,      \* the invitation it is about
    email,      \* the e-mail it is about
    subject,    \* the identity it gives to a user
    base,       \* the status in the record its session writes to
    before      \* the requests that had ended when it began

vars == <<tenant, invitations, users, accounts, pc, task, about, email, subject, base, before>>

Ended == {"done", "rejected", "failed"}
PCs == {"idle", "hydrated", "unregistered", "checked", "added", "redeeming", "authorised", "free",
        "identified", "changed", "fetched", "written"} \cup Ended

Accepts == {"keycloak", "supabase"}
Joins == Accepts \cup {"register"}
Revokes == {"revoke", "refuse"}
TenantTasks == {"suspend", "reactivate", "archive"}
Tasks == {"invite"} \cup Joins \cup Revokes \cup TenantTasks

ASSUME NamesAssumption ==
    /\ Requests \cap (Old \cup Subjects) = {}
    /\ None \notin Requests \cup Old \cup Emails \cup Subjects \cup Tasks

TenantStatuses == {"ACTIVE", "SUSPENDED", "ARCHIVED"}
InvitationStatuses == {"PENDING", "ACCEPTED", "REVOKED"}
InvitationIds == Old \cup Requests

TypeOK ==
    /\ tenant \in TenantStatuses
    /\ DOMAIN invitations \subseteq InvitationIds
    /\ invitations \in [DOMAIN invitations -> [email : Emails, status : InvitationStatuses]]
    /\ DOMAIN users \subseteq Requests
    /\ users \in [DOMAIN users -> [email : Emails, subject : Subjects \cup Requests,
                                   via : InvitationIds \cup {None}]]
    /\ DOMAIN accounts \subseteq Emails /\ accounts \in [DOMAIN accounts -> Requests]
    /\ pc \in [Requests -> PCs]
    /\ task \in [Requests -> Tasks \cup {None}]
    /\ about \in [Requests -> InvitationIds \cup {None}]
    /\ email \in [Requests -> Emails \cup {None}]
    /\ subject \in [Requests -> Subjects \cup Requests \cup {None}]
    /\ base \in [Requests -> TenantStatuses \cup InvitationStatuses]
    /\ before \in [Requests -> SUBSET Requests]

\* No two invitations of an e-mail are pending.
Init ==
    /\ tenant = "ACTIVE"
    /\ \E to \in [Old -> Emails] :
        /\ \A i, j \in Old : to[i] = to[j] => i = j
        /\ invitations = [i \in Old |-> [email |-> to[i], status |-> "PENDING"]]
    /\ users = [u \in {} |-> None]
    /\ accounts = [e \in {} |-> None]
    /\ pc = [r \in Requests |-> "idle"]
    /\ task = [r \in Requests |-> None]
    /\ about = [r \in Requests |-> None]
    /\ email = [r \in Requests |-> None]
    /\ subject = [r \in Requests |-> None]
    /\ base = [r \in Requests |-> "PENDING"]
    /\ before = [r \in Requests |-> {}]

Goto(r, label) == pc' = [pc EXCEPT ![r] = label]
Begin(r, t) ==
    /\ pc[r] = "idle"
    /\ task' = [task EXCEPT ![r] = t]
    /\ before' = [before EXCEPT ![r] = {q \in Requests : pc[q] \in Ended}]

HasUser(e) == \E u \in DOMAIN users : users[u].email = e
HasMember(e) == \E u \in DOMAIN users : users[u].email = e /\ users[u].via # None
IsPending(i) == i \in DOMAIN invitations /\ invitations[i].status = "PENDING"
HasPending(e) == \E i \in DOMAIN invitations : IsPending(i) /\ invitations[i].email = e

\* f with x mapped to v, whether or not x was in its domain.
With(f, x, v) == [y \in DOMAIN f \cup {x} |-> IF y = x THEN v ELSE f[y]]

-----------------------------------------------------------------------------
\* The inviter's context is hydrated, which a tenant that is not active prevents.
Invite(r) ==
    /\ Begin(r, "invite")
    /\ tenant = "ACTIVE"
    /\ \E e \in Emails : email' = [email EXCEPT ![r] = e]
    /\ Goto(r, "hydrated")
    /\ UNCHANGED <<tenant, invitations, users, accounts, about, subject, base>>

\* create_invitation(): no member has the e-mail, and then no invitation of it is
\* pending.  (Row-level security hides the users of other tenants from the inviter.)
CheckInvite(r) ==
    /\ \/ pc[r] = "hydrated" /\ ~ HasMember(email[r]) /\ Goto(r, "unregistered")
       \/ pc[r] = "unregistered" /\ ~ HasPending(email[r]) /\ Goto(r, "checked")
    /\ UNCHANGED <<tenant, invitations, users, accounts, task, about, email, subject, base, before>>

\* The partial unique index waits for a rival; what it refuses is in Fail.
AddInvitation(r) ==
    /\ pc[r] = "checked"
    /\ ~ HasPending(email[r])
    /\ \A q \in Requests : ~ (task[q] = "invite" /\ pc[q] = "added" /\ email[q] = email[r])
    /\ Goto(r, "added")
    /\ UNCHANGED <<tenant, invitations, users, accounts, task, about, email, subject, base, before>>

CommitInvitation(r) ==
    /\ pc[r] = "added"
    /\ invitations' = With(invitations, r, [email |-> email[r], status |-> "PENDING"])
    /\ Goto(r, "done")
    /\ UNCHANGED <<tenant, users, accounts, task, about, email, subject, base, before>>

-----------------------------------------------------------------------------
\* _authorize_invitation_redemption() loads the invitation, which is pending.
Redeem(r) ==
    \E t \in Accepts, i \in DOMAIN invitations :
        /\ Begin(r, t)
        /\ IsPending(i)
        /\ about' = [about EXCEPT ![r] = i]
        /\ email' = [email EXCEPT ![r] = invitations[i].email]
        /\ base' = [base EXCEPT ![r] = invitations[i].status]
        /\ Goto(r, "redeeming")
        /\ UNCHANGED <<tenant, invitations, users, accounts, subject>>

\* Mutant: the tenant is not looked at again.
CheckInviterOnly(r) ==
    /\ pc[r] = "redeeming"
    /\ \/ Goto(r, "authorised") /\ UNCHANGED task
       \/ task' = [task EXCEPT ![r] = "refuse"] /\ Goto(r, "changed")
    /\ UNCHANGED <<tenant, invitations, users, accounts, about, email, subject, base, before>>

\* ... then the inviter and the tenant.  A tenant that is not active costs the
\* invitation its life, and so does an inviter whose own roles rank too low (who
\* invited by a delegated one: nobody's own roles are ever taken away).
CheckAuthority(r) ==
    /\ pc[r] = "redeeming"
    /\ \/ tenant = "ACTIVE" /\ Goto(r, "authorised") /\ UNCHANGED task
       \/ task' = [task EXCEPT ![r] = "refuse"] /\ Goto(r, "changed")
    /\ UNCHANGED <<tenant, invitations, users, accounts, about, email, subject, base, before>>

\* accept_invitation() and register_local(): the e-mail is not a user's.
CheckEmail(r) ==
    /\ \/ /\ pc[r] = "authorised" /\ task[r] = "keycloak"
          /\ UNCHANGED <<task, before, email>>
       \/ /\ Begin(r, "register")
          /\ \E e \in Emails : email' = [email EXCEPT ![r] = e]
    /\ ~ HasUser(email'[r])
    /\ Goto(r, "free")
    /\ UNCHANGED <<tenant, invitations, users, accounts, about, subject, base>>

\* Mutant: an account that is there already is taken for the new one.
CreateOrResetAccount(r) ==
    /\ pc[r] = "free"
    /\ accounts' = With(accounts, email[r], r)
    /\ subject' = [subject EXCEPT ![r] = r]
    /\ Goto(r, "identified")
    /\ UNCHANGED <<tenant, invitations, users, task, about, email, base, before>>

\* _create_idp_user(): the account is there whatever becomes of the request; an
\* e-mail that has one is a 409.
CreateAccount(r) ==
    /\ pc[r] = "free"
    /\ email[r] \notin DOMAIN accounts
    /\ accounts' = With(accounts, email[r], r)
    /\ subject' = [subject EXCEPT ![r] = r]
    /\ Goto(r, "identified")
    /\ UNCHANGED <<tenant, invitations, users, task, about, email, base, before>>

\* accept_invitation_supabase(): a verified identity, with the invited e-mail.
Identify(r) ==
    /\ pc[r] = "authorised" /\ task[r] = "supabase"
    /\ \E s \in Subjects : subject' = [subject EXCEPT ![r] = s]
    /\ Goto(r, "identified")
    /\ UNCHANGED <<tenant, invitations, users, accounts, task, about, email, base, before>>

\* r has inserted its user and not ended.
Added(r) == task[r] \in Joins /\ pc[r] \in {"changed", "fetched", "written"}

AfterUser(r) == IF task[r] = "register" THEN "written" ELSE "changed"

\* Mutant: the checks of _provision_user_from_invitation(), and no unique index.
AddUserUnindexed(r) ==
    /\ pc[r] = "identified"
    /\ \A u \in DOMAIN users : users[u].email # email[r] /\ users[u].subject # subject[r]
    /\ Goto(r, AfterUser(r))
    /\ UNCHANGED <<tenant, invitations, users, accounts, task, about, email, subject, base, before>>

\* The new user; an INSERT waits for a rival's e-mail or subject, and what is
\* refused is in Reject and Fail.  A registration adds its own tenant, too.
AddUser(r) ==
    /\ pc[r] = "identified"
    /\ \A u \in DOMAIN users : users[u].email # email[r] /\ users[u].subject # subject[r]
    /\ \A q \in Requests : Added(q) => email[q] # email[r] /\ subject[q] # subject[r]
    /\ Goto(r, AfterUser(r))
    /\ UNCHANGED <<tenant, invitations, users, accounts, task, about, email, subject, base, before>>

-----------------------------------------------------------------------------
\* revoke_invitation() loads the invitation, which is pending.
Revoke(r) ==
    \E i \in DOMAIN invitations :
        /\ Begin(r, "revoke")
        /\ IsPending(i)
        /\ about' = [about EXCEPT ![r] = i]
        /\ base' = [base EXCEPT ![r] = invitations[i].status]
        /\ Goto(r, "changed")
        /\ UNCHANGED <<tenant, invitations, users, accounts, email, subject>>

\* Mutant: reactivate() does not check.
MayReactivateAny(t) == t = "suspend" => tenant # "ARCHIVED"

\* An archived tenant is neither suspended nor reactivated; it may be archived.
MayDo(t) == t \in {"suspend", "reactivate"} => tenant # "ARCHIVED"

\* suspend_tenant(), reactivate_tenant(), archive_tenant() load the tenant.
ChangeTenant(r) ==
    \E t \in TenantTasks :
        /\ Begin(r, t)
        /\ MayDo(t)
        /\ base' = [base EXCEPT ![r] = tenant]
        /\ Goto(r, "changed")
        /\ UNCHANGED <<tenant, invitations, users, accounts, about, email, subject>>

\* The status each of them gives to its copy.
Target(t) ==
    CASE t \in Accepts -> "ACCEPTED"
      [] t \in Revokes -> "REVOKED"
      [] t = "suspend" -> "SUSPENDED"
      [] t = "reactivate" -> "ACTIVE"
      [] t = "archive" -> "ARCHIVED"

Committed(r) == IF task[r] \in TenantTasks THEN tenant ELSE invitations[about[r]].status

\* update() gets the record again: the one loaded, if the session still has it,
\* or what is committed now.
Fetch(r) ==
    /\ pc[r] = "changed"
    /\ base' \in {base, [base EXCEPT ![r] = Committed(r)]}
    /\ Goto(r, "fetched")
    /\ UNCHANGED <<tenant, invitations, users, accounts, task, about, email, subject, before>>

SameRow(q, r) ==
    IF task[r] \in TenantTasks THEN task[q] \in TenantTasks ELSE about[q] = about[r]

\* The flush waits for another writer of the row.
Write(r) ==
    /\ pc[r] = "fetched"
    /\ \A q \in Requests : ~ (pc[q] = "written" /\ SameRow(q, r))
    /\ Goto(r, "written")
    /\ UNCHANGED <<tenant, invitations, users, accounts, task, about, email, subject, base, before>>

\* The status is in the UPDATE if it differs from the record's.
Merged(r) == IF base[r] = Target(task[r]) THEN Committed(r) ELSE Target(task[r])

CommitTenant(r) ==
    /\ pc[r] = "written" /\ task[r] \in TenantTasks
    /\ tenant' = Merged(r)
    /\ Goto(r, "done")
    /\ UNCHANGED <<invitations, users, accounts, task, about, email, subject, base, before>>

\* A revocation, or the 401 of a redemption that was not authorised.
CommitRevocation(r) ==
    /\ pc[r] = "written" /\ task[r] \in Revokes
    /\ invitations' = [invitations EXCEPT ![about[r]].status = Merged(r)]
    /\ Goto(r, "done")
    /\ UNCHANGED <<tenant, users, accounts, task, about, email, subject, base, before>>

\* The user, and the invitation with it: after the login that follows, and also
\* when that is refused, since its 401 commits.
CommitUser(r) ==
    /\ pc[r] = "written" /\ task[r] \in Joins
    /\ users' = With(users, r, [email |-> email[r], subject |-> subject[r], via |-> about[r]])
    /\ IF task[r] = "register" THEN UNCHANGED invitations
       ELSE invitations' = [invitations EXCEPT ![about[r]].status = Merged(r)]
    /\ Goto(r, "done")
    /\ UNCHANGED <<tenant, accounts, task, about, email, subject, base, before>>

-----------------------------------------------------------------------------
\* 400, 401, 403, 404 and 409, before anything is written.
Reject(r) ==
    /\ \/ Begin(r, None)
       \/ /\ pc[r] \in {"hydrated", "unregistered", "authorised", "free", "identified"}
          /\ UNCHANGED <<task, before>>
    /\ Goto(r, "rejected")
    /\ UNCHANGED <<tenant, invitations, users, accounts, about, email, subject, base>>

\* Any other end: an IntegrityError, an answer of the provider that is lost, a
\* failed commit after the response, a dead process.
Fail(r) ==
    /\ pc[r] \notin Ended \cup {"idle"}
    /\ Goto(r, "failed")
    /\ UNCHANGED <<tenant, invitations, users, accounts, task, about, email, subject, base, before>>

Next == \E r \in Requests :
    \/ Invite(r)
    \/ CheckInvite(r)
    \/ AddInvitation(r)
    \/ CommitInvitation(r)
    \/ Redeem(r)
    \/ CheckAuthority(r)
    \/ CheckEmail(r)
    \/ CreateAccount(r)
    \/ Identify(r)
    \/ AddUser(r)
    \/ Revoke(r)
    \/ ChangeTenant(r)
    \/ Fetch(r)
    \/ Write(r)
    \/ CommitTenant(r)
    \/ CommitRevocation(r)
    \/ CommitUser(r)
    \/ Reject(r)
    \/ Fail(r)

Spec == Init /\ [][Next]_vars

-----------------------------------------------------------------------------
Joined(i) == {u \in DOMAIN users : users[u].via = i}
Revokers(i) == {r \in Requests : task[r] \in Revokes /\ about[r] = i /\ pc[r] = "done"}

\* An invitation admits one user at most, though each acceptance writes back a copy
\* that says PENDING; its status is the doing of a request that committed; and it
\* is both accepted and revoked only by requests that overlapped.  (Then the
\* status is that of the one that wrote last, and the user stays.)
InvitationsAdmitOnce ==
    \A i \in DOMAIN invitations :
        /\ invitations[i].status = "PENDING" => Joined(i) = {} /\ Revokers(i) = {}
        /\ invitations[i].status = "ACCEPTED" => Joined(i) # {}
        /\ invitations[i].status = "REVOKED" => Revokers(i) # {}
        /\ \A u, v \in Joined(i) : u = v
        /\ \A u \in Joined(i), r \in Revokers(i) : u \notin before[r] /\ r \notin before[u]

\* "a suspended/archived tenant locks out": no invitation is issued and nobody is
\* admitted, unless the request had begun before a suspension or an archiving ended.
ClosedTenantAdmitsNobody ==
    [][\A r \in Requests :
        /\ pc[r] # "done" /\ pc'[r] = "done"
        /\ task[r] \in Accepts \cup {"invite"}
        /\ tenant # "ACTIVE"
        => \E c \in Requests : /\ task[c] \in {"suspend", "archive"} /\ pc[c] = "done"
                               /\ c \notin before[r]]_vars

\* "one-way out of ARCHIVED": only a suspension or a reactivation that loaded the
\* tenant before an archiving ended can bring it back.
ArchivedIsTerminal ==
    [][tenant = "ARCHIVED" /\ tenant' # "ARCHIVED" =>
        \E r, a \in Requests :
            /\ pc[r] = "written" /\ pc'[r] = "done"
            /\ task[a] = "archive" /\ pc[a] = "done" /\ a \notin before[r]]_vars

\* A user who came by Keycloak has the account of the e-mail, made by the same
\* request; an account with no user was left by a request that did not commit,
\* and then nobody of that e-mail ever comes by Keycloak.
AccountsBackUsers ==
    /\ \A u \in DOMAIN users : users[u].subject \notin Subjects =>
           /\ users[u].email \in DOMAIN accounts
           /\ accounts[users[u].email] = users[u].subject
    /\ \A e \in DOMAIN accounts : pc[accounts[e]] = "done" => accounts[e] \in DOMAIN users
===============================================================================
