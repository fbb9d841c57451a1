---------------------------- MODULE RefreshSessions ----------------------------
(***************************************************************************)
(* The sessions of one user: login, refresh-token rotation, replay          *)
(* detection and logout, by concurrent requests and in any order of tokens. *)
(*                                                                         *)
(* A request is one transaction.  It sees what is committed, its UPDATEs    *)
(* keep their rows locked until it ends, and the refresh token of a login   *)
(* or a rotation is answered before the session it belongs to is committed. *)
(* A client may present any token it was ever given: a lost answer, a      *)
(* second tab, a retry and a theft all look alike.                          *)
(***************************************************************************)
EXTENDS Naturals

CONSTANTS
    Old,        \* sessions of earlier days
    Requests,   \* requests; a session and its token are named after their request
    User,       \* the row of the user
    None        \* no session

\* Session ids are UUIDs, which are ordered.
ASSUME IdAssumption ==
    /\ Old \subseteq Nat /\ Requests \subseteq Nat /\ Old \cap Requests = {}
    /\ User \notin Nat /\ None \notin Nat

VARIABLES
    rows,       \* committed sessions
    answered,   \* the tokens clients have been given
    pc,         \* where a request is
    task,       \* what it turned out to do
    token,      \* the token it was sent
    victims,    \* sessions it has still to write as REVOKED
    wrote,      \* rows it has written and not committed: it holds their locks
    before      \* the requests that had ended when it began

vars == <<rows, answered, pc, task, token, victims, wrote, before>>

Sessions == Old \cup Requests
Ended == {"done", "rejected", "failed"}
PCs == {"idle", "replay", "updating", "issued", "answered"} \cup Ended
Tasks == {"login", "rotate", "revoke", "replay", "logout"}

ASSUME NoTaskAssumption == None \notin Tasks

TypeOK ==
    /\ DOMAIN rows \subseteq Sessions
    /\ rows \in [DOMAIN rows -> [status : {"ACTIVE", "REVOKED"},
                                 rotated_from : Sessions \cup {None}]]
    /\ answered \subseteq Sessions
    /\ pc \in [Requests -> PCs]
    /\ task \in [Requests -> Tasks \cup {None}]
    /\ token \in [Requests -> Sessions \cup {None}]
    /\ victims \in [Requests -> SUBSET Sessions]
    /\ wrote \in [Requests -> SUBSET (Sessions \cup {User})]
    /\ before \in [Requests -> SUBSET Requests]

Init ==
    /\ rows \in [Old -> [status : {"ACTIVE", "REVOKED"}, rotated_from : {None}]]
    /\ answered = Old
    /\ pc = [r \in Requests |-> "idle"]
    /\ task = [r \in Requests |-> None]
    /\ token = [r \in Requests |-> None]
    /\ victims = [r \in Requests |-> {}]
    /\ wrote = [r \in Requests |-> {}]
    /\ before = [r \in Requests |-> {}]

Goto(r, label) == pc' = [pc EXCEPT ![r] = label]
Is(r, t) == task' = [task EXCEPT ![r] = t]
Active == {s \in DOMAIN rows : rows[s].status = "ACTIVE"}
Free(r, row) == \A q \in Requests \ {r} : row \notin wrote[q]
Begin(r) ==
    /\ pc[r] = "idle"
    /\ before' = [before EXCEPT ![r] = {q \in Requests : pc[q] \in Ended}]

-----------------------------------------------------------------------------
\* login_local(), past the checks of the password, the user and the tenant.
Login(r) ==
    /\ Begin(r)
    /\ Is(r, "login")
    /\ Goto(r, "updating")
    /\ UNCHANGED <<rows, answered, token, victims, wrote>>

\* Mutant: the status is not looked at, expiry and the provider decide.
LoadUnchecked(r, t) ==
    \/ /\ t \notin DOMAIN rows
       /\ Goto(r, "rejected")
       /\ UNCHANGED <<task, victims>>
    \/ /\ t \in DOMAIN rows
       /\ Is(r, "rotate") \/ Is(r, "revoke")
       /\ victims' = [victims EXCEPT ![r] = {t}]
       /\ Goto(r, "updating")

\* refresh(): a token nobody has stored is refused; one that is REVOKED is a
\* replay; one that is ACTIVE is revoked, either to be rotated or because it has
\* expired, the user is inactive or the identity provider refuses.
Load(r, t) ==
    \/ /\ t \notin DOMAIN rows
       /\ Goto(r, "rejected")
       /\ UNCHANGED <<task, victims>>
    \/ /\ t \in DOMAIN rows \ Active
       /\ Is(r, "replay")
       /\ Goto(r, "replay")
       /\ UNCHANGED victims
    \/ /\ t \in Active
       /\ Is(r, "rotate") \/ Is(r, "revoke")
       /\ victims' = [victims EXCEPT ![r] = {t}]
       /\ Goto(r, "updating")

Refresh(r) ==
    /\ Begin(r)
    /\ \E t \in answered : token' = [token EXCEPT ![r] = t] /\ Load(r, t)
    /\ UNCHANGED <<rows, answered, wrote>>

\* logout(): a session that is not ACTIVE is left as it is.
Logout(r) ==
    /\ Begin(r)
    /\ Is(r, "logout")
    /\ \E t \in answered :
        /\ token' = [token EXCEPT ![r] = t]
        /\ victims' = [victims EXCEPT ![r] = {t} \cap Active]
    /\ Goto(r, "updating")
    /\ UNCHANGED <<rows, answered, wrote>>

\* Mutant: the sessions rotated from the replayed one, and no other.
SelectActiveOfToken(r) ==
    /\ pc[r] = "replay"
    /\ victims' = [victims EXCEPT ![r] = {s \in Active : rows[s].rotated_from = token[r]}]
    /\ Goto(r, "updating")
    /\ UNCHANGED <<rows, answered, task, token, wrote, before>>

\* revoke_all_active_for_user() selects what is committed and ACTIVE now.
SelectActive(r) ==
    /\ pc[r] = "replay"
    /\ victims' = [victims EXCEPT ![r] = Active]
    /\ Goto(r, "updating")
    /\ UNCHANGED <<rows, answered, task, token, wrote, before>>

\* Mutant: the rows are written in the order the SELECT returned them.
NextVictimAny(r) == victims[r]

\* The flush writes its rows in the order of their keys.
NextVictim(r) == {s \in victims[r] : \A o \in victims[r] : s <= o}

\* The UPDATE of one session, which waits while another transaction has it.
UpdateSession(r) ==
    /\ pc[r] = "updating"
    /\ \E s \in NextVictim(r) :
        /\ Free(r, s)
        /\ wrote' = [wrote EXCEPT ![r] = @ \cup {s}]
        /\ victims' = [victims EXCEPT ![r] = @ \ {s}]
    /\ UNCHANGED <<rows, answered, pc, task, token, before>>

Issues(r) == task[r] \in {"login", "rotate"}

\* _issue_tokens(): the new session is flushed, unseen by others, and the user's
\* last login is stamped, which waits for the row of the user.
Issue(r) ==
    /\ pc[r] = "updating" /\ victims[r] = {} /\ Issues(r)
    /\ Free(r, User)
    /\ wrote' = [wrote EXCEPT ![r] = @ \cup {User}]
    /\ Goto(r, "issued")
    /\ UNCHANGED <<rows, answered, task, token, victims, before>>

\* users.update() finds another version and raises, which is only logged.
IssueUnstamped(r) ==
    /\ pc[r] = "updating" /\ victims[r] = {} /\ Issues(r)
    /\ Goto(r, "issued")
    /\ UNCHANGED <<rows, answered, task, token, victims, wrote, before>>

\* The audit row and the response, both before the commit.
Answer(r) ==
    /\ pc[r] = "issued"
    /\ answered' = answered \cup {r}
    /\ Goto(r, "answered")
    /\ UNCHANGED <<rows, task, token, victims, wrote, before>>

\* Revoked, those of s' rows that r has written.
Revoked(r) ==
    [s \in DOMAIN rows |-> IF s \in wrote[r] THEN [rows[s] EXCEPT !.status = "REVOKED"]
                                             ELSE rows[s]]

\* The transaction that issued a token ends: its session appears, the one it was
\* rotated from is revoked.
CommitIssued(r) ==
    /\ pc[r] = "answered"
    /\ rows' = [s \in DOMAIN rows \cup {r} |->
                    IF s = r THEN [status |-> "ACTIVE", rotated_from |-> token[r]]
                             ELSE Revoked(r)[s]]
    /\ wrote' = [wrote EXCEPT ![r] = {}]
    /\ Goto(r, "done")
    /\ UNCHANGED <<answered, task, token, victims, before>>

\* Mutant: the 401 rolls the revocations back, as any other exception does.
CommitLogoutsOnly(r) ==
    /\ pc[r] = "updating" /\ victims[r] = {} /\ ~ Issues(r)
    /\ rows' = IF task[r] = "logout" THEN Revoked(r) ELSE rows
    /\ wrote' = [wrote EXCEPT ![r] = {}]
    /\ Goto(r, "done")
    /\ UNCHANGED <<answered, task, token, victims, before>>

\* A logout, or a 401: an HTTPException commits, then the request is refused.
CommitRevoked(r) ==
    /\ pc[r] = "updating" /\ victims[r] = {} /\ ~ Issues(r)
    /\ rows' = Revoked(r)
    /\ wrote' = [wrote EXCEPT ![r] = {}]
    /\ Goto(r, "done")
    /\ UNCHANGED <<answered, task, token, victims, before>>

\* A wrong password, a missing token.
Reject(r) ==
    /\ Begin(r)
    /\ Goto(r, "rejected")
    /\ UNCHANGED <<rows, answered, task, token, victims, wrote>>

\* Any other end, also after the answer: a lost connection, a failed commit.
\* What it wrote is gone, and so is what it was about.
Fail(r) ==
    /\ pc[r] \notin Ended \cup {"idle"}
    /\ task' = [task EXCEPT ![r] = None]
    /\ token' = [token EXCEPT ![r] = None]
    /\ victims' = [victims EXCEPT ![r] = {}]
    /\ wrote' = [wrote EXCEPT ![r] = {}]
    /\ before' = [before EXCEPT ![r] = {}]
    /\ Goto(r, "failed")
    /\ UNCHANGED <<rows, answered>>

\* What the process does by itself once a request has begun.
Progress(r) ==
    \/ SelectActive(r)
    \/ UpdateSession(r)
    \/ Issue(r)
    \/ Answer(r)
    \/ CommitIssued(r)
    \/ CommitRevoked(r)

Next == \E r \in Requests :
    \/ Login(r)
    \/ Refresh(r)
    \/ Logout(r)
    \/ Progress(r)
    \/ IssueUnstamped(r)
    \/ Reject(r)
    \/ Fail(r)

\* A running handler goes on: nobody need send a request, and none need fail.
Spec == Init /\ [][Next]_vars /\ \A r \in Requests : WF_vars(Progress(r))

-----------------------------------------------------------------------------
\* "session rotated on /refresh": whenever a session is there, the one it was
\* rotated from is revoked, and two were rotated from one token only by requests
\* that overlapped, none of which could see the other's revocation.
RotationsAreSingle ==
    \A s \in DOMAIN rows \ Old : rows[s].rotated_from # None =>
        /\ rows[rows[s].rotated_from].status = "REVOKED"
        /\ \A o \in DOMAIN rows \ (Old \cup {s}) :
               rows[o].rotated_from = rows[s].rotated_from =>
                   s \notin before[o] /\ o \notin before[s]

\* A replay "revokes every other ACTIVE session for the user": once its 401 is
\* out, no session issued by a request that had ended when it began is alive,
\* and a refresh refused or a logout has ended the session it was about.
\* (A session whose issuing request is still to commit survives.)
RevocationsHold ==
    \A r \in Requests : pc[r] = "done" /\ ~ Issues(r) =>
        /\ task[r] = "replay" => Active \cap (Old \cup before[r]) = {}
        /\ token[r] \in (Old \cup before[r]) => token[r] \notin Active

\* Sessions are locked in the order of their ids and the user after them: no
\* request waits for ever, and there comes a time when none is under way.
EveryRequestEnds == <>[](\A r \in Requests : pc[r] \in Ended \cup {"idle"})
===============================================================================
