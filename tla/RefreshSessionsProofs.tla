------------------------- MODULE RefreshSessionsProofs -------------------------
(***************************************************************************)
(* Proofs about RefreshSessions, for any sessions and any requests: types,  *)
(* that rotations from one token overlap, that revocations hold, and that   *)
(* the requests never all wait for each other's locks.                      *)
(***************************************************************************)
EXTENDS RefreshSessions, FiniteSetTheorems, TLAPS

\* Where a request is says what it is about, what it has written and what it
\* has still to write; what it counts as earlier has ended.
PhaseOf(r) ==
    /\ pc[r] = "idle" => task[r] = None /\ token[r] = None
    /\ pc[r] \in {"idle", "replay"} \cup Ended => wrote[r] = {}
    /\ pc[r] # "updating" => victims[r] = {}
    /\ pc[r] = "replay" => task[r] = "replay"
    /\ pc[r] \in {"issued", "answered"} => Issues(r)
    /\ pc[r] \in {"updating", "done"} => task[r] \in Tasks
    /\ task[r] = "login" => token[r] = None
    /\ task[r] = "rotate" => token[r] \in DOMAIN rows
    /\ task[r] = "rotate" /\ pc[r] \in {"updating", "issued", "answered"} =>
           token[r] \in victims[r] \cup wrote[r]
    /\ victims[r] \subseteq DOMAIN rows
    /\ wrote[r] \subseteq DOMAIN rows \cup {User}
    /\ \A q \in before[r] : pc[q] \in Ended

PhaseInv == \A r \in Requests : PhaseOf(r)

\* A session not of earlier days is there because the request that issued it has
\* committed, and with it the revocation of the one it was rotated from.
RowsInv ==
    \A s \in DOMAIN rows \ Old :
        /\ pc[s] = "done" /\ Issues(s)
        /\ rows[s].rotated_from = token[s]
        /\ token[s] # None => token[s] \in DOMAIN rows /\ rows[token[s]].status = "REVOKED"

\* A rotation sees the revocation by every earlier rotation from its token.
SeparateInv ==
    \A r \in Requests : task[r] = "rotate" =>
        \A s \in before[r] \cap DOMAIN rows : rows[s].rotated_from # token[r]

Earlier(r) == Old \cup before[r]

\* What a request is about to end is among what it writes, or is ended already.
RevokeInv ==
    \A r \in Requests :
        /\ pc[r] = "updating" /\ task[r] = "replay" =>
               Active \cap Earlier(r) \subseteq victims[r] \cup wrote[r]
        /\ pc[r] = "updating" /\ task[r] \in {"revoke", "logout"} =>
               Active \cap Earlier(r) \cap {token[r]} \subseteq victims[r] \cup wrote[r]
        /\ pc[r] = "done" /\ task[r] = "replay" => Active \cap Earlier(r) = {}
        /\ pc[r] = "done" /\ task[r] \in {"revoke", "logout"} =>
               Active \cap Earlier(r) \cap {token[r]} = {}

SessionInv == TypeOK /\ PhaseInv /\ RowsInv /\ SeparateInv /\ RevokeInv

-----------------------------------------------------------------------------
\* The program starts with the invariant.
LEMMA InitInv == Init => SessionInv
<1> SUFFICES ASSUME Init PROVE SessionInv
    OBVIOUS
<1>1. TypeOK
    BY DEF Init, TypeOK, Sessions, PCs
<1>2. \A r \in Requests : pc[r] = "idle" /\ task[r] = None /\ token[r] = None
                           /\ victims[r] = {} /\ wrote[r] = {} /\ before[r] = {}
    BY DEF Init
<1>3. None \notin {"rotate", "login", "replay"}
    BY NoTaskAssumption DEF Tasks
<1>4. PhaseInv /\ SeparateInv /\ RevokeInv
    BY <1>2, <1>3 DEF PhaseInv, PhaseOf, Ended, SeparateInv, RevokeInv
<1>5. RowsInv
    BY DEF Init, RowsInv
<1> QED BY <1>1, <1>4, <1>5 DEF SessionInv

\* No commit brings a session back, changes its origin or removes it; a new one
\* is that of the request that commits.
LEMMA SessionStep ==
    ASSUME SessionInv, [Next]_vars
    PROVE  /\ DOMAIN rows \subseteq DOMAIN rows'
           /\ \A s \in DOMAIN rows :
                 /\ rows'[s].rotated_from = rows[s].rotated_from
                 /\ rows[s].status = "REVOKED" => rows'[s].status = "REVOKED"
           /\ \A s \in DOMAIN rows' \ DOMAIN rows : pc[s] = "answered" /\ CommitIssued(s)
           /\ Active' \subseteq Active \cup {s \in Requests : pc[s] = "answered"}
<1> DEFINE Goal == /\ DOMAIN rows \subseteq DOMAIN rows'
                   /\ \A s \in DOMAIN rows :
                         /\ rows'[s].rotated_from = rows[s].rotated_from
                         /\ rows[s].status = "REVOKED" => rows'[s].status = "REVOKED"
                   /\ \A s \in DOMAIN rows' \ DOMAIN rows : pc[s] = "answered" /\ CommitIssued(s)
                   /\ Active' \subseteq Active \cup {s \in Requests : pc[s] = "answered"}
<1>1. CASE rows' = rows
    BY <1>1 DEF Active
<1>2. ASSUME NEW r \in Requests, CommitIssued(r) PROVE Goal
    <2>1. r \notin DOMAIN rows
        BY <1>2, IdAssumption DEF CommitIssued, SessionInv, RowsInv
    <2>2. /\ DOMAIN rows' = DOMAIN rows \cup {r}
          /\ \A s \in DOMAIN rows : rows'[s] = Revoked(r)[s]
        BY <1>2, <2>1 DEF CommitIssued
    <2>3. \A s \in DOMAIN rows :
              /\ Revoked(r)[s].rotated_from = rows[s].rotated_from
              /\ Revoked(r)[s].status \in {rows[s].status, "REVOKED"}
        BY DEF Revoked, SessionInv, TypeOK
    <2>4. pc[r] = "answered"
        BY <1>2 DEF CommitIssued
    <2>5. \A s \in DOMAIN rows' \ DOMAIN rows : s = r
        BY <2>2
    <2>6. \A s \in Active' : s \in Active \cup {r}
        BY <2>2, <2>3 DEF Active
    <2> QED BY <1>2, <2>2, <2>3, <2>4, <2>5, <2>6
<1>3. ASSUME NEW r \in Requests, CommitRevoked(r) PROVE Goal
    <2>1. rows' = Revoked(r)
        BY <1>3 DEF CommitRevoked
    <2>2. DOMAIN Revoked(r) = DOMAIN rows
        BY DEF Revoked
    <2>3. \A s \in DOMAIN rows :
              /\ Revoked(r)[s].rotated_from = rows[s].rotated_from
              /\ Revoked(r)[s].status \in {rows[s].status, "REVOKED"}
        BY DEF Revoked, SessionInv, TypeOK
    <2> QED BY <2>1, <2>2, <2>3 DEF Active
<1>4. ASSUME NEW r \in Requests,
             \/ Login(r) \/ Refresh(r) \/ Logout(r) \/ SelectActive(r) \/ UpdateSession(r)
             \/ Issue(r) \/ IssueUnstamped(r) \/ Answer(r) \/ Reject(r) \/ Fail(r)
      PROVE  rows' = rows
    BY <1>4 DEF Login, Refresh, Logout, SelectActive, UpdateSession, Issue, IssueUnstamped,
                Answer, Reject, Fail
<1>5. CASE UNCHANGED vars
    BY <1>1, <1>5 DEF vars
<1> QED BY <1>1, <1>2, <1>3, <1>4, <1>5, Zenon DEF Next, Progress

\* A commit writes what its request has written as REVOKED.
LEMMA WrittenIsRevoked ==
    ASSUME SessionInv, NEW r \in Requests, CommitIssued(r) \/ CommitRevoked(r),
           NEW s \in wrote[r], s \in DOMAIN rows
    PROVE  s \in DOMAIN rows' /\ rows'[s].status = "REVOKED"
<1>1. Revoked(r)[s].status = "REVOKED" /\ DOMAIN Revoked(r) = DOMAIN rows
    BY DEF Revoked, SessionInv, TypeOK
<1>2. CASE CommitRevoked(r)
    BY <1>1, <1>2 DEF CommitRevoked
<1>3. CASE CommitIssued(r)
    <2>1. s # r
        BY <1>3, IdAssumption DEF CommitIssued, SessionInv, RowsInv
    <2> QED BY <1>1, <1>3, <2>1 DEF CommitIssued
<1> QED BY <1>2, <1>3

\* Every step keeps the types.
LEMMA TypeStep == ASSUME SessionInv, [Next]_vars PROVE TypeOK'
<1> USE DEF SessionInv, TypeOK, PCs, Ended, Tasks, Goto, Is, Begin, Sessions
<1>1. ASSUME NEW r \in Requests, Login(r) PROVE TypeOK'
    BY <1>1 DEF Login
<1>2. ASSUME NEW r \in Requests, Refresh(r) PROVE TypeOK'
    <2>1. PICK t \in answered : token' = [token EXCEPT ![r] = t] /\ Load(r, t)
        BY <1>2 DEF Refresh
    <2>2. token' \in [Requests -> Sessions \cup {None}]
        BY <2>1
    <2>3. /\ pc' \in [Requests -> PCs] /\ task' \in [Requests -> Tasks \cup {None}]
          /\ victims' \in [Requests -> SUBSET Sessions]
        <3>1. CASE t \notin DOMAIN rows
            BY <1>2, <2>1, <3>1 DEF Load, Refresh, Active
        <3>2. CASE t \in DOMAIN rows \ Active
            BY <1>2, <2>1, <3>2 DEF Load, Refresh, Active
        <3>3. CASE t \in Active
            <4>1. t \in DOMAIN rows
                BY <3>3 DEF Active
            <4>2. /\ task' = [task EXCEPT ![r] = "rotate"] \/ task' = [task EXCEPT ![r] = "revoke"]
                  /\ victims' = [victims EXCEPT ![r] = {t}]
                  /\ pc' = [pc EXCEPT ![r] = "updating"]
                BY <2>1, <3>3, <4>1 DEF Load
            <4> QED BY <4>1, <4>2
        <3> QED BY <3>1, <3>2, <3>3
    <2>4. UNCHANGED <<rows, answered, wrote>> /\ before' \in [Requests -> SUBSET Requests]
        BY <1>2 DEF Refresh
    <2> QED BY <2>2, <2>3, <2>4
<1>3. ASSUME NEW r \in Requests, Logout(r) PROVE TypeOK'
    BY <1>3 DEF Logout, Active
<1>4. ASSUME NEW r \in Requests, SelectActive(r) PROVE TypeOK'
    BY <1>4 DEF SelectActive, Active
<1>5. ASSUME NEW r \in Requests, UpdateSession(r) PROVE TypeOK'
    BY <1>5 DEF UpdateSession, NextVictim
<1>6. ASSUME NEW r \in Requests, Issue(r) PROVE TypeOK'
    BY <1>6 DEF Issue
<1>7. ASSUME NEW r \in Requests, IssueUnstamped(r) PROVE TypeOK'
    BY <1>7 DEF IssueUnstamped
<1>8. ASSUME NEW r \in Requests, Answer(r) PROVE TypeOK'
    BY <1>8 DEF Answer
<1>9. ASSUME NEW r \in Requests, CommitIssued(r) PROVE TypeOK'
    <2> DEFINE Row == [status : {"ACTIVE", "REVOKED"}, rotated_from : Sessions \cup {None}]
    <2>1. Revoked(r) \in [DOMAIN rows -> Row]
        BY DEF Revoked
    <2>2. [status |-> "ACTIVE", rotated_from |-> token[r]] \in Row
        OBVIOUS
    <2>3. rows' \in [DOMAIN rows \cup {r} -> Row]
        BY <1>9, <2>1, <2>2 DEF CommitIssued
    <2> QED BY <1>9, <2>3 DEF CommitIssued
<1>10. ASSUME NEW r \in Requests, CommitRevoked(r) PROVE TypeOK'
    BY <1>10 DEF CommitRevoked, Revoked
<1>11. ASSUME NEW r \in Requests, Reject(r) PROVE TypeOK'
    BY <1>11 DEF Reject
<1>12. ASSUME NEW r \in Requests, Fail(r) PROVE TypeOK'
    BY <1>12 DEF Fail
<1>13. CASE UNCHANGED vars
    BY <1>13 DEF vars
<1> QED BY <1>1, <1>2, <1>3, <1>4, <1>5, <1>6, <1>7, <1>8, <1>9, <1>10, <1>11, <1>12, <1>13
        DEF Next, Progress

\* One step of one request.
Act(r) ==
    \/ Login(r) \/ Refresh(r) \/ Logout(r) \/ SelectActive(r) \/ UpdateSession(r)
    \/ Issue(r) \/ IssueUnstamped(r) \/ Answer(r) \/ CommitIssued(r) \/ CommitRevoked(r)
    \/ Reject(r) \/ Fail(r)

Same(q) ==
    /\ pc'[q] = pc[q] /\ task'[q] = task[q] /\ token'[q] = token[q]
    /\ victims'[q] = victims[q] /\ wrote'[q] = wrote[q] /\ before'[q] = before[q]

\* A request that has ended takes no step, and no request moves another.
LEMMA Frame ==
    ASSUME SessionInv, NEW r \in Requests, Act(r)
    PROVE  pc[r] \notin Ended /\ \A q \in Requests : q # r => Same(q)
<1> USE DEF SessionInv, TypeOK, Goto, Is, Begin, Same, Ended
<1>1. CASE Login(r)
    BY <1>1 DEF Login
<1>2. CASE Refresh(r)
    <2>1. PICK t \in answered : token' = [token EXCEPT ![r] = t] /\ Load(r, t)
        BY <1>2 DEF Refresh
    <2>2. pc[r] = "idle" /\ before' = [before EXCEPT ![r] = {q \in Requests : pc[q] \in Ended}]
          /\ wrote' = wrote
        BY <1>2 DEF Refresh
    <2>3. \A q \in Requests : q # r =>
              pc'[q] = pc[q] /\ task'[q] = task[q] /\ victims'[q] = victims[q]
        BY <2>1 DEF Load
    <2> QED BY <2>1, <2>2, <2>3
<1>3. CASE Logout(r)
    BY <1>3 DEF Logout
<1>4. CASE SelectActive(r)
    BY <1>4 DEF SelectActive
<1>5. CASE UpdateSession(r)
    BY <1>5 DEF UpdateSession
<1>6. CASE Issue(r)
    BY <1>6 DEF Issue
<1>7. CASE IssueUnstamped(r)
    BY <1>7 DEF IssueUnstamped
<1>8. CASE Answer(r)
    BY <1>8 DEF Answer
<1>9. CASE CommitIssued(r)
    BY <1>9 DEF CommitIssued
<1>10. CASE CommitRevoked(r)
    BY <1>10 DEF CommitRevoked
<1>11. CASE Reject(r)
    BY <1>11 DEF Reject
<1>12. CASE Fail(r)
    BY <1>12 DEF Fail
<1> QED BY <1>1, <1>2, <1>3, <1>4, <1>5, <1>6, <1>7, <1>8, <1>9, <1>10, <1>11, <1>12 DEF Act

\* What a refresh finds of its token.
LEMMA Loaded ==
    ASSUME SessionInv, NEW r \in Requests, Refresh(r)
    PROVE  /\ pc[r] = "idle" /\ rows' = rows /\ wrote'[r] = {}
           /\ before'[r] = {q \in Requests : pc[q] \in Ended}
           /\ \/ pc'[r] = "rejected" /\ task'[r] = None /\ victims'[r] = {}
              \/ pc'[r] = "replay" /\ task'[r] = "replay" /\ victims'[r] = {}
              \/ /\ pc'[r] = "updating" /\ task'[r] \in {"rotate", "revoke"}
                 /\ token'[r] \in Active /\ victims'[r] = {token'[r]}
<1> USE DEF SessionInv, TypeOK, Goto, Is, Begin
<1>1. PICK t \in answered : token' = [token EXCEPT ![r] = t] /\ Load(r, t)
    BY DEF Refresh
<1>2. pc[r] = "idle" /\ before' = [before EXCEPT ![r] = {q \in Requests : pc[q] \in Ended}]
      /\ wrote' = wrote /\ rows' = rows
    BY DEF Refresh
<1>3. task[r] = None /\ victims[r] = {} /\ wrote[r] = {}
    BY <1>2 DEF PhaseInv, PhaseOf
<1>4. token'[r] = t
    BY <1>1
<1>5. CASE t \notin DOMAIN rows
    BY <1>1, <1>2, <1>3, <1>5 DEF Load, Active
<1>6. CASE t \in DOMAIN rows \ Active
    BY <1>1, <1>2, <1>3, <1>6 DEF Load
<1>7. CASE t \in Active
    BY <1>1, <1>2, <1>3, <1>4, <1>7 DEF Load
<1> QED BY <1>2, <1>3, <1>5, <1>6, <1>7

\* A request goes through its points in order.
LEMMA PhaseStep ==
    ASSUME SessionInv, NEW r \in Requests, Act(r), DOMAIN rows \subseteq DOMAIN rows'
    PROVE  PhaseInv'
<1>f. pc[r] \notin Ended /\ \A q \in Requests : q # r => Same(q)
    BY Frame
<1>e. \A q \in Requests : pc[q] \in Ended => pc'[q] \in Ended
    BY <1>f DEF Same
<1>p. PhaseOf(r)
    BY DEF SessionInv, PhaseInv
<1>b. \A q \in before[r] : pc'[q] \in Ended
    BY <1>p, <1>e DEF PhaseOf, SessionInv, TypeOK
<1>n. None \notin Tasks
    BY NoTaskAssumption
<1>q. ASSUME NEW q \in Requests, q # r PROVE PhaseOf(q)'
    <2>1. PhaseOf(q)
        BY DEF SessionInv, PhaseInv
    <2>2. Same(q)
        BY <1>f, <1>q
    <2>3. \A o \in before[q] : pc'[o] \in Ended
        BY <2>1, <1>e DEF PhaseOf, SessionInv, TypeOK
    <2> QED BY <2>1, <2>2, <2>3 DEF PhaseOf, Same, Issues
<1>r. PhaseOf(r)'
    <2> USE DEF SessionInv, TypeOK, Goto, Is, Ended, Issues, Tasks
    <2>1. CASE Login(r)
        <3>1. \A q \in before'[r] : pc'[q] \in Ended
            BY <2>1, <1>e DEF Login, Begin
        <3> QED BY <2>1, <1>p, <1>n, <3>1 DEF Login, Begin, PhaseOf
    <2>2. CASE Refresh(r)
        <3>1. \A q \in before'[r] : pc'[q] \in Ended
            BY <2>2, <1>e, Loaded
        <3>2. Active \subseteq DOMAIN rows
            BY DEF Active
        <3> HIDE DEF SessionInv
        <3> QED BY <2>2, <1>n, <3>1, <3>2, Loaded DEF PhaseOf
    <2>3. CASE Logout(r)
        <3>1. \A q \in before'[r] : pc'[q] \in Ended
            BY <2>3, <1>e DEF Logout, Begin
        <3> QED BY <2>3, <1>p, <1>n, <3>1 DEF Logout, Begin, PhaseOf, Active
    <2>4. CASE SelectActive(r)
        BY <2>4, <1>p, <1>b DEF SelectActive, PhaseOf, Active
    <2>5. CASE UpdateSession(r)
        BY <2>5, <1>p, <1>b DEF UpdateSession, NextVictim, PhaseOf
    <2>6. CASE Issue(r)
        BY <2>6, <1>p, <1>b DEF Issue, PhaseOf
    <2>7. CASE IssueUnstamped(r)
        BY <2>7, <1>p, <1>b DEF IssueUnstamped, PhaseOf
    <2>8. CASE Answer(r)
        BY <2>8, <1>p, <1>b DEF Answer, PhaseOf
    <2>9. CASE CommitIssued(r)
        BY <2>9, <1>p, <1>b DEF CommitIssued, PhaseOf
    <2>10. CASE CommitRevoked(r)
        BY <2>10, <1>p, <1>b DEF CommitRevoked, PhaseOf
    <2>11. CASE Reject(r)
        <3>1. \A q \in before'[r] : pc'[q] \in Ended
            BY <2>11, <1>e DEF Reject, Begin
        <3> QED BY <2>11, <1>p, <1>n, <3>1 DEF Reject, Begin, PhaseOf
    <2>12. CASE Fail(r)
        BY <2>12, <1>p, <1>n DEF Fail, PhaseOf
    <2> QED BY <2>1, <2>2, <2>3, <2>4, <2>5, <2>6, <2>7, <2>8, <2>9, <2>10, <2>11, <2>12 DEF Act
<1> QED BY <1>q, <1>r DEF PhaseInv

\* A new session comes with the revocation of the one it was rotated from, and
\* neither is undone.
LEMMA RowsStep ==
    ASSUME SessionInv, [Next]_vars, NEW r \in Requests, Act(r)
    PROVE  RowsInv'
<1>s. /\ DOMAIN rows \subseteq DOMAIN rows'
      /\ \A s \in DOMAIN rows :
             /\ rows'[s].rotated_from = rows[s].rotated_from
             /\ rows[s].status = "REVOKED" => rows'[s].status = "REVOKED"
      /\ \A s \in DOMAIN rows' \ DOMAIN rows : pc[s] = "answered" /\ CommitIssued(s)
    BY SessionStep
<1>f. pc[r] \notin Ended /\ \A q \in Requests : q # r => Same(q)
    BY Frame
<1> SUFFICES ASSUME NEW s \in DOMAIN rows' \ Old
             PROVE  /\ pc'[s] = "done" /\ Issues(s)'
                    /\ rows'[s].rotated_from = token'[s]
                    /\ token'[s] # None =>
                           token'[s] \in DOMAIN rows' /\ rows'[token'[s]].status = "REVOKED"
    BY DEF RowsInv
<1>1. CASE s \in DOMAIN rows
    <2>1. s \in Requests /\ pc[s] = "done"
        BY <1>1 DEF SessionInv, RowsInv, TypeOK, Sessions
    <2>2. Same(s)
        BY <2>1, <1>f DEF Ended
    <2> QED BY <1>1, <1>s, <2>2 DEF SessionInv, RowsInv, Same, Issues
<1>2. CASE s \notin DOMAIN rows
    <2>1. CommitIssued(s) /\ pc[s] = "answered"
        BY <1>2, <1>s
    <2>2. s \in Requests
        BY <2>1, <1>2, TypeStep DEF TypeOK, Sessions
    <2>3. PhaseOf(s)
        BY <2>2 DEF SessionInv, PhaseInv
    <2>4. Issues(s)' /\ pc'[s] = "done" /\ token' = token /\ rows'[s].rotated_from = token'[s]
        BY <2>1, <2>2, <2>3 DEF CommitIssued, PhaseOf, Issues, Goto, SessionInv, TypeOK
    <2>5. token[s] # None => token[s] \in wrote[s] /\ token[s] \in DOMAIN rows
        BY <2>1, <2>3 DEF PhaseOf, Issues
    <2> QED BY <2>1, <2>2, <2>4, <2>5, WrittenIsRevoked
<1> QED BY <1>1, <1>2

\* No rotation begins from a token that an ended one was rotated from.
LEMMA SeparateStep ==
    ASSUME SessionInv, [Next]_vars, NEW r \in Requests, Act(r)
    PROVE  SeparateInv'
<1>s. /\ \A s \in DOMAIN rows : rows'[s].rotated_from = rows[s].rotated_from
      /\ \A s \in DOMAIN rows' \ DOMAIN rows : pc[s] = "answered" /\ CommitIssued(s)
    BY SessionStep
<1>f. pc[r] \notin Ended /\ \A q \in Requests : q # r => Same(q)
    BY Frame
<1> SUFFICES ASSUME NEW q \in Requests, task'[q] = "rotate",
                    NEW s \in before'[q], s \in DOMAIN rows'
             PROVE  rows'[s].rotated_from # token'[q]
    BY DEF SeparateInv
<1>1. CASE task[q] = "rotate" /\ before'[q] = before[q] /\ token'[q] = token[q]
    <2>1. pc[s] \in Ended
        BY <1>1 DEF SessionInv, PhaseInv, PhaseOf
    <2>2. s \in DOMAIN rows
        BY <2>1, <1>s DEF Ended
    <2> QED BY <1>1, <1>s, <2>2 DEF SessionInv, SeparateInv
<1>2. CASE Refresh(r) /\ q = r
    <2>1. before'[r] = {o \in Requests : pc[o] \in Ended} /\ rows' = rows
        BY <1>2, Loaded
    <2>2. token'[r] \in Active
        BY <1>2, Loaded, NoTaskAssumption DEF Tasks
    <2>3. s \in Requests /\ s \notin Old
        BY <1>2, <2>1, IdAssumption
    <2>4. rows[s].rotated_from = token[s]
          /\ (token[s] # None => rows[token[s]].status = "REVOKED")
        BY <2>1, <2>3 DEF SessionInv, RowsInv
    <2>5. token'[r] # None
        BY <2>2, IdAssumption DEF Active, SessionInv, TypeOK, Sessions
    <2> QED BY <1>2, <2>1, <2>2, <2>4, <2>5 DEF Active
<1>3. CASE q # r
    BY <1>1, <1>3, <1>f DEF Same
<1>4. CASE q = r /\ ~ Refresh(r)
    <2> USE DEF SessionInv, TypeOK, Goto, Is
    <2>1. CASE Login(r)
        BY <1>4, <2>1 DEF Login
    <2>3. CASE Logout(r)
        BY <1>4, <2>3 DEF Logout
    <2>4. CASE SelectActive(r)
        BY <1>1, <1>4, <2>4 DEF SelectActive
    <2>5. CASE UpdateSession(r)
        BY <1>1, <1>4, <2>5 DEF UpdateSession
    <2>6. CASE Issue(r)
        BY <1>1, <1>4, <2>6 DEF Issue
    <2>7. CASE IssueUnstamped(r)
        BY <1>1, <1>4, <2>7 DEF IssueUnstamped
    <2>8. CASE Answer(r)
        BY <1>1, <1>4, <2>8 DEF Answer
    <2>9. CASE CommitIssued(r)
        BY <1>1, <1>4, <2>9 DEF CommitIssued
    <2>10. CASE CommitRevoked(r)
        BY <1>1, <1>4, <2>10 DEF CommitRevoked
    <2>11. CASE Reject(r)
        BY <1>4, <2>11, NoTaskAssumption DEF Reject, Begin, PhaseInv, PhaseOf, Tasks
    <2>12. CASE Fail(r)
        BY <1>4, <2>12, NoTaskAssumption DEF Fail, Tasks
    <2> QED BY <1>4, <2>1, <2>3, <2>4, <2>5, <2>6, <2>7, <2>8, <2>9, <2>10, <2>11, <2>12 DEF Act
<1> QED BY <1>2, <1>3, <1>4

\* What a request is to end it has written when it commits, and nobody else
\* brings it back.
LEMMA RevokeStep ==
    ASSUME SessionInv, [Next]_vars, NEW r \in Requests, Act(r)
    PROVE  RevokeInv'
<1> DEFINE Left(q) == Active \cap Earlier(q)
           Done(q) == victims[q] \cup wrote[q]
<1>a. Active' \subseteq Active \cup {s \in Requests : pc[s] = "answered"}
    BY SessionStep
<1>f. pc[r] \notin Ended /\ \A q \in Requests : q # r => Same(q)
    BY Frame
<1>l. \A q \in Requests : before'[q] = before[q] => Left(q)' \subseteq Left(q)
    <2> SUFFICES ASSUME NEW q \in Requests, before'[q] = before[q], NEW s \in Left(q)'
                 PROVE  s \in Left(q)
        BY Zenon
    <2>1. s \in Active' /\ s \in Earlier(q)
        BY DEF Earlier
    <2>2. s \in before[q] => pc[s] # "answered"
        BY DEF SessionInv, PhaseInv, PhaseOf, Ended
    <2>3. s \in Old => s \notin Requests
        BY IdAssumption
    <2> QED BY <2>1, <2>2, <2>3, <1>a DEF Earlier
<1>q. ASSUME NEW q \in Requests,
             \/ q # r
             \/ q = r /\ (SelectActive(r) \/ UpdateSession(r) \/ CommitRevoked(r) \/ Refresh(r) \/ Logout(r))
             \/ pc'[q] \notin {"updating", "done"}
             \/ task'[q] \notin {"replay", "revoke", "logout"}
      PROVE  /\ pc'[q] = "updating" /\ task'[q] = "replay" => Left(q)' \subseteq Done(q)'
             /\ pc'[q] = "updating" /\ task'[q] \in {"revoke", "logout"} =>
                    Left(q)' \cap {token'[q]} \subseteq Done(q)'
             /\ pc'[q] = "done" /\ task'[q] = "replay" => Left(q)' = {}
             /\ pc'[q] = "done" /\ task'[q] \in {"revoke", "logout"} =>
                    Left(q)' \cap {token'[q]} = {}
    <2>i. /\ pc[q] = "updating" /\ task[q] = "replay" => Left(q) \subseteq Done(q)
          /\ pc[q] = "updating" /\ task[q] \in {"revoke", "logout"} =>
                 Left(q) \cap {token[q]} \subseteq Done(q)
          /\ pc[q] = "done" /\ task[q] = "replay" => Left(q) = {}
          /\ pc[q] = "done" /\ task[q] \in {"revoke", "logout"} => Left(q) \cap {token[q]} = {}
        BY DEF SessionInv, RevokeInv
    <2>1. CASE q # r
        <3>1. Same(q)
            BY <1>f, <2>1
        <3>2. Left(q)' \subseteq Left(q) /\ Done(q)' = Done(q)
            BY <1>l, <3>1 DEF Same
        <3> HIDE DEF Left, Done
        <3> QED BY <2>i, <3>1, <3>2 DEF Same
    <2>2. CASE q = r /\ SelectActive(r)
        <3>1. pc'[r] = "updating" /\ task'[r] = task[r] /\ task[r] = "replay"
              /\ victims'[r] = Active /\ rows' = rows /\ before' = before
            BY <2>2 DEF SelectActive, SessionInv, TypeOK, PhaseInv, PhaseOf, Goto
        <3>2. Left(r)' \subseteq Active
            BY <3>1 DEF Active, Earlier
        <3> QED BY <2>2, <3>1, <3>2
    <2>3. CASE q = r /\ UpdateSession(r)
        <3>1. pc'[r] = "updating" /\ pc[r] = "updating"
              /\ UNCHANGED <<rows, task, token, before>>
            BY <2>3 DEF UpdateSession
        <3>2. Done(r) \subseteq Done(r)'
            BY <2>3 DEF UpdateSession, SessionInv, TypeOK
        <3>3. Left(r)' \subseteq Left(r)
            BY <1>l, <3>1
        <3> HIDE DEF Left, Done
        <3> QED BY <2>i, <2>3, <3>1, <3>2, <3>3
    <2>4. CASE q = r /\ CommitRevoked(r)
        <3>1. /\ pc[r] = "updating" /\ pc'[r] = "done" /\ victims[r] = {}
              /\ UNCHANGED <<task, token, before>>
            BY <2>4 DEF CommitRevoked, Goto, SessionInv, TypeOK
        <3>2. Left(r)' \subseteq Left(r)
            BY <1>l, <3>1
        <3>3. wrote[r] \cap Left(r)' = {}
            <4> SUFFICES ASSUME NEW s \in wrote[r], s \in Active' PROVE FALSE
                OBVIOUS
            <4>1. s \in DOMAIN rows'
                BY DEF Active
            <4>2. DOMAIN rows' = DOMAIN rows
                BY <2>4 DEF CommitRevoked, Revoked
            <4>3. rows'[s].status = "REVOKED"
                BY <2>4, <4>1, <4>2, WrittenIsRevoked
            <4> QED BY <4>3 DEF Active
        <3>4. Done(r) = wrote[r]
            BY <3>1
        <3> HIDE DEF Left, Done
        <3> QED BY <2>i, <2>4, <3>1, <3>2, <3>3, <3>4
    <2>5. CASE q = r /\ Refresh(r)
        <3>1. \/ pc'[r] \in {"rejected", "replay"}
              \/ pc'[r] = "updating" /\ task'[r] \in {"rotate", "revoke"} /\ victims'[r] = {token'[r]}
            BY <2>5, Loaded
        <3> QED BY <2>5, <3>1
    <2>6. CASE q = r /\ Logout(r)
        <3>1. PICK t \in answered : token' = [token EXCEPT ![r] = t]
                                    /\ victims' = [victims EXCEPT ![r] = {t} \cap Active]
            BY <2>6 DEF Logout
        <3>2. pc'[r] = "updating" /\ task'[r] = "logout" /\ rows' = rows
            BY <2>6 DEF Logout, Goto, Is, SessionInv, TypeOK
        <3>3. token'[r] = t /\ victims'[r] = {t} \cap Active /\ Active' = Active
            BY <3>1, <3>2 DEF SessionInv, TypeOK, Active
        <3> QED BY <2>6, <3>2, <3>3
    <2>7. CASE pc'[q] \notin {"updating", "done"}
        BY <2>7
    <2>8. CASE task'[q] \notin {"replay", "revoke", "logout"}
        BY <2>8
    <2> QED BY <1>q, <2>1, <2>2, <2>3, <2>4, <2>5, <2>6, <2>7, <2>8
<1>r. \/ SelectActive(r) \/ UpdateSession(r) \/ CommitRevoked(r) \/ Refresh(r) \/ Logout(r)
      \/ pc'[r] \notin {"updating", "done"}
      \/ task'[r] \notin {"replay", "revoke", "logout"}
    <2> USE DEF SessionInv, TypeOK, Goto, Is
    <2>1. CASE Login(r)
        BY <2>1 DEF Login
    <2>2. CASE Issue(r) \/ IssueUnstamped(r)
        BY <2>2 DEF Issue, IssueUnstamped
    <2>3. CASE Answer(r)
        BY <2>3 DEF Answer
    <2>4. CASE CommitIssued(r)
        BY <2>4 DEF CommitIssued, PhaseInv, PhaseOf, Issues
    <2>5. CASE Reject(r)
        BY <2>5 DEF Reject
    <2>6. CASE Fail(r)
        BY <2>6 DEF Fail
    <2> QED BY <2>1, <2>2, <2>3, <2>4, <2>5, <2>6 DEF Act
<1> HIDE DEF Left, Done
<1>g. \A q \in Requests :
             /\ pc'[q] = "updating" /\ task'[q] = "replay" => Left(q)' \subseteq Done(q)'
             /\ pc'[q] = "updating" /\ task'[q] \in {"revoke", "logout"} =>
                    Left(q)' \cap {token'[q]} \subseteq Done(q)'
             /\ pc'[q] = "done" /\ task'[q] = "replay" => Left(q)' = {}
             /\ pc'[q] = "done" /\ task'[q] \in {"revoke", "logout"} =>
                    Left(q)' \cap {token'[q]} = {}
    BY <1>q, <1>r
<1> QED BY <1>g DEF RevokeInv, Left, Done

-----------------------------------------------------------------------------
\* Every step keeps the invariant.
LEMMA InvStep == SessionInv /\ [Next]_vars => SessionInv'
<1> SUFFICES ASSUME SessionInv, [Next]_vars PROVE SessionInv'
    OBVIOUS
<1>1. CASE UNCHANGED vars
    BY <1>1 DEF vars, SessionInv, TypeOK, PhaseInv, PhaseOf, RowsInv, SeparateInv, RevokeInv,
                Issues, Active, Earlier
<1>2. ASSUME NEW r \in Requests, Act(r) PROVE SessionInv'
    <2>1. DOMAIN rows \subseteq DOMAIN rows'
        BY SessionStep
    <2> QED BY <1>2, <2>1, TypeStep, PhaseStep, RowsStep, SeparateStep, RevokeStep DEF SessionInv
<1>3. Next => \E r \in Requests : Act(r)
    BY Zenon DEF Next, Progress, Act
<1> QED BY <1>1, <1>2, <1>3

\* The invariant holds throughout, for any sessions and requests.
THEOREM InvariantHolds == Spec => []SessionInv
<1>1. Init => SessionInv
    BY InitInv
<1>2. SessionInv /\ [Next]_vars => SessionInv'
    BY InvStep
<1> QED BY <1>1, <1>2, PTL DEF Spec

\* Types: what a request is about to write as REVOKED are sessions that exist.
THEOREM TypeCorrect == Spec => []TypeOK
<1>1. SessionInv => TypeOK
    BY DEF SessionInv
<1> QED BY <1>1, InvariantHolds, PTL

\* refresh() revokes the session it rotates in the transaction that adds the new
\* one, and refuses a token that is not ACTIVE: two sessions come from one token
\* only when neither request had ended when the other read it.
THEOREM RotationsAlwaysSingle == Spec => []RotationsAreSingle
<1>1. ASSUME SessionInv PROVE RotationsAreSingle
    <2> SUFFICES ASSUME NEW s \in DOMAIN rows \ Old, rows[s].rotated_from # None
                 PROVE  /\ rows[rows[s].rotated_from].status = "REVOKED"
                        /\ \A o \in DOMAIN rows \ (Old \cup {s}) :
                               rows[o].rotated_from = rows[s].rotated_from =>
                                   s \notin before[o] /\ o \notin before[s]
        BY DEF RotationsAreSingle
    <2>1. rows[s].rotated_from = token[s] /\ rows[token[s]].status = "REVOKED"
        BY <1>1 DEF SessionInv, RowsInv
    <2>2. ASSUME NEW o \in DOMAIN rows \ Old, token[o] # None
          PROVE  o \in Requests /\ task[o] = "rotate" /\ rows[o].rotated_from = token[o]
        BY <1>1, <2>2 DEF SessionInv, TypeOK, Sessions, RowsInv, PhaseInv, PhaseOf, Issues
    <2>3. ASSUME NEW o \in DOMAIN rows \ (Old \cup {s}), rows[o].rotated_from = rows[s].rotated_from
          PROVE  s \notin before[o] /\ o \notin before[s]
        <3>1. token[s] # None /\ token[o] = token[s]
            BY <1>1, <2>1, <2>3 DEF SessionInv, RowsInv
        <3>2. s \in Requests /\ task[s] = "rotate" /\ o \in Requests /\ task[o] = "rotate"
            BY <2>2, <3>1
        <3> QED BY <1>1, <2>1, <2>3, <3>1, <3>2 DEF SessionInv, SeparateInv
    <2> QED BY <2>1, <2>3
<1> QED BY <1>1, InvariantHolds, PTL

\* The 401 of a replay commits the revocation of every session its query could
\* see, that of a refused refresh and the answer of a logout that of their own.
THEOREM RevocationsAlwaysHold == Spec => []RevocationsHold
<1>1. ASSUME SessionInv PROVE RevocationsHold
    <2> SUFFICES ASSUME NEW r \in Requests, pc[r] = "done", ~ Issues(r)
                 PROVE  /\ task[r] = "replay" => Active \cap (Old \cup before[r]) = {}
                        /\ token[r] \in (Old \cup before[r]) => token[r] \notin Active
        BY DEF RevocationsHold
    <2>1. task[r] \in {"revoke", "replay", "logout"}
        BY <1>1 DEF SessionInv, PhaseInv, PhaseOf, Tasks, Issues
    <2>2. task[r] = "replay" => Active \cap Earlier(r) = {}
        BY <1>1 DEF SessionInv, RevokeInv
    <2>3. task[r] \in {"revoke", "logout"} => Active \cap Earlier(r) \cap {token[r]} = {}
        BY <1>1 DEF SessionInv, RevokeInv
    <2> QED BY <2>1, <2>2, <2>3 DEF Earlier
<1> QED BY <1>1, InvariantHolds, PTL

-----------------------------------------------------------------------------
\* The rows a request has to lock next, and whom it waits for.
Needs(r) ==
    {row \in NextVictim(r) \cup {User} :
        /\ pc[r] = "updating"
        /\ row = User => victims[r] = {} /\ Issues(r)}

WaitsFor(r, q) == q # r /\ Needs(r) \cap wrote[q] # {}

\* Whoever are waiting, one of them waits for none of the others.
NoDeadlock ==
    \A S \in SUBSET Requests : S # {} /\ IsFiniteSet(S) =>
        \E r \in S : \A q \in S : ~ WaitsFor(r, q)

\* What a request has locked is before all it has still to lock, and the row of
\* the user it locks last.
LockOrder ==
    \A r \in Requests : pc[r] = "updating" =>
        /\ User \notin wrote[r]
        /\ \A s \in wrote[r], v \in victims[r] : s < v

\* The locks keep their order.
LEMMA LockStep == ASSUME SessionInv, LockOrder, [Next]_vars PROVE LockOrder'
<1>1. CASE UNCHANGED vars
    BY <1>1 DEF vars, LockOrder
<1>2. ASSUME NEW r \in Requests, Act(r) PROVE LockOrder'
    <2>1. \A q \in Requests : q # r => Same(q)
        BY <1>2, Frame
    <2>2. PhaseOf(r)
        BY DEF SessionInv, PhaseInv
    <2>3. ASSUME pc'[r] = "updating"
          PROVE  User \notin wrote'[r] /\ \A s \in wrote'[r], v \in victims'[r] : s < v
        <3> USE DEF SessionInv, TypeOK, Goto, Is, Ended
        <3>1. CASE wrote'[r] = {}
            BY <3>1
        <3>2. CASE UpdateSession(r)
            <4>1. PICK s \in NextVictim(r) :
                      /\ wrote' = [wrote EXCEPT ![r] = @ \cup {s}]
                      /\ victims' = [victims EXCEPT ![r] = @ \ {s}]
                BY <3>2 DEF UpdateSession
            <4>2. s \in victims[r] /\ \A o \in victims[r] : s <= o
                BY DEF NextVictim
            <4>3. victims[r] \subseteq Nat /\ User \notin Nat
                BY IdAssumption DEF Sessions
            <4>4. User \notin wrote[r] /\ \A w \in wrote[r], v \in victims[r] : w < v
                BY <3>2 DEF UpdateSession, LockOrder
            <4>5. wrote'[r] = wrote[r] \cup {s} /\ victims'[r] = victims[r] \ {s}
                BY <4>1
            <4>6. \A v \in victims[r] \ {s} : s < v
                BY <4>2, <4>3
            <4> HIDE DEF SessionInv, TypeOK
            <4> QED BY <4>2, <4>3, <4>4, <4>5, <4>6
        <3>3. CASE ~ UpdateSession(r)
            <4>1. Login(r) \/ Logout(r) \/ SelectActive(r) \/ Refresh(r)
                BY <1>2, <2>3, <3>3 DEF Act, Issue, IssueUnstamped, Answer, CommitIssued,
                   CommitRevoked, Reject, Fail
            <4>2. pc[r] \in {"idle", "replay"} /\ wrote' = wrote
                BY <4>1 DEF Login, Logout, SelectActive, Refresh, Begin
            <4> QED BY <2>2, <3>1, <4>2 DEF PhaseOf
        <3> QED BY <3>2, <3>3
    <2> QED BY <2>1, <2>3 DEF LockOrder, Same
<1>3. Next => \E r \in Requests : Act(r)
    BY Zenon DEF Next, Progress, Act
<1> QED BY <1>1, <1>2, <1>3

\* A session that q has locked and r needs is before the one that q needs.
LEMMA WaitsAscend ==
    ASSUME SessionInv, LockOrder, NEW S \in SUBSET Requests,
           \A r \in S : \E q \in S : WaitsFor(r, q),
           NEW r \in S
    PROVE  /\ NextVictim(r) \in SUBSET Nat /\ NextVictim(r) # {}
           /\ \A v, w \in NextVictim(r) : v = w
           /\ \E q \in S : \A v \in NextVictim(r), w \in NextVictim(q) : v < w
<1>1. ASSUME NEW q \in S
      PROVE  /\ pc[q] = "updating" /\ NextVictim(q) \subseteq victims[q] /\ User \notin wrote[q]
             /\ victims[q] \subseteq Nat
    <2>1. pc[q] = "updating"
        BY DEF WaitsFor, Needs
    <2> QED BY <2>1, IdAssumption DEF LockOrder, NextVictim, SessionInv, TypeOK, Sessions
<1>2. PICK q \in S : WaitsFor(r, q)
    OBVIOUS
<1>3. PICK v \in NextVictim(r) : v \in wrote[q]
    BY <1>1, <1>2 DEF WaitsFor, Needs
<1>4. \A a, b \in NextVictim(r) : a = b
    BY <1>1 DEF NextVictim
<1>5. \A w \in NextVictim(q) : v < w
    BY <1>1, <1>3 DEF LockOrder
<1>6. \A a \in NextVictim(r), w \in NextVictim(q) : a < w
    BY <1>3, <1>4, <1>5
<1>7. NextVictim(r) \in SUBSET Nat
    BY <1>1
<1> QED BY <1>3, <1>4, <1>6, <1>7

\* Were each to wait for another of a finite set, the session that another needs
\* would be later each time; but the one that fewest are later than has none later.
LEMMA OneIsFree ==
    ASSUME SessionInv, LockOrder, NEW S \in SUBSET Requests, S # {}, IsFiniteSet(S)
    PROVE  \E r \in S : \A q \in S : ~ WaitsFor(r, q)
<1> SUFFICES ASSUME \A r \in S : \E q \in S : WaitsFor(r, q)
             PROVE  FALSE
    OBVIOUS
<1> DEFINE Later(r) == {q \in S : \A v \in NextVictim(r), w \in NextVictim(q) : v < w}
           Counts == {Cardinality(Later(r)) : r \in S}
<1>1. \A r \in S : IsFiniteSet(Later(r)) /\ Cardinality(Later(r)) \in Nat
    <2> SUFFICES ASSUME NEW r \in S PROVE IsFiniteSet(Later(r)) /\ Cardinality(Later(r)) \in Nat
        OBVIOUS
    <2>1. Later(r) \in SUBSET S
        OBVIOUS
    <2> HIDE DEF Later
    <2> QED BY <2>1, FS_Subset, FS_CardinalityType
<1>2. PICK r \in S : \A q \in S : ~ (Cardinality(Later(q)) < Cardinality(Later(r)))
    <2>1. Counts \subseteq Nat /\ Counts # {}
        BY <1>1
    <2>2. PICK n \in Counts : \A m \in Counts : <<m, n>> \notin OpToRel(<, Nat)
        BY <2>1, NatLessThanWellFounded, WFMin
    <2>3. \A m \in Counts : ~ (m < n)
        BY <2>1, <2>2 DEF OpToRel
    <2> QED BY <2>3
<1>3. PICK q \in S : \A v \in NextVictim(r), w \in NextVictim(q) : v < w
    BY WaitsAscend
<1>4. \A p \in S : NextVictim(p) \in SUBSET Nat /\ NextVictim(p) # {}
    BY WaitsAscend
<1>5. Later(q) \in SUBSET Later(r)
    BY <1>3, <1>4
<1>6. q \in Later(r) /\ q \notin Later(q)
    BY <1>3, <1>4
<1> HIDE DEF Later
<1>7. Cardinality(Later(q)) <= Cardinality(Later(r)) /\ Cardinality(Later(q)) # Cardinality(Later(r))
    BY <1>1, <1>5, <1>6, FS_Subset
<1> QED BY <1>1, <1>2, <1>7

\* A flush writes its sessions in the order of their ids and the user's row comes
\* after them, so the requests of a user never all wait for each other's locks.
THEOREM RequestsNeverDeadlock == Spec => []NoDeadlock
<1>1. Init => LockOrder
    BY DEF Init, LockOrder
<1>2. SessionInv /\ LockOrder /\ [Next]_vars => LockOrder'
    BY LockStep
<1>3. SessionInv /\ LockOrder => NoDeadlock
    BY OneIsFree DEF NoDeadlock
<1> QED BY <1>1, <1>2, <1>3, InvariantHolds, PTL DEF Spec

-----------------------------------------------------------------------------
\* How many steps a request has left at most.
StepsLeft(r) ==
    CASE pc[r] = "idle" -> 5 + Cardinality(Sessions)
      [] pc[r] = "replay" -> 4 + Cardinality(Sessions)
      [] pc[r] = "updating" -> 3 + Cardinality(victims[r])
      [] pc[r] = "issued" -> 2
      [] pc[r] = "answered" -> 1
      [] OTHER -> 0

\* A step of a request is one less for it, and changes nothing for the others.
StepsCount ==
    \E r \in Requests : /\ StepsLeft(r)' < StepsLeft(r)
                        /\ \A q \in Requests \ {r} : StepsLeft(q)' = StepsLeft(q)

\* Finitely many sessions have finite sets of victims.
LEMMA Counted ==
    ASSUME IsFiniteSet(Sessions), NEW part \in SUBSET Sessions
    PROVE  /\ IsFiniteSet(part) /\ Cardinality(part) \in 0..Cardinality(Sessions)
           /\ Cardinality(Sessions) \in Nat
BY FS_Subset, FS_CardinalityType

\* The points a request goes through are ordered, and a write is one victim less.
LEMMA StepSpends ==
    ASSUME IsFiniteSet(Sessions), SessionInv, [Next]_vars, NEW r \in Requests, Act(r)
    PROVE  StepsLeft(r)' < StepsLeft(r)
<1>1. /\ victims[r] \in SUBSET Sessions /\ victims'[r] \in SUBSET Sessions
      /\ pc \in [Requests -> PCs] /\ victims \in [Requests -> SUBSET Sessions]
    BY TypeStep DEF SessionInv, TypeOK
<1>2. /\ Cardinality(victims[r]) \in 0..Cardinality(Sessions)
      /\ Cardinality(victims'[r]) \in 0..Cardinality(Sessions)
      /\ Cardinality(Sessions) \in Nat
    BY <1>1, Counted
<1>3. CASE UpdateSession(r)
    <2>1. PICK s \in victims[r] : victims' = [victims EXCEPT ![r] = @ \ {s}]
        BY <1>3 DEF UpdateSession, NextVictim
    <2>2. Cardinality(victims'[r]) = Cardinality(victims[r]) - 1
        BY <1>1, <2>1, Counted, FS_RemoveElement
    <2>3. pc[r] = "updating" /\ pc'[r] = "updating"
        BY <1>3 DEF UpdateSession
    <2> QED BY <1>2, <2>2, <2>3 DEF StepsLeft
<1>4. CASE ~ UpdateSession(r)
    <2>1. \/ pc[r] = "idle" /\ pc'[r] \in {"replay", "updating", "rejected"}
          \/ pc[r] = "replay" /\ pc'[r] \in {"updating", "failed"}
          \/ pc[r] = "updating" /\ pc'[r] \in {"issued", "done", "failed"}
          \/ pc[r] = "issued" /\ pc'[r] \in {"answered", "failed"}
          \/ pc[r] = "answered" /\ pc'[r] \in {"done", "failed"}
        <3>1. CASE Refresh(r)
            BY <3>1, Loaded
        <3>2. CASE Fail(r)
            BY <1>1, <3>2 DEF Fail, Goto, Ended, PCs
        <3>3. CASE ~ Refresh(r) /\ ~ Fail(r)
            BY <1>1, <1>4, <3>3 DEF Act, Login, Logout, SelectActive, Issue, IssueUnstamped,
               Answer, CommitIssued, CommitRevoked, Reject, Begin, Goto
        <3> QED BY <3>1, <3>2, <3>3
    <2>2. /\ pc'[r] = "replay" => StepsLeft(r)' = 4 + Cardinality(Sessions)
          /\ pc'[r] = "updating" => StepsLeft(r)' <= 3 + Cardinality(Sessions)
          /\ pc'[r] = "issued" => StepsLeft(r)' = 2
          /\ pc'[r] = "answered" => StepsLeft(r)' = 1
          /\ pc'[r] \in {"done", "rejected", "failed"} => StepsLeft(r)' = 0
          /\ StepsLeft(r)' \in Nat
        BY <1>2, <2>1 DEF StepsLeft
    <2>3. /\ pc[r] = "idle" => StepsLeft(r) = 5 + Cardinality(Sessions)
          /\ pc[r] = "replay" => StepsLeft(r) = 4 + Cardinality(Sessions)
          /\ pc[r] = "updating" => StepsLeft(r) \in Nat /\ StepsLeft(r) >= 3
          /\ pc[r] = "issued" => StepsLeft(r) = 2
          /\ pc[r] = "answered" => StepsLeft(r) = 1
        BY <1>2 DEF StepsLeft
    <2> QED BY <1>2, <2>1, <2>2, <2>3
<1> QED BY <1>3, <1>4

\* No request goes on for ever: of finitely many sessions a replay writes each once.
THEOREM RequestsAreBounded ==
    IsFiniteSet(Sessions) =>
        (Spec => [](\A r \in Requests : StepsLeft(r) \in Nat) /\ [][StepsCount]_vars)
<1> SUFFICES ASSUME IsFiniteSet(Sessions)
             PROVE  Spec => [](\A r \in Requests : StepsLeft(r) \in Nat) /\ [][StepsCount]_vars
    OBVIOUS
<1>1. SessionInv => \A r \in Requests : StepsLeft(r) \in Nat
    <2> SUFFICES ASSUME SessionInv, NEW r \in Requests PROVE StepsLeft(r) \in Nat
        OBVIOUS
    <2>1. Cardinality(victims[r]) \in Nat /\ Cardinality(Sessions) \in Nat
        BY Counted DEF SessionInv, TypeOK
    <2> QED BY <2>1 DEF StepsLeft
<1>2. SessionInv /\ [Next]_vars => [StepsCount]_vars
    <2> SUFFICES ASSUME SessionInv, Next PROVE StepsCount
        OBVIOUS
    <2>1. PICK r \in Requests : Act(r)
        BY Zenon DEF Next, Progress, Act
    <2>2. \A q \in Requests \ {r} : StepsLeft(q)' = StepsLeft(q)
        BY <2>1, Frame DEF Same, StepsLeft
    <2> QED BY <2>1, <2>2, StepSpends DEF StepsCount
<1> QED BY <1>1, <1>2, InvariantHolds, PTL DEF Spec

===============================================================================
