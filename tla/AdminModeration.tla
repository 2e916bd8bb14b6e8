-------------------------- MODULE AdminModeration --------------------------
(* The admin operations on accounts (PATCH /user/{id}/permissions, /suspend,
   /ban) as concurrent requests over PostgreSQL READ COMMITTED.  A request

     authenticates     an unlocked read of the actor's row, then the gates
     locks the target  SELECT ... FOR UPDATE, and computes before and after
     flushes           UPDATE target, INSERT audit row; the foreign key of
                       actor_user_id takes FOR KEY SHARE on the actor's row
     commits           both writes become visible, the locks are released
     reloads           refresh of both objects in a new transaction

   Any database call may raise; the session is rolled back.  A wait-for cycle
   is broken by PostgreSQL, which aborts one member.                       *)
EXTENDS Naturals, Sequences, FiniteSets

CONSTANTS
    Users,          \* rows of the users table (never deleted)
    NoUser,         \* an id that no row has
    Ids,            \* the ids in the request URLs
    Requests,       \* the requests that ever arrive, each served once
    Bodies,         \* request bodies: requested column values (days for a suspension)
    InitialUsers,   \* the users tables the run starts from
    Unverified,     \* the rows without is_verified at the start
    MaxNow          \* bound of the clock, in days

Permissions == {"can_manage_user", "can_write_post"}
Fields == Permissions \cup {"is_banned", "suspended_until"}

(* exclude_none makes a permission body a partial function; the other two
   endpoints take exactly one value, days = 0 lifting a suspension. *)
LegalBody(b) ==
    \/ DOMAIN b \subseteq Permissions /\ \A f \in DOMAIN b : b[f] \in BOOLEAN
    \/ DOMAIN b = {"is_banned"} /\ b["is_banned"] \in BOOLEAN
    \/ DOMAIN b = {"suspended_until"} /\ b["suspended_until"] \in Nat

(* suspended_until is a day number; 0 stands for NULL. *)
LegalRow(row) ==
    /\ DOMAIN row = Fields
    /\ \A f \in Fields \ {"suspended_until"} : row[f] \in BOOLEAN
    /\ row["suspended_until"] \in Nat

ASSUME ModerationAssumption ==
    /\ NoUser \notin Users
    /\ Ids \subseteq Users \cup {NoUser}
    /\ \A b \in Bodies : LegalBody(b)
    /\ \A t \in InitialUsers : DOMAIN t = Users /\ \A u \in Users : LegalRow(t[u])
    /\ MaxNow \in Nat

VARIABLES
    users,      \* committed audited columns of every row
    logs,       \* committed rows of admin_audit_logs, in commit order
    verified,   \* rows with is_verified
    now,        \* the clock
    pc,         \* where each request is
    actor,      \* current_user.id of a request that passed the gates
    target,     \* the id in its URL
    body,       \* its parsed body
    before,     \* before_data, read under the row lock
    after,      \* after_data, the values about to be written
    origin,     \* history: users at the start
    since       \* history: Len(logs) when the request read its actor's row

vars == <<users, logs, verified, now, pc, actor, target, body, before, after,
          origin, since>>
local == <<actor, target, body, since>>

Answered == {"refused", "ok", "failed"}
Stages == {"idle", "gated", "locked", "flushed", "committed"} \cup Answered

NoData == [f \in {} |-> 0]

ActionOf(b) ==
    IF DOMAIN b = {"is_banned"} THEN "user.ban.update"
    ELSE IF DOMAIN b = {"suspended_until"} THEN "user.suspension.update"
    ELSE "user.permissions.update"

Init ==
    /\ users \in InitialUsers
    /\ origin = users
    /\ logs = <<>>
    /\ verified = Users \ Unverified
    /\ now = 1
    /\ pc = [r \in Requests |-> "idle"]
    /\ actor = [r \in Requests |-> NoUser]
    /\ target = [r \in Requests |-> NoUser]
    /\ body = [r \in Requests |-> NoData]
    /\ before = [r \in Requests |-> NoData]
    /\ after = [r \in Requests |-> NoData]
    /\ since = [r \in Requests |-> 0]

-----------------------------------------------------------------------------
(* Row locks.  FOR UPDATE is held from the locked read to the end of the
   transaction, FOR KEY SHARE of the foreign key from the flush on. *)
HoldsWithoutRollback(r, u) ==
    pc[r] \in {"locked", "flushed", "failed"} /\ target[r] = u
HoldsForUpdate(r, u) == pc[r] \in {"locked", "flushed"} /\ target[r] = u
HoldsKeyShare(r, u)  == pc[r] = "flushed" /\ actor[r] = u

(* FOR UPDATE conflicts with every other lock, FOR KEY SHARE only with it. *)
PlainSelectGranted(r, u) == TRUE
ForUpdateGranted(r, u) ==
    \A s \in Requests \ {r} : ~HoldsForUpdate(s, u) /\ ~HoldsKeyShare(s, u)
KeyShareGranted(r, u) ==
    \A s \in Requests \ {r} : ~HoldsForUpdate(s, u)

(* is_suspended, get_active_user and require_permission("can_manage_user"). *)
IsSuspended(row) == row["suspended_until"] > now
MayManageWhileBanned(u) ==
    u \in verified /\ ~IsSuspended(users[u]) /\ users[u]["can_manage_user"]
MayManage(u) ==
    /\ u \in verified
    /\ ~users[u]["is_banned"]
    /\ ~IsSuspended(users[u])
    /\ users[u]["can_manage_user"]

NewValue(f, v) == IF f = "suspended_until" /\ v # 0 THEN now + v ELSE v

-----------------------------------------------------------------------------
AuthenticateAllowingSelf(r) ==
    /\ pc[r] = "idle"
    /\ \E a \in Users, t \in Ids, b \in Bodies :
         /\ MayManage(a)
         /\ actor' = [actor EXCEPT ![r] = a]
         /\ target' = [target EXCEPT ![r] = t]
         /\ body' = [body EXCEPT ![r] = b]
    /\ pc' = [pc EXCEPT ![r] = "gated"]
    /\ since' = [since EXCEPT ![r] = Len(logs)]
    /\ UNCHANGED <<users, logs, verified, now, before, after, origin>>

Authenticate(r) ==
    /\ pc[r] = "idle"
    /\ \E a \in Users, t \in Ids, b \in Bodies :
         /\ MayManage(a)
         /\ t # a                       \* "cannot change your own permissions"
         /\ actor' = [actor EXCEPT ![r] = a]
         /\ target' = [target EXCEPT ![r] = t]
         /\ body' = [body EXCEPT ![r] = b]
    /\ pc' = [pc EXCEPT ![r] = "gated"]
    /\ since' = [since EXCEPT ![r] = Len(logs)]
    /\ UNCHANGED <<users, logs, verified, now, before, after, origin>>

(* A gate closes (401, 403) or the actor targets itself (400). *)
Refuse(r) ==
    /\ pc[r] = "idle"
    /\ \E a \in Users, t \in Ids : ~MayManage(a) \/ t = a
    /\ pc' = [pc EXCEPT ![r] = "refused"]
    /\ UNCHANGED <<users, logs, verified, now, before, after, origin, local>>

LockTarget(r) ==
    /\ pc[r] = "gated"
    /\ target[r] \in Users
    /\ ForUpdateGranted(r, target[r])
    /\ before' = [before EXCEPT ![r] = [f \in DOMAIN body[r] |-> users[target[r]][f]]]
    /\ after' = [after EXCEPT ![r] = [f \in DOMAIN body[r] |-> NewValue(f, body[r][f])]]
    /\ pc' = [pc EXCEPT ![r] = "locked"]
    /\ UNCHANGED <<users, logs, verified, now, origin, local>>

NotFound(r) ==
    /\ pc[r] = "gated"
    /\ target[r] \notin Users
    /\ pc' = [pc EXCEPT ![r] = "refused"]
    /\ UNCHANGED <<users, logs, verified, now, before, after, origin, local>>

Flush(r) ==
    /\ pc[r] = "locked"
    /\ KeyShareGranted(r, actor[r])
    /\ pc' = [pc EXCEPT ![r] = "flushed"]
    /\ UNCHANGED <<users, logs, verified, now, before, after, origin, local>>

(* The UPDATE names only the columns whose value differs from the loaded one. *)
Written(r) == {f \in DOMAIN after[r] : after[r][f] # before[r][f]}

CommitReplacingRow(r) ==
    /\ pc[r] = "flushed"
    /\ users' = [users EXCEPT ![target[r]] = after[r]]
    /\ logs' = Append(logs, [actor |-> actor[r], action |-> ActionOf(body[r]),
                             target |-> target[r], before |-> before[r], after |-> after[r]])
    /\ pc' = [pc EXCEPT ![r] = "committed"]
    /\ UNCHANGED <<verified, now, before, after, origin, local>>

Commit(r) ==
    /\ pc[r] = "flushed"
    /\ users' = [users EXCEPT ![target[r]] =
                   [f \in Fields |-> IF f \in Written(r) THEN after[r][f] ELSE @[f]]]
    /\ logs' = Append(logs, [actor  |-> actor[r],
                             action |-> ActionOf(body[r]),
                             target |-> target[r],
                             before |-> before[r],
                             after  |-> after[r]])
    /\ pc' = [pc EXCEPT ![r] = "committed"]
    /\ UNCHANGED <<verified, now, before, after, origin, local>>

FailBetweenTwoCommits(r) ==
    /\ pc[r] \in {"gated", "locked", "flushed"}
    /\ pc' = [pc EXCEPT ![r] = "failed"]
    /\ users' = IF pc[r] = "flushed"
                 THEN [users EXCEPT ![target[r]] =
                         [f \in Fields |-> IF f \in Written(r) THEN after[r][f] ELSE @[f]]]
                 ELSE users
    /\ UNCHANGED <<logs, verified, now, before, after, origin, local>>

(* A statement or the COMMIT raises, or the worker dies: rolled back. *)
Fail(r) ==
    /\ pc[r] \in {"gated", "locked", "flushed"}
    /\ pc' = [pc EXCEPT ![r] = "failed"]
    /\ UNCHANGED <<users, logs, verified, now, before, after, origin, local>>

(* r waits for FOR KEY SHARE on a row s has locked FOR UPDATE. *)
WaitsFor(r, s) == r # s /\ pc[r] = "locked" /\ HoldsForUpdate(s, actor[r])

OnACycle(r) ==
    \E S \in SUBSET Requests :
        /\ r \in S
        /\ \A x \in S : \E y \in S : WaitsFor(x, y)
        /\ \A y \in S : \E x \in S : WaitsFor(x, y)

DeadlockAbort(r) ==
    /\ OnACycle(r)
    /\ pc' = [pc EXCEPT ![r] = "failed"]
    /\ UNCHANGED <<users, logs, verified, now, before, after, origin, local>>

(* The two refreshes after the commit; if one raises the answer is a 500 for a
   change that was made. *)
Reload(r) ==
    /\ pc[r] = "committed"
    /\ \E answer \in {"ok", "failed"} : pc' = [pc EXCEPT ![r] = answer]
    /\ UNCHANGED <<users, logs, verified, now, before, after, origin, local>>

(* verify_otp_handler of the account's owner: an UPDATE of the same row, so it
   waits for FOR UPDATE (the foreign key's lock does not block it). *)
VerifyEmail(u) ==
    /\ u \notin verified
    /\ \A r \in Requests : ~HoldsForUpdate(r, u)
    /\ verified' = verified \cup {u}
    /\ UNCHANGED <<users, logs, now, pc, before, after, origin, local>>

Tick ==
    /\ now < MaxNow
    /\ now' = now + 1
    /\ UNCHANGED <<users, logs, verified, pc, before, after, origin, local>>

Serve(r) ==
    \/ LockTarget(r) \/ NotFound(r) \/ Flush(r) \/ Commit(r) \/ Reload(r)
    \/ DeadlockAbort(r)

Next ==
    \/ \E r \in Requests : Authenticate(r) \/ Refuse(r) \/ Serve(r) \/ Fail(r)
    \/ \E u \in Users : VerifyEmail(u)
    \/ Tick

Spec == Init /\ [][Next]_vars

(* A request that is runnable runs; PostgreSQL breaks every deadlock.  Requests
   need not arrive, users need not verify, nothing need fail. *)
FairSpec == Spec /\ \A r \in Requests : WF_vars(Serve(r))

-----------------------------------------------------------------------------
(* The audit ledger this module implements. *)
Ledger == INSTANCE AuditLedger WITH value <- users, ledger <- logs
ImplementsLedger == Ledger!Spec

TypeOK ==
    /\ DOMAIN users = Users /\ \A u \in Users : LegalRow(users[u])
    /\ verified \subseteq Users
    /\ now \in Nat
    /\ pc \in [Requests -> Stages]
    /\ actor \in [Requests -> Users \cup {NoUser}]
    /\ target \in [Requests -> Users \cup {NoUser}]
    /\ since \in [Requests -> Nat]
    /\ DOMAIN body = Requests /\ DOMAIN before = Requests /\ DOMAIN after = Requests
    /\ \A r \in Requests :
          /\ since[r] <= Len(logs)
          /\ LegalBody(body[r])
          /\ LegalBody(after[r])
          /\ DOMAIN before[r] = DOMAIN after[r]

(* The history of an account's audited columns is in the audit table and
   nowhere is a change without its record (user.py:405). *)
LogExplainsUsers == Ledger!LedgerExplainsValues

(* Two admins working on one user: the second entry's before is the first
   entry's after, never an overwritten value (user.py:384-385). *)
LogIsChained == Ledger!LedgerIsChained

(* A request that goes on past the gates had, by the audit log as it stood when
   it read its actor, the permission and no ban; later revocations do not stop
   it, but nobody acts on authority not yet committed. *)
ActsOnCommittedAuthority ==
    \A r \in Requests : pc[r] \in {"gated", "locked", "flushed", "committed"} =>
        Ledger!EntitledBy(origin, logs, since[r], actor[r])

(* While a request sits on its row lock, what it read is still true: the window
   between the locked read and the commit is closed (audit_repository.py:16). *)
ReadStaysTrue ==
    \A r \in Requests : pc[r] \in {"locked", "flushed"} =>
        \A f \in DOMAIN before[r] : before[r][f] = users[target[r]][f]

(* user.py:379-380: whoever revokes whose permission, at least one account keeps
   can_manage_user. *)
SomeManagerRemains ==
    (\E u \in Users : origin[u]["can_manage_user"])
        => \E u \in Users : users[u]["can_manage_user"]

(* What holds of it: the step that leaves nobody with the permission is a commit
   whose actor the log shows losing the permission after its gates had let it
   through.  Requests that do not overlap never lock everybody out. *)
HasManager == \E u \in Users : users[u]["can_manage_user"]
RevokedMeanwhile(r) ==
    \E i \in (since[r] + 1)..Len(logs) :
        /\ Ledger!Touches(logs, i, actor[r], "can_manage_user")
        /\ logs[i].after["can_manage_user"] = FALSE
OnlyOverlapLocksOut ==
    [][HasManager /\ ~HasManager' =>
         \E r \in Requests : Commit(r) /\ RevokedMeanwhile(r)]_vars

(* Every request that passed the gates is answered: row locks and the foreign
   key's locks never leave two admins waiting on each other for good. *)
EveryRequestAnswered ==
    \A r \in Requests : pc[r] = "gated" ~> pc[r] \in Answered
=============================================================================
