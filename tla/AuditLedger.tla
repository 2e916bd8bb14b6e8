---------------------------- MODULE AuditLedger ----------------------------
(* What the audit trail of the blog promises, without requests, locks or
   transactions: every change of an audited column is one entry of an
   append-only ledger, the entry holds the value before and the value after,
   and it is written in the same step as the change.  AdminModeration
   implements this module.                                                 *)
EXTENDS Naturals, Sequences

CONSTANTS
    Users,      \* accounts
    Fields      \* audited columns of an account

VARIABLES
    origin,     \* the audited columns when the ledger was empty
    value,      \* the audited columns now
    ledger      \* the entries, oldest first

ledgerVars == <<origin, value, ledger>>

(* Entry i of ledger l changed column f of user u. *)
Touches(l, i, u, f) == l[i].target = u /\ f \in DOMAIN l[i].after

(* The first n entries of l, replayed over the valuation o, say that column f
   of u is v: the last of them that touches it left v, or none does and o has
   v there. *)
Says(o, l, n, u, f, v) ==
    \/ /\ \A i \in 1..n : ~Touches(l, i, u, f)
       /\ v = o[u][f]
    \/ \E i \in 1..n :
         /\ Touches(l, i, u, f)
         /\ \A j \in (i + 1)..n : ~Touches(l, j, u, f)
         /\ v = l[i].after[f]

(* A manager by the ledger alone: the first n entries grant the permission
   and leave no ban. *)
EntitledBy(o, l, n, u) ==
    /\ Says(o, l, n, u, "can_manage_user", TRUE)
    /\ Says(o, l, n, u, "is_banned", FALSE)

Init ==
    /\ value = origin
    /\ ledger = <<>>

(* One recorded change: some columns S of the target take new values, nothing
   else moves, and the entry holds both valuations of S.  The actor is not the
   target and the ledger entitled it at some earlier point.                 *)
Record ==
    \E actor \in Users, target \in Users, S \in SUBSET Fields :
        /\ actor # target
        /\ \E action \in {"user.permissions.update", "user.suspension.update",
                          "user.ban.update"} :
              ledger' = Append(ledger,
                 [actor  |-> actor,
                  action |-> action,
                  target |-> target,
                  before |-> [f \in S |-> value[target][f]],
                  after  |-> [f \in S |-> value'[target][f]]])
        /\ \E n \in 0..Len(ledger) : EntitledBy(origin, ledger, n, actor)
        /\ \A u \in Users, f \in Fields :
              (u # target \/ f \notin S) => value'[u][f] = value[u][f]
        /\ UNCHANGED origin

Spec == Init /\ [][Record]_ledgerVars

-----------------------------------------------------------------------------
(* The ledger accounts for every audited column of every user: replaying it
   over the origin gives the users table (user.py: "permissions changed but no
   record" must not exist). *)
LedgerExplainsValues ==
    \A u \in Users, f \in Fields : Says(origin, ledger, Len(ledger), u, f, value[u][f])

(* Each entry starts where the previous entry on the same column ended: no
   change was overwritten unseen (user.py: two admins on one user must not
   leave two logs for one surviving change). *)
LedgerIsChained ==
    \A i \in 1..Len(ledger) :
        /\ DOMAIN ledger[i].before = DOMAIN ledger[i].after
        /\ \A f \in DOMAIN ledger[i].after :
              Says(origin, ledger, i - 1, ledger[i].target, f, ledger[i].before[f])

(* Every entry was written by someone else than its target whom the ledger
   itself had entitled before: authority is never self-made. *)
AuthorityIsGranted ==
    \A i \in 1..Len(ledger) :
        /\ ledger[i].actor # ledger[i].target
        /\ \E n \in 0..(i - 1) : EntitledBy(origin, ledger, n, ledger[i].actor)
=============================================================================
