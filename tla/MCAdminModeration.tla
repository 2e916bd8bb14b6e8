------------------------ MODULE MCAdminModeration ------------------------
(* Small instances of AdminModeration: the tables it starts from and the
   request bodies. *)
EXTENDS AdminModeration, TLC

CONSTANTS a1, a2, a3

Manager == [f \in Fields |-> IF f \in Permissions THEN TRUE
                             ELSE IF f = "is_banned" THEN FALSE ELSE 0]
Member == [f \in Fields |-> IF f = "suspended_until" THEN 0 ELSE FALSE]

TwoManagersOneMember == {(a1 :> Manager) @@ (a2 :> Manager) @@ (a3 :> Member)}

Revoke == [f \in {"can_manage_user"} |-> FALSE]
Grant == [f \in {"can_manage_user"} |-> TRUE]
Ban == [f \in {"is_banned"} |-> TRUE]
Suspend == [f \in {"suspended_until"} |-> 1]

SomeBodies == {Revoke, Grant, Ban, Suspend}
Lockouts == {Revoke, Ban}
=============================================================================
