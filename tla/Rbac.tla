-------------------------------- MODULE Rbac --------------------------------
(***************************************************************************)
(* Role-based access control of registry tokens: src/rbac.rs.              *)
(*                                                                         *)
(* A token row carries an optional org scope and a role.  NoScope is the   *)
(* NULL org_id of an admin token.                                          *)
(***************************************************************************)

CONSTANT NoScope

\* The names `create-token --role` accepts.
RoleNames == {"owner", "publisher", "reader"}

\* Role::parse: a stored string that is no role name reads as the weakest one.
ParseRole(s) == IF s \in RoleNames THEN s ELSE "reader"

CanPublish(role) == role \in {"owner", "publisher"}

CanManage(role) == role = "owner"

(***************************************************************************)
(* The shared shape of authorize_publish and authorize_manage: an admin    *)
(* token passes, a foreign scope loses before the role is looked at, and   *)
(* only then does the role decide.                                         *)
(***************************************************************************)
Authorize(scope, capable, target) ==
    CASE scope = NoScope -> "ok"
      [] scope # NoScope /\ scope # target -> "unauthorized"
      [] scope # NoScope /\ scope = target ->
            IF capable THEN "ok" ELSE "insufficient_role"

authorize_publish(scope, storedRole, target) ==
    Authorize(scope, CanPublish(ParseRole(storedRole)), target)

authorize_manage(scope, storedRole, target) ==
    Authorize(scope, CanManage(ParseRole(storedRole)), target)

=============================================================================
