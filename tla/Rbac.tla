-------------------------------- MODULE Rbac --------------------------------
(***************************************************************************)
(* The role/permission matrix of RbacService and the permission that each *)
(* family of confirmed actions demands.  Pure operators, no state.  Only   *)
(* the permissions that guard a confirmed action are kept: the view        *)
(* permissions of the matrix guard screens that change nothing.            *)
(***************************************************************************)

Roles == {"OWNER", "ADMIN", "OPERATOR", "VIEWER"}

\* ManagedUserRole: what /adduser, /setrole and the Users screen can assign.
ManagedRoles == Roles \ {"OWNER"}

ActionFamilies == {"docker", "backup", "deploy", "user", "settings"}

MutatingPermissions ==
    {"docker.manage", "backup.run", "deploy.run", "users.manage", "settings.manage"}

RolePermissions ==
    [OWNER    |-> MutatingPermissions,
     ADMIN    |-> MutatingPermissions \ {"settings.manage"},
     OPERATOR |-> {"docker.manage", "backup.run", "deploy.run"},
     VIEWER   |-> {}]

PermissionForActionType ==
    [docker   |-> "docker.manage",
     backup   |-> "backup.run",
     deploy   |-> "deploy.run",
     user     |-> "users.manage",
     settings |-> "settings.manage"]

HasPermission(role, permission) == permission \in RolePermissions[role]

Permits(role, family) == HasPermission(role, PermissionForActionType[family])

\* What the request of an administrator makes of an account that is there: another status,
\* another role, or a new account in its place.
Administrated(account, roles) ==
    {[account EXCEPT !.status = s] : s \in {"ACTIVE", "DISABLED"}}
        \cup {[account EXCEPT !.role = r] : r \in roles}
        \cup {[role |-> r, status |-> "ACTIVE"] : r \in roles}
=============================================================================
