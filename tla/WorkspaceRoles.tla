--------------------------- MODULE WorkspaceRoles ---------------------------
(***************************************************************************)
(* The role hierarchy every permission rule of the services rests on.      *)
(***************************************************************************)
EXTENDS Naturals

RoleRank == [member |-> 1, admin |-> 2, owner |-> 3]

WorkspaceRole == DOMAIN RoleRank

RoleAtLeast(role, min) == RoleRank[role] >= RoleRank[min]
=============================================================================
