------------------------------- MODULE Roles -------------------------------
(***************************************************************************)
(* What each role may do: the table of domain.RolePermissions.             *)
(***************************************************************************)

AllRoles == {"guest", "user", "premium", "moderator", "admin"}

Permission == {"watch_public", "watch_private", "upload_video", "delete_own_video",
               "delete_any_video", "manage_users", "view_analytics", "moderate_content"}

\* The table of permissions, each role by what it lacks or has.
RolePermissions(role) ==
    CASE role = "guest"     -> {"watch_public"}
      [] role = "user"      -> {"watch_public", "upload_video", "delete_own_video"}
      [] role = "premium"   -> Permission \ {"delete_any_video", "manage_users",
                                             "moderate_content"}
      [] role = "moderator" -> Permission \ {"manage_users", "view_analytics"}
      [] role = "admin"     -> Permission

HasPermission(role, permission) == permission \in RolePermissions(role)
=============================================================================
