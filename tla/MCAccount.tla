------------------------------ MODULE MCAccount ------------------------------
EXTENDS GraphReads, TLC

CONSTANTS q1, q2

\* Any operation beside a change of the package's settings.
MCOps ==
    q1 :> {"me", "home", "search", "create_org", "org_dashboard", "project_settings",
           "create_project", "create_package", "package_settings", "make_package_public",
           "update_package_settings", "register_package_upload", "graph"}
 @@ q2 :> {"update_package_settings"}

Symmetry == Permutations(Texts)

=============================================================================
