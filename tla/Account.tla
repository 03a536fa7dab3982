------------------------------ MODULE Account ------------------------------
(***************************************************************************)
(* The browser account API: src/routes/account.rs behind                   *)
(* src/account_router.rs.                                                  *)
(*                                                                         *)
(* A handler authenticates through Shared Auth, projects the user, reads   *)
(* the rows it needs one query at a time and makes at most one write.      *)
(* The queries are separate statements, so memberships and settings may    *)
(* change between them; only the write rechecks membership, inside its own *)
(* transaction.  That transaction, and everything else of zed_orm_core, is *)
(* external and modelled by how the handlers use it.                       *)
(*                                                                         *)
(* One organization, one project and one package stand for all of them.    *)
(***************************************************************************)
EXTENDS Naturals, Sequences, Functions

CONSTANTS
    Users,       \* Shared Auth subjects
    Calls,
    Ops,         \* the operations each request may ask for
    Roles,       \* roles memberships may have
    Fields,      \* settings a patch carries over: repo_url, homepage_url, keywords, config
    Texts,       \* values of such a field
    Empty,       \* the empty JSON object, a value a client may send as config
    Nothing

ASSUME AccountAssumption ==
    /\ Nothing \notin Roles \cup Texts \cup Users
    /\ Empty \notin Texts \cup {Nothing}

VARIABLES
    users,    \* projected user rows
    exists,   \* which of the organization and the project exist
    orgRole,  \* memberships of the organization, Nothing for none
    projRole, \* memberships of the project
    package,  \* the package row, Nothing before it is created
    req       \* the requests

accountVars == <<users, exists, orgRole, projRole, package, req>>

\* The reads and the write of each handler, in the order of the code.
Reads == [me                     |-> <<>>,
          update_user_settings   |-> <<"write">>,
          home                   |-> <<"orgs", "project_role", "lists">>,
          search                 |-> <<"orgs", "lists">>,
          create_org             |-> <<"write">>,
          org_dashboard          |-> <<"org", "org_role", "project_role", "lists">>,
          invite_org_member      |-> <<"write">>,
          create_project         |-> <<"write">>,
          project_settings       |-> <<"org", "project", "org_role", "project_role", "show">>,
          invite_project_member  |-> <<"write">>,
          create_package         |-> <<"check", "write">>,
          package_settings       |-> <<"package", "org_role", "project_role", "show">>,
          update_package_settings |-> <<"package", "write">>,
          make_package_public    |-> <<"write">>,
          add_package_license    |-> <<"write">>,
          register_package_upload |-> <<"package", "check", "write">>]

ASSUME OpAssumption == Nothing \notin DOMAIN Reads

Idle == [op |-> Nothing, user |-> Nothing, cred |-> "account", patch |-> Nothing, pc |-> "idle", todo |-> <<>>,
         row |-> Nothing, org |-> Nothing, proj |-> Nothing, wrote |-> FALSE,
         answer |-> Nothing, role |-> Nothing, held |-> {}]

\* Package rows as create_package makes them.
PrivateRows == [settings : [Fields -> Texts], in_project : BOOLEAN, visibility : {"private"}]

AccountInit ==
    /\ users = {}
    /\ exists \in {{}, {"org", "project"}}
    /\ orgRole = [u \in Users |-> Nothing]
    /\ projRole = [u \in Users |-> Nothing]
    /\ package \in {Nothing} \cup PrivateRows
    /\ exists = {} => package = Nothing
    /\ req = [q \in Calls |-> Idle]

\* The roles user u holds in a state given by its two membership tables.
HeldBy(u, inOrg, inProject) ==
    {[scope |-> "org", role |-> inOrg[u]], [scope |-> "project", role |-> inProject[u]]}
        \ [scope : {"org", "project"}, role : {Nothing}]

\* The requests in table r, those that show rows having seen the
\* memberships of the next state: held collects the roles a user held at some moment of the request.
Watch(r) ==
    [q \in Calls |->
        IF \/ r[q].pc \in {"idle", "done"} \/ r[q].cred # "account"
           \/ "write" \in Range(r[q].todo)
        THEN r[q]
        ELSE [r[q] EXCEPT !.held = @ \cup HeldBy(r[q].user, orgRole', projRole')]]

\* A refusal forgets what the handler had read.
Answer(q, code) ==
    req' = [req EXCEPT ![q] = [Idle EXCEPT !.pc = "done", !.answer = code]]

ReadOnly == UNCHANGED <<users, exists, orgRole, projRole, package>>

\* What a settings request may name: some of the fields, each with a value;
\* only config is a JSON object and may be an empty one.
Patches == {p \in [Fields -> Texts \cup {Nothing, Empty}] :
               \A f \in Fields : p[f] = Empty => f = "config"}

Arrive(q) ==
    /\ req[q].pc = "idle"
    /\ \E op \in Ops[q] \cap DOMAIN Reads, u \in Users, patch \in Patches :
          /\ op # "update_package_settings" => patch = [f \in Fields |-> Nothing]
          /\ req' = [req EXCEPT ![q] = [Idle EXCEPT !.op = op, !.user = u,
                        !.patch = patch, !.pc = "auth", !.todo = Reads[op],
                        !.held = IF "write" \in Range(Reads[op]) THEN {}
                                 ELSE HeldBy(u, orgRole, projRole)]]
    /\ ReadOnly

\* require_account: no bearer, a refused introspection, an outage, a token of
\* the wrong kind, or the identity.
authenticated(q) ==
    /\ req[q].pc = "auth"
    /\ \/ \E code \in {401, 403, 503} : Answer(q, code)
       \/ req' = [req EXCEPT ![q].pc = "project"]
    /\ ReadOnly

\* upsert_user_from_session; a handler with nothing left to do answers.
authenticated_and_projected(q) ==
    /\ req[q].pc = "project"
    /\ users' = users \cup {req[q].user}
    /\ IF req[q].todo = <<>> THEN Answer(q, 200)
       ELSE req' = [req EXCEPT ![q].pc = "run"]
    /\ UNCHANGED <<exists, orgRole, projRole, package>>

\* registry_read, registry_write: there is no data plane, or a query of it fails.
DataPlaneFails(q) ==
    /\ req[q].pc \in {"project", "run"}
    /\ \E code \in {500, 503} : Answer(q, code)
    /\ ReadOnly

At(q, step) == req[q].pc = "run" /\ req[q].todo # <<>> /\ Head(req[q].todo) = step

\* The row, roles and remaining steps of a request after a read.
After(q, r) == req' = [req EXCEPT ![q] = [r EXCEPT !.todo = Tail(@)]]

\* org_by_slug and project_by_org_and_slug.
find_row(q, step) ==
    /\ At(q, step)
    /\ IF step \notin exists THEN Answer(q, 404) ELSE After(q, req[q])
    /\ ReadOnly

\* package_by_org_and_name; of the row, what the handler goes on to use.
find_package(q) ==
    /\ At(q, "package")
    /\ IF package = Nothing THEN Answer(q, 404)
       ELSE After(q, [req[q] EXCEPT !.row =
                         IF req[q].op = "package_settings"
                         THEN [in_project |-> package.in_project]
                         ELSE [settings |-> package.settings]])
    /\ ReadOnly

\* org_role_for_user; the dashboard answers 404 at once to a stranger.
org_role_for_user(q) ==
    /\ At(q, "org_role")
    /\ IF orgRole[req[q].user] = Nothing /\ req[q].op = "org_dashboard"
       THEN Answer(q, 404)
       ELSE After(q, [req[q] EXCEPT !.org = orgRole[req[q].user]])
    /\ ReadOnly

\* project_role_for_user, of the project the row read earlier names.
project_role_for_user(q) ==
    /\ At(q, "project_role")
    /\ LET mine == CASE req[q].op \in {"home", "org_dashboard"} -> req[q].org # Nothing
                       [] req[q].op = "project_settings" -> TRUE
                       [] OTHER -> req[q].row.in_project
       IN  After(q, [req[q] EXCEPT !.proj = IF mine THEN projRole[req[q].user] ELSE Nothing])
    /\ ReadOnly

\* orgs_for_user: home and search list only the organizations it returned.
orgs_for_user(q) ==
    /\ At(q, "orgs")
    /\ After(q, [req[q] EXCEPT !.org = orgRole[req[q].user]])
    /\ ReadOnly

Rank(role) == CASE role = "owner" -> 4 [] role = "admin" -> 3 [] role = "member" -> 2
                [] role = "reader" -> 1 [] OTHER -> 0

\* The stronger of two optional roles; the later one of equals.
strongest_role(org, project) ==
    IF org = Nothing THEN project
    ELSE IF project = Nothing \/ Rank(org) > Rank(project) THEN org ELSE project

\* The packages and the answer of home, search and org_dashboard: the
\* dashboard lists its organization, the other two those orgs_for_user found.
ShowLists(q) ==
    /\ At(q, "lists")
    /\ LET listed == req[q].op = "org_dashboard" \/ req[q].org # Nothing
       IN  req' = [req EXCEPT ![q] = [@ EXCEPT !.pc = "done", !.answer = 200, !.todo = <<>>,
                      !.row = IF listed THEN package ELSE Nothing,
                      !.role = IF listed THEN strongest_role(req[q].org, req[q].proj)
                               ELSE Nothing]]
    /\ ReadOnly

\* Mutant: the settings are shown whether or not a role was found.
ShowToAnyone(q) ==
    /\ At(q, "show")
    /\ req' = [req EXCEPT ![q] = [@ EXCEPT !.pc = "done", !.answer = 200, !.todo = <<>>,
                                           !.role = strongest_role(req[q].org, req[q].proj)]]
    /\ ReadOnly

\* project_settings and package_settings: 404 without a role.
ShowSettings(q) ==
    /\ At(q, "show")
    /\ LET role == strongest_role(req[q].org, req[q].proj)
       IN  IF role = Nothing THEN Answer(q, 404)
           ELSE req' = [req EXCEPT ![q] = [@ EXCEPT !.pc = "done", !.answer = 200,
                                                    !.todo = <<>>, !.role = role]]
    /\ ReadOnly

\* The checks before a write: config is an object, the archive format is one
\* of the three.
check_input(q) ==
    /\ At(q, "check")
    /\ Answer(q, 400) \/ After(q, req[q])
    /\ ReadOnly

\* Mutant: an empty config is taken as a value.
EmptyIsNamed(q, f) == req[q].patch[f] # Nothing

\* Whether the request names a field: an empty config does not count.
NamesField(q, f) ==
    req[q].patch[f] # Nothing /\ ~(f = "config" /\ req[q].patch[f] = Empty)

\* PackageSettingsPatch: the value the request names, else the one read.
SettingsPatch(q) ==
    [f \in Fields |-> IF NamesField(q, f) THEN req[q].patch[f] ELSE req[q].row.settings[f]]

Member(u) == orgRole[u] # Nothing \/ projRole[u] # Nothing

\* zed_orm_core's writes: each rechecks membership in its transaction.
Written(q) ==
    LET u == req[q].user
        op == req[q].op
    IN  CASE op = "create_org" ->
               /\ "org" \notin exists
               /\ exists' = exists \cup {"org"}
               /\ orgRole' = [orgRole EXCEPT ![u] = "owner"]
               /\ UNCHANGED <<projRole, package>>
          [] op = "create_project" ->
               /\ orgRole[u] # Nothing /\ "project" \notin exists
               /\ exists' = exists \cup {"project"}
               /\ UNCHANGED <<orgRole, projRole, package>>
          [] op = "create_package" ->
               /\ Member(u) /\ package = Nothing
               /\ package' \in PrivateRows
               /\ UNCHANGED <<exists, orgRole, projRole>>
          [] op = "update_package_settings" ->
               /\ Member(u) /\ package # Nothing
               /\ \E inProject \in BOOLEAN :
                     package' = [package EXCEPT !.settings = SettingsPatch(q),
                                                !.in_project = inProject]
               /\ UNCHANGED <<exists, orgRole, projRole>>
          [] op = "make_package_public" ->
               /\ Member(u) /\ package # Nothing
               /\ package' = [package EXCEPT !.visibility = "public"]
               /\ UNCHANGED <<exists, orgRole, projRole>>
          [] op = "update_user_settings" ->
               /\ u \in users
               /\ UNCHANGED <<exists, orgRole, projRole, package>>
          [] OTHER ->
               /\ Member(u)
               /\ op \in {"add_package_license", "register_package_upload"} => package # Nothing
               /\ UNCHANGED <<exists, orgRole, projRole, package>>

\* map_orm_error on what the transaction refuses.
map_orm_error == {400, 403, 404, 409, 500}

\* The write commits and is answered, or fails and changes nothing.
Write(q) ==
    /\ At(q, "write")
    /\ UNCHANGED users
    /\ \/ /\ Written(q)
          /\ req' = Watch([req EXCEPT ![q] = [Idle EXCEPT !.pc = "done", !.answer = 200, !.wrote = TRUE]])
       \/ /\ \E code \in map_orm_error : Answer(q, code)
          /\ UNCHANGED <<exists, orgRole, projRole, package>>

\* ACCOUNT_TIMEOUT: the handler is dropped where it waits; a write it was
\* waiting for may commit all the same.
TimeOut(q) ==
    /\ req[q].pc \notin {"idle", "done"}
    /\ UNCHANGED users
    /\ \/ Answer(q, 408) /\ UNCHANGED <<exists, orgRole, projRole, package>>
       \/ /\ At(q, "write")
          /\ Written(q)
          /\ req' = Watch([req EXCEPT ![q] = [Idle EXCEPT !.pc = "done", !.answer = 408, !.wrote = TRUE]])

\* Invitations are accepted and members removed elsewhere.
MembershipChanges ==
    /\ \E u \in Users, r \in Roles \cup {Nothing} :
          \/ "org" \in exists /\ orgRole' = [orgRole EXCEPT ![u] = r] /\ UNCHANGED projRole
          \/ "project" \in exists /\ projRole' = [projRole EXCEPT ![u] = r] /\ UNCHANGED orgRole
    /\ req' = Watch(req)
    /\ UNCHANGED <<users, exists, package>>

Handle(q) ==
    \/ authenticated(q) \/ authenticated_and_projected(q) \/ DataPlaneFails(q)
    \/ find_row(q, "org") \/ find_row(q, "project") \/ find_package(q) \/ org_role_for_user(q) \/ project_role_for_user(q)
    \/ orgs_for_user(q) \/ ShowLists(q) \/ ShowSettings(q) \/ check_input(q)
    \/ Write(q) \/ TimeOut(q)

-----------------------------------------------------------------------------
ListOps == {"home", "search", "org_dashboard"}

\* The answer to r shows the organization, the project or the package: a
\* dashboard or a settings page that is answered at all, a list with rows.
Shows(r) ==
    /\ r.pc = "done" /\ r.answer = 200
    /\ \/ r.op \in {"org_dashboard", "project_settings", "package_settings"}
       \/ r.op \in {"home", "search"} /\ ~(r.row = Nothing /\ r.role = Nothing)

\* The role was held in a scope that covers what r shows; a list is of an
\* organization, whatever the role in one of its projects.
Covered(r, role) ==
    /\ role # Nothing
    /\ \E h \in r.held :
          h.role = role /\ (h.scope = "org" \/ r.op # "package_settings" \/ r.row.in_project)
    /\ r.op \in ListOps => \E h \in r.held : h.scope = "org"

\* Whenever an answer shows rows of the organization, of the project or of
\* the package, the caller was, at some moment of that very request, a member
\* of the organization, or of the project the shown row names; and the role
\* shown is one the user held then (the handlers of account.rs).
ShownMeansMember == \A q \in Calls : Shows(req[q]) => Covered(req[q], req[q].role)

\* update_package_settings writes the whole patch, unnamed fields as it read
\* them: such a field changes only when another write came between its read
\* and its write; an empty config names nothing.
UnnamedFieldChangesOnlyByStaleRead ==
    [][package # Nothing =>
          \A f \in Fields : package'.settings[f] # package.settings[f] =>
             \E q \in Calls :
                /\ req[q].op = "update_package_settings"
                /\ ~req[q].wrote /\ req'[q].wrote
                /\ \/ req[q].patch[f] \notin {Nothing, Empty}
                   \/ req[q].row.settings[f] # package.settings[f]]_accountVars

=============================================================================
