----------------------------- MODULE GraphReads -----------------------------
(***************************************************************************)
(* Declared dependency graphs: get_declared_graph and                      *)
(* get_declared_graph_export (src/routes/graph.rs, graph_exports/mod.rs),  *)
(* beside the account API that changes what they read, with a shared cache *)
(* in front.                                                               *)
(*                                                                         *)
(* The handler looks the package row up once and authorizes that row; the  *)
(* answer it builds is marked cacheable by what the row said, not by what  *)
(* the package is by then.                                                 *)
(***************************************************************************)
EXTENDS Account

VARIABLE shared \* visibility of the rows whose graph a shared cache holds

graphVars == <<accountVars, shared>>

\* What a caller may present: nothing, a live token of this organization, a
\* live token of another one or of none, a dead token, a browser account.
Creds == {"none", "org_token", "other_token", "dead_token", "account"}

GraphInit == AccountInit /\ shared = {}

\* The view and the format are settled first: 400 or 406 before any lookup.
get_declared_graph(q) ==
    /\ req[q].pc = "idle" /\ "graph" \in Ops[q]
    /\ \E c \in Creds, u \in Users, next \in {"load", "done"} :
          /\ req' = [req EXCEPT ![q] = [Idle EXCEPT !.op = "graph", !.user = u, !.cred = c,
                        !.pc = next, !.answer = IF next = "done" THEN 406 ELSE Nothing,
                        !.held = IF c = "account" THEN HeldBy(u, orgRole, projRole) ELSE {}]]
    /\ ReadOnly /\ UNCHANGED shared

\* load_authorized_declared_document: the one lookup of the package.
load_package(q) ==
    /\ req[q].pc = "load"
    /\ \/ \E code \in {500, 503} : Answer(q, code)
       \/ package = Nothing /\ Answer(q, 404)
       \/ /\ package # Nothing
          /\ req' = [req EXCEPT ![q].pc = "authorize", ![q].row =
                           [visibility |-> package.visibility, in_project |-> package.in_project]]
    /\ ReadOnly /\ UNCHANGED shared

Grant(q) == req' = [req EXCEPT ![q].pc = "version"]

\* authorize_declared_graph up to the account: public rows are open; a token
\* must be of this organization; every other outcome is the same 404.
authorize_declared_graph(q) ==
    /\ req[q].pc = "authorize"
    /\ CASE req[q].row.visibility = "public" -> Grant(q)
         [] req[q].row.visibility \in {"internal", "private"} /\ req[q].cred = "org_token" ->
               Grant(q) \/ Answer(q, 404)
         [] req[q].row.visibility \in {"internal", "private"} /\ req[q].cred = "account" ->
               Answer(q, 404) \/ req' = [req EXCEPT ![q].pc = "user"]
         [] OTHER -> Answer(q, 404)
    /\ ReadOnly /\ UNCHANGED shared

\* The account: a user never projected is a stranger; then the two roles.
graph_roles(q) ==
    /\ \/ /\ req[q].pc = "user"
          /\ \/ Answer(q, 404)
             \/ req[q].user \in users /\ req' = [req EXCEPT ![q].pc = "role_org"]
       \/ /\ req[q].pc = "role_org"
          /\ \/ Answer(q, 404)
             \/ orgRole[req[q].user] # Nothing /\ Grant(q)
             \/ /\ orgRole[req[q].user] = Nothing /\ req[q].row.in_project
                /\ req' = [req EXCEPT ![q].pc = "role_project"]
       \/ /\ req[q].pc = "role_project"
          /\ \/ Answer(q, 404)
             \/ projRole[req[q].user] # Nothing /\ Grant(q)
    /\ ReadOnly /\ UNCHANGED shared

\* Mutant: the package is looked up again once the caller is authorized.
ReloadedRow(q) ==
    [visibility |-> package.visibility, in_project |-> package.in_project]

\* The row the answer is made from: the one that was authorized.
AnsweredRow(q) == req[q].row

\* DeclaredGraphAccess::cache_control.
Cacheable(row) == row.visibility = "public"

\* No such version, a representation or a graph past its limit, a manifest
\* that is not a graph: declared_document and the bounds.
DocumentErrors == {404, 413, 422, 500}

\* The version, its manifest, the bounds, the encoding and the conditional
\* request, then the answer and what a shared cache keeps of it.
respond(q) ==
    /\ req[q].pc = "version"
    /\ \/ /\ \E code \in DocumentErrors :
                req' = [req EXCEPT ![q].pc = "done", ![q].answer = code]
          /\ UNCHANGED shared
       \/ \E code \in {200, 304} :
             /\ req' = [req EXCEPT ![q] = [@ EXCEPT !.pc = "done", !.answer = code,
                                                    !.row = AnsweredRow(q)]]
             /\ shared' = IF code = 200 /\ Cacheable(AnsweredRow(q))
                          THEN shared \cup {AnsweredRow(q).visibility} ELSE shared
    /\ ReadOnly

\* Visibility also changes outside this service.
VisibilityChanges ==
    /\ package # Nothing
    /\ \E v \in {"private", "public", "future"} : package' = [package EXCEPT !.visibility = v]
    /\ UNCHANGED <<users, exists, orgRole, projRole, req, shared>>

AccountStep ==
    /\ MembershipChanges \/ \E q \in Calls : Arrive(q) \/ Handle(q)
    /\ UNCHANGED shared

GraphNext ==
    \/ AccountStep
    \/ VisibilityChanges
    \/ \E q \in Calls :
          \/ get_declared_graph(q) \/ load_package(q) \/ authorize_declared_graph(q)
          \/ graph_roles(q) \/ respond(q)

GraphSpec == GraphInit /\ [][GraphNext]_graphVars

-----------------------------------------------------------------------------
\* The caller of r has authority over the row it loaded.
HasAuthority(r) ==
    \/ r.row.visibility = "public"
    \/ r.cred = "org_token"
    \/ \E h \in r.held : h.scope = "org" \/ r.row.in_project

\* Once a row that is not public was loaded, every answer but the one 404 (or
\* a timeout) goes to a caller that had authority over that row during the
\* request: neither the graph nor the kind of the refusal tells a stranger
\* that the package exists; nor does a shared cache, which outlives every
\* later change of visibility, ever come to hold a graph that was not public
\* (authorize_declared_graph and cache_control in graph.rs).
GraphIsConcealed ==
    /\ shared \subseteq {"public"}
    /\ \A q \in Calls :
          /\ req[q].op = "graph" /\ req[q].row # Nothing
          /\ req[q].answer \notin {Nothing, 404, 408}
          => HasAuthority(req[q])

(***************************************************************************)
(* The inductive invariant: what a handler relies on between its queries.  *)
(* Its parts are about the record r of one call.                           *)
(***************************************************************************)

Visibilities == {"private", "public", "future"}
AllRoles == Roles \cup {"owner", Nothing}
PackageRow == [settings : [Fields -> Texts], in_project : BOOLEAN, visibility : Visibilities]
GraphRow == [visibility : Visibilities, in_project : BOOLEAN]
ReadSteps == {"org", "project", "package", "orgs", "org_role", "project_role",
              "lists", "show", "check", "write"}
GraphSteps == {"load", "authorize", "user", "role_org", "role_project", "version"}

Call == [op : DOMAIN Reads \cup {"graph", Nothing}, user : Users \cup {Nothing},
         cred : Creds, patch : Patches \cup {Nothing},
         pc : {"idle", "auth", "project", "run", "done"} \cup GraphSteps,
         todo : Seq(ReadSteps),
         row : [in_project : BOOLEAN] \cup [settings : [Fields -> Texts]]
               \cup GraphRow \cup PackageRow \cup {Nothing},
         org : AllRoles, proj : AllRoles, wrote : BOOLEAN,
         answer : Nat \cup {Nothing}, role : AllRoles,
         held : SUBSET [scope : {"org", "project"}, role : AllRoles]]

\* An idle call, one that was refused, or one whose write is over.
Over(r) ==
    /\ r.pc \in {"idle", "done"}
    /\ r.op = Nothing /\ r.role = Nothing /\ r.row = Nothing
    /\ r.pc = "idle" => ~r.wrote

\* The steps from the i-th on are still to do; the first of them reads the row
\* that the handler goes on to use.
Remaining(r, i) ==
    /\ r.todo = SubSeq(Reads[r.op], i, Len(Reads[r.op]))
    /\ i = 1 => r.proj = Nothing
    /\ i > 2 /\ r.op = "org_dashboard" => r.org # Nothing
    /\ i > 1 /\ r.op = "package_settings" => r.row \in [in_project : BOOLEAN]
    /\ i > 1 /\ r.op = "update_package_settings" => r.row \in [settings : [Fields -> Texts]]

\* An account handler at work: the roles it has read were held.
Working(r) ==
    /\ r.op \in DOMAIN Reads /\ r.user \in Users /\ r.patch \in Patches
    /\ r.cred = "account"
    /\ r.pc \in {"auth", "project", "run"}
    /\ r.role = Nothing /\ ~r.wrote
    /\ \E i \in 1..Len(Reads[r.op]) + 1 : Remaining(r, i)
    /\ r.org # Nothing => [scope |-> "org", role |-> r.org] \in r.held
    /\ r.proj # Nothing =>
          /\ [scope |-> "project", role |-> r.proj] \in r.held
          /\ r.op = "package_settings" => r.row.in_project

\* An account handler that has shown rows.
HasShown(r) ==
    /\ r.op \in DOMAIN Reads /\ r.pc = "done" /\ ~r.wrote
    /\ Shows(r) => Covered(r, r.role)

\* A graph call, with authority over its row once it is past the checks.
Graphing(r) ==
    /\ r.op = "graph" /\ r.user \in Users /\ r.todo = << >>
    /\ r.role = Nothing /\ ~r.wrote
    /\ r.pc \in GraphSteps \cup {"done"}
    /\ r.pc # "done" => r.answer = Nothing
    /\ r.pc \in GraphSteps \ {"load"} => r.row \in GraphRow
    /\ r.pc = "load" => r.row = Nothing
    /\ r.pc \in {"user", "role_org", "role_project"} => r.cred = "account"
    /\ r.pc = "role_project" => r.row.in_project
    /\ r.pc = "version" => HasAuthority(r)
    /\ r.pc = "done" => r.row = Nothing \/ (r.row \in GraphRow /\ HasAuthority(r))

\* A call that shows rows has seen the memberships of this very moment.
Current(r, inOrg, inProject) ==
    /\ r.pc \notin {"idle", "done"} /\ r.cred = "account"
    /\ r.op \in DOMAIN Reads => "write" \notin Range(Reads[r.op])
    => HeldBy(r.user, inOrg, inProject) \subseteq r.held

Good(r, inOrg, inProject) ==
    /\ r \in Call
    /\ Over(r) \/ Working(r) \/ HasShown(r) \/ Graphing(r)
    /\ Current(r, inOrg, inProject)

TablesOK ==
    /\ orgRole \in [Users -> AllRoles] /\ projRole \in [Users -> AllRoles]
    /\ package \in PackageRow \cup {Nothing}
    /\ shared \subseteq {"public"}

CallsInv ==
    /\ TablesOK
    /\ req \in [Calls -> Call]
    /\ \A q \in Calls : Good(req[q], orgRole, projRole)

=============================================================================
