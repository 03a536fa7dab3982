---------------------------- MODULE RegistryHost ----------------------------
(***************************************************************************)
(* The virtual-host boundary of src/registry_host.rs and the two routing   *)
(* tables it stands in front of: the machine registry (routes/mod.rs) and  *)
(* the browser/account API (account_router.rs).                            *)
(*                                                                         *)
(* A path is a record: its segments, whether it starts with a slash,       *)
(* whether slashes end it, and whether it has something the boundary       *)
(* refuses outright ("%", "..", a backslash, "//", over 2048 bytes).  A    *)
(* segment is a word; the words of Special are the ones the boundary's     *)
(* predicates tell apart, every other word is a slug.                      *)
(***************************************************************************)
EXTENDS Naturals, Sequences, SequencesExt

Dotted == "1.0.0"              \* a version that is not a slug
Odd == "A_b"                   \* a file name that is neither
Hex64 == "hex64"               \* 64 lower-case hexadecimal digits
Prefixed == "sha256:hex64"     \* the same, with the resolution prefix

(* The segment predicates.  An empty segment satisfies none of them.       *)
slug(s) == s \notin {Dotted, Odd, Prefixed}
version_segment(s) == s \notin {Odd, Prefixed}
sha256(s) == s = Hex64
resolution_digest(s) == s = Prefixed

(***************************************************************************)
(* A pattern is a sequence of literals and placeholders: the parameters of *)
(* axum's templates, which take any segment, AnyOne for one whose name     *)
(* does not matter, AnyRest for "{*path}"; and the boundary's guarded      *)
(* bindings.  FilesRest and AnyRest stand last and take one or more        *)
(* segments; no file name of the model fails file_segment.                 *)
(***************************************************************************)
AnyOne == "{}"
OrgParam == "{org}"
NameParam == "{name}"
VersionParam == "{version}"
Sha256Param == "{sha256}"
ResolutionParam == "{resolution_digest}"
FormatParam == "{format}"
AnyRest == "{*path}"
Params == {AnyOne, OrgParam, NameParam, VersionParam, Sha256Param, ResolutionParam, FormatParam}

Slug == "slug(_)"
VersionText == "version_segment(_)"
Digest == "sha256(_)"
Resolution == "resolution_digest(_)"
FilesRest == "file_segment(_)"

Takes(p, s) ==
  \/ p \in {s, AnyRest, FilesRest} \cup Params
  \/ p = Slug /\ slug(s)
  \/ p = VersionText /\ version_segment(s)
  \/ p = Digest /\ sha256(s)
  \/ p = Resolution /\ resolution_digest(s)

Matches(at, segs) ==
  /\ IF Last(at) \in {AnyRest, FilesRest} THEN Len(segs) >= Len(at) ELSE Len(segs) = Len(at)
  /\ \A i \in 1..Len(at) : Takes(at[i], segs[i])

(* The routes of routes::router.  The mirror bootstrap path is a constant  *)
(* of another crate and is left out.                                       *)
Route(name, at, serves) == [name |-> name, at |-> at, serves |-> serves]

MachineRoutes ==
  { Route("healthz", <<"healthz">>, {"GET"}),
    Route("list_packages", <<"v1", "packages">>, {"GET"}),
    Route("get_package", <<"v1", "packages", OrgParam, NameParam>>, {"GET"}),
    Route("version", <<"v1", "packages", OrgParam, NameParam, "versions", VersionParam>>, {"GET", "PUT"}),
    Route("yank", <<"v1", "packages", OrgParam, NameParam, "versions", VersionParam, "yank">>, {"POST"}),
    Route("embedding", <<"v1", "packages", OrgParam, NameParam, "embedding">>, {"PUT"}),
    Route("signed_index", <<"v1", "packages", OrgParam, NameParam, "signed-index">>, {"GET", "PUT"}),
    Route("declared_graph", <<"v1", "packages", OrgParam, NameParam, "versions", VersionParam, "dependency-graph">>, {"GET"}),
    Route("declared_graph_export",
          <<"v1", "packages", OrgParam, NameParam, "versions", VersionParam, "dependency-graph", "export", FormatParam>>, {"GET"}),
    Route("resolution_graph", <<"v1", "resolutions", ResolutionParam, "dependency-graph">>, {"GET"}),
    Route("artifact", <<"v1", "artifacts", Sha256Param>>, {"GET"}),
    Route("files", <<"v1", "files", OrgParam, NameParam, VersionParam, AnyRest>>, {"GET"}),
    Route("search", <<"v1", "search">>, {"GET"}),
    Route("semantic_search", <<"v1", "search", "semantic">>, {"POST"}),
    Route("claim_org", <<"v1", "orgs">>, {"POST"}),
    Route("org_keys", <<"v1", "orgs", OrgParam, "keys">>, {"GET", "PUT"}),
    Route("mirrors", <<"v1", "mirrors">>, {"GET"}),
    Route("audit", <<"v1", "orgs", OrgParam, "audit">>, {"GET"}),
    Route("audit_verify", <<"v1", "orgs", OrgParam, "audit", "verify">>, {"GET"}),
    Route("storage_status", <<"v1", "storage", "status">>, {"GET"}),
    Route("storage_artifact", <<"v1", "storage", "artifacts", Sha256Param>>, {"GET"}) }

(* The account API is nested below /api/v1 and, for older clients, /v1.    *)
account_routes ==
  { <<"auth", "config">>, <<"auth", "exchange">>, <<"account", "me">>,
    <<"account", "home">>, <<"account", "search">>, <<"account", "orgs">>,
    <<"account", "orgs", AnyOne>>, <<"account", "orgs", AnyOne, "invitations">>, <<"account", "orgs", AnyOne, "projects">>,
    <<"account", "orgs", AnyOne, "projects", AnyOne>>, <<"account", "orgs", AnyOne, "projects", AnyOne, "invitations">>,
    <<"account", "orgs", AnyOne, "packages">>, <<"account", "orgs", AnyOne, "packages", AnyOne, "settings">>,
    <<"account", "orgs", AnyOne, "packages", AnyOne, "public">>, <<"account", "orgs", AnyOne, "packages", AnyOne, "licenses">>,
    <<"account", "orgs", AnyOne, "packages", AnyOne, "uploads">> }

AccountRoutes ==
  {<<"api", "v1">> \o r : r \in account_routes} \cup {<<"v1">> \o r : r \in account_routes}
    \cup { <<"v1", "session", "bootstrap">>, <<"v1", "me">>, <<"v1", "me", "home">>,
           <<"v1", "account", "orgs", AnyOne, "dashboard">>, <<"v1", "account", "orgs", AnyOne, "packages", AnyOne>> }

(***************************************************************************)
(* The boundary's own table, with the methods each entry admits.           *)
(***************************************************************************)
READ == {"GET", "HEAD", "OPTIONS"}
POST == {"POST", "OPTIONS"}
PUT == {"PUT", "OPTIONS"}
VERSION == READ \cup PUT

RegistryTable ==
  { Route("healthz", <<"healthz">>, READ),
    Route("list_packages", <<"v1", "packages">>, READ),
    Route("get_package", <<"v1", "packages", Slug, Slug>>, READ),
    Route("version", <<"v1", "packages", Slug, Slug, "versions", VersionText>>, VERSION),
    Route("yank", <<"v1", "packages", Slug, Slug, "versions", VersionText, "yank">>, POST),
    Route("embedding", <<"v1", "packages", Slug, Slug, "embedding">>, PUT),
    Route("declared_graph", <<"v1", "packages", Slug, Slug, "versions", VersionText, "dependency-graph">>, READ),
    Route("declared_graph_export",
          <<"v1", "packages", Slug, Slug, "versions", VersionText, "dependency-graph", "export", Slug>>, READ),
    Route("artifact", <<"v1", "artifacts", Digest>>, READ),
    Route("files", <<"v1", "files", Slug, Slug, VersionText, FilesRest>>, READ),
    Route("search", <<"v1", "search">>, READ),
    Route("semantic_search", <<"v1", "search", "semantic">>, POST),
    Route("claim_org", <<"v1", "orgs">>, POST),
    Route("audit", <<"v1", "orgs", Slug, "audit">>, READ),
    Route("audit_verify", <<"v1", "orgs", Slug, "audit", "verify">>, READ),
    Route("resolution_graph", <<"v1", "resolutions", Resolution, "dependency-graph">>, READ) }

\* Mutant: the arm of the yank route is missing.
YankForgotten(path) ==
  IF path.refused \/ ~path.rooted THEN {}
  ELSE {r \in RegistryTable : r.name # "yank" /\ Matches(r.at, path.segs)}

(* The entry a path selects, if any.  Slashes that end the path are        *)
(* trimmed here, and only here.                                            *)
registry_route(path) ==
  IF path.refused \/ ~path.rooted THEN {} ELSE {r \in RegistryTable : Matches(r.at, path.segs)}

(***************************************************************************)
(* The host a request names: the Host header, or the URI's authority when  *)
(* there is no readable header.  A name is the sequence of its labels, the *)
(* empty sequence for a name that is not given.  Letter case and final     *)
(* dots are folded; a port is stripped when all its characters are digits. *)
(***************************************************************************)
request_host(request) == IF request.header # <<>> THEN request.header ELSE request.authority

\* "registry." begins the name and ".zpkg.net" ends it.
is_registry_host(request) ==
  LET host == request_host(request)
  IN  /\ request.port # "text"
      /\ Len(host) >= 3
      /\ host[1] = "registry" /\ host[Len(host) - 1] = "zpkg" /\ host[Len(host)] = "net"

(* decide: the boundary's verdict on a request.                            *)
decide(request) ==
  LET routes == registry_route(request.path)
  IN  IF ~is_registry_host(request) THEN [verdict |-> "bypass", route |-> "none"]
      ELSE IF routes = {} THEN [verdict |-> "reject_route", route |-> "none"]
      ELSE LET r == CHOOSE r \in routes : TRUE
           IN  [verdict |-> IF request.method \in r.serves THEN "allow" ELSE "reject_method",
                route |-> r.name]

(* What the request reaches behind the boundary: axum trims no slash (only *)
(* "{*path}" takes one that ends the path), HEAD is answered by the GET    *)
(* handler and OPTIONS by none.                                            *)
Handler(method) == IF method = "HEAD" THEN "GET" ELSE method

Reached(routes, request) ==
  {r \in routes : /\ request.path.trailing => Last(r.at) = AnyRest
                  /\ Matches(r.at, request.path.segs)
                  /\ Handler(request.method) \in r.serves}

(* Machine routes that the boundary's table does not list.                 *)
OffTheRegistryHost == {"signed_index", "org_keys", "mirrors", "storage_status", "storage_artifact"}

(* What the registry admits under a parameter of that name.                *)
Admits(param, s) ==
  /\ param \in {OrgParam, NameParam, FormatParam} => s \notin {Dotted, Odd, Prefixed}
  /\ param = VersionParam => s \notin {Odd, Prefixed}
  /\ param = Sha256Param => s = Hex64
  /\ param = ResolutionParam => s = Prefixed

(* The path names something: each parameter of route r is well formed.     *)
Names(path, r) == \A i \in 1..Len(r.at) : Admits(r.at[i], path.segs[i])

(***************************************************************************)
(* On a registry host the boundary and the router agree: what it allows    *)
(* is no account route, and reaches, when it reaches anything, the machine *)
(* route of the same name; a method it refuses has no handler on that      *)
(* path; and a path it refuses is a machine route, with parameters or      *)
(* without, only when that route is kept off the host, a parameter of the  *)
(* path is not well formed, or the path has something refused outright.    *)
(***************************************************************************)
BoundaryAgrees(request, d) ==
  LET reached == Reached(MachineRoutes, request)
  IN  CASE d.verdict = "bypass" -> ~is_registry_host(request)
        [] d.verdict = "allow" ->
             /\ ~ \E at \in AccountRoutes : Matches(at, request.path.segs)
             /\ \A r \in reached : r.name = d.route
             /\ reached = {} => request.method = "OPTIONS" \/ request.path.trailing
        [] d.verdict = "reject_method" -> reached = {}
        [] OTHER -> \A r \in reached :
                       \/ r.name \in OffTheRegistryHost \/ ~Names(request.path, r)
                       \/ request.path.refused \/ ~request.path.rooted
====
