----------------------------- MODULE MCDecisions -----------------------------
(***************************************************************************)
(* The server's pure decisions, each over a bounded set of inputs: the     *)
(* registry-host boundary, delegated authentication and private artifact   *)
(* reads, binary archive verification, content negotiation, the graph      *)
(* writers and package admission.  A behaviour takes one input and decides *)
(* it once.                                                                *)
(***************************************************************************)
EXTENDS Decisions, GraphNegotiation, GraphExports

Near(r, Values(_)) == {r} \cup UNION {{[r EXCEPT ![f] = x] : x \in Values(f)} : f \in DOMAIN r}

-----------------------------------------------------------------------------
(* Requests: every route's path with parameters from Words, at most one of *)
(* them not "acme", cut or extended by one segment, each method.           *)
Words == {"acme", Dotted, Odd, Hex64, Prefixed}
Methods == {"GET", "HEAD", "PUT", "POST", "PATCH", "DELETE", "OPTIONS"}
Patterns == {r.at : r \in MachineRoutes} \cup AccountRoutes

Fillings(at) ==
  LET params == {i \in DOMAIN at : at[i] \in Params \cup {AnyRest}}
      plain == [i \in DOMAIN at |-> IF i \in params THEN "acme" ELSE at[i]]
  IN  {plain} \cup UNION {{[plain EXCEPT ![i] = w] : w \in Words} : i \in params}

Segments ==
  LET exact == UNION {Fillings(at) : at \in Patterns}
  IN  exact \cup {Front(s) : s \in {t \in exact : Len(t) > 1}}
            \cup {Append(s, w) : s \in exact, w \in {"acme", "keys"}}

Path(s) == [segs |-> s, rooted |-> TRUE, trailing |-> FALSE, refused |-> FALSE]
PathVariants(f) == IF f = "rooted" THEN {FALSE} ELSE IF f = "segs" THEN {} ELSE {TRUE}

Request(path, method) ==
  [header |-> <<"registry", "zpkg", "net">>, authority |-> <<"api", "zpkg", "net">>, port |-> "none",
   path |-> path, method |-> method]

HostVariants(f) ==
  CASE f = "header" -> {<<>>, <<"zpkg", "net">>, <<"registry", "net">>, <<"registry", "aws", "zpkg", "net">>,
                        <<"registry-aws", "zpkg", "net">>, <<"registry", "zpkg", "net", "org">>}
    [] f = "authority" -> {<<"registry", "zpkg", "net">>}
    [] f = "port" -> {"digits", "text"}
    [] OTHER -> {}

MCRequests ==
  {Request(Path(s), m) : s \in Segments, m \in Methods}
    \cup {Request(p, "GET") : p \in UNION {Near(Path(s), PathVariants) : s \in Segments}}
    \cup UNION {UNION {Near(q, HostVariants) : q \in Near(Request(Path(s), "GET"), HostVariants)}
                  : s \in {<<"v1", "me">>, <<"v1", "packages">>}}

-----------------------------------------------------------------------------
(* Verdicts of Shared Auth: at most two claims away from a good web or CLI *)
(* token; calls at most one step away from a good one.                     *)
GoodClaims == [active |-> TRUE, sub |-> "uuid", iss |-> "text", sid |-> "text", azp |-> "zpkg-web",
               parent_jti |-> "text", scope |-> "account", auth_realm |-> "none", realm |-> "none",
               display_name |-> "none", avatar_url |-> "none"]
CliClaims == [GoodClaims EXCEPT !.azp = "zpkg-cli", !.scope = "both"]

ClaimVariants(f) ==
  CASE f = "active" -> {FALSE}
    [] f = "sub" -> {"none", "bad", "text"}
    [] f = "azp" -> {"none", "bad", "zpkg-web", "zpkg-cli", "other"}
    [] f = "scope" -> {"none", "bad", "neither", "account", "read", "both"}
    [] f \in {"auth_realm", "realm"} -> {"bad", "customer", "staff"}
    [] OTHER -> {"none", "bad"}

GoodCall == [bearer |-> "ok", client |-> TRUE, audience |-> TRUE, credential |-> TRUE,
             base |-> TRUE, reply |-> "verdict"]

CallVariants(f) ==
  CASE f = "bearer" -> {"none", "control"}
    [] f = "reply" -> {"401", "status", "transport", "garbled"}
    [] OTHER -> {FALSE}

Claims == UNION {UNION {Near(w, ClaimVariants) : w \in Near(v, ClaimVariants)} : v \in {GoodClaims, CliClaims}}

MCLogins == [call : Near(GoodCall, CallVariants), claims : Claims, application_id : {"zpkg-web", "zpkg-cli"}]

ReadsBy(calls, claims, planes) ==
  [call : calls, claims : claims, known : BOOLEAN, refs : SUBSET [public : BOOLEAN, member : BOOLEAN],
   recorded : BOOLEAN, plane : planes]

MCReads == ReadsBy(Near(GoodCall, CallVariants), Near(CliClaims, ClaimVariants), {"ok"})
             \cup ReadsBy(Near(GoodCall, CallVariants), {CliClaims}, {"none", "packages", "user", "roles", "version"})

-----------------------------------------------------------------------------
(* Archives: the descriptor, the manifest and two more entries in any      *)
(* order; shorter ones of any entries; and one deviation of one entry, of  *)
(* the descriptor or of a limit.                                           *)
Entry(raw, kind) ==
  [raw |-> raw, canonical |-> TRUE, kind |-> kind, encoding |-> "plain",
   size |-> IF kind = "dir" THEN 0 ELSE 1, packed |-> 1, digest |-> raw, mode |-> "none"]

DescriptorEntry == Entry(Reserved, "file")
ManifestEntry == Entry(<<Root>> \o Manifest, "file")

Pool ==
  {DescriptorEntry, ManifestEntry, Entry(<<Root>>, "dir"), Entry(<<"a">>, "file")}
    \cup {Entry(<<Root>> \o p, k) : p \in {<<"a">>, <<"A">>, <<"a", "b">>}, k \in {"file", "dir"}}
    \cup {Entry(<<Root, "DESCRIPTOR">>, "file"), Entry(<<Root, "descriptor.">>, "file"),
          Entry(<<Root, "a", "..", "descriptor">>, "file"), Entry(<<"..", Root, "descriptor">>, "file"),
          [DescriptorEntry EXCEPT !.canonical = FALSE]}

Listing(archive) ==
  [files |-> {[path |-> Relative(e), size |-> e.size, digest |-> e.digest, executable |-> "plain"]
                : e \in {f \in ToSet(archive) : f.kind = "file" /\ f # DescriptorEntry}},
   canonical |-> TRUE, manifest |-> TRUE, source |-> TRUE, prefixed |-> FALSE]

NoLimits == [expanded |-> 0, ratio |-> 0, entries |-> 0]
Case(archive) == [archive |-> archive, d |-> Listing(archive), limits |-> NoLimits]

Sample == <<DescriptorEntry, ManifestEntry, Entry(<<Root, "a">>, "file")>>

EntryVariants(f) ==
  CASE f = "kind" -> {"symlink", "dir"} [] f = "encoding" -> {"zip64"} [] f = "size" -> {2, 9}
    [] f = "packed" -> {0} [] f = "digest" -> {<<"other">>} [] f = "mode" -> {"plain", "executable"}
    [] f = "canonical" -> {FALSE} [] OTHER -> {}

ListingVariants(f) ==
  IF f = "files"
  THEN {Listing(Sample).files \ {x} : x \in Listing(Sample).files}
         \cup {Listing(Sample).files \cup {[path |-> <<"b">>, size |-> 1, digest |-> <<"b">>, executable |-> "plain"]}}
  ELSE {f = "prefixed"}

MCArchives ==
  {Case(s) : s \in {t \in [1..4 -> Pool] : {DescriptorEntry, ManifestEntry} \subseteq ToSet(t)}}
    \cup {Case(s) : s \in UNION {[1..n -> Pool] : n \in 1..2}}
    \cup {Case([Sample EXCEPT ![i] = e]) :
            <<i, e>> \in UNION {{<<j, v>> : v \in Near(Sample[j], EntryVariants)} : j \in 1..3}}
    \cup {[Case(Sample) EXCEPT !.archive[3] = e] : e \in Near(Sample[3], EntryVariants)}
    \cup {[Case(Sample) EXCEPT !.d = d] : d \in Near(Listing(Sample), ListingVariants)}
    \cup {[Case([Sample EXCEPT ![3].size = n, ![3].packed = n]) EXCEPT !.limits = l]
            : n \in 1..5, l \in [expanded : {0, 1, 9}, ratio : {0, 9}, entries : {0, 2, 9}]}

-----------------------------------------------------------------------------
(* Accept headers of up to three entries.                                  *)
AcceptEntries(ranges, params, qs) == [range : ranges, params : params, q : qs]

AllRanges == {"opaque", "*/*", "application/*", "text/*", "json", "yaml", "dot", "xml", "csv"}
Wide == AcceptEntries(AllRanges, {"none", "charset", "other"}, {"absent", "1", "0.5", "0", "1.5", "0.1234"})
Middle == AcceptEntries(AllRanges, {"none", "charset", "other"}, {"absent", "0.5", "0"})
Narrow == AcceptEntries({"*/*", "text/*", "dot"}, {"none", "charset"}, {"absent", "0.5", "0"})

Headers == {<<>>} \cup [1..1 -> Wide] \cup [1..2 -> Middle] \cup [1..3 -> Narrow]
Negotiations == [entries : Headers, commas : {FALSE}, query : {"none", "unknown", "json", "dot"}]
                  \cup [entries : {<<>>}, commas : {TRUE}, query : {"none"}]

-----------------------------------------------------------------------------
(* Graphs: declared ones with at most two dependencies, resolved ones with *)
(* a node and an edge or two.                                              *)
FeatureLists == {<<>>, <<"cr">>, <<"lf">>, <<"a", "tab">>}
DependencyKinds == {"runtime", "build", "development", "peer", "tooling"}
DependenciesOf(requirements, kinds, lists, targets) ==
  [to : {"x"}, requirement : requirements, kind : kinds, optional : BOOLEAN,
   default_features : BOOLEAN, features : lists, target : targets]
Dependencies ==
  DependenciesOf({"a", "cr", "lf"}, {"runtime", "build"}, FeatureLists, {Absent, "a"})
    \cup DependenciesOf({"a", "tab", "=1", " =1", "ctl"}, DependencyKinds, {<<>>, <<"ctl">>}, {Absent})
Few == {x \in DependenciesOf({"a", "cr", " =1"}, {"runtime", "peer"}, {<<>>}, {Absent}) : x.optional}

Declared(deps) == [view |-> "declared", package |-> "p", deps |-> deps]
Resolved == [view : {"resolved"}, completeness : {"complete", "projected"}, roots : {<<"p">>},
             nodes : {<<[id |-> "p", artifact_digest |-> a, features |-> <<>>],
                        [id |-> "x", artifact_digest |-> Absent, features |-> f]>>
                        : a \in {Absent, "a"}, f \in {<<>>, <<"cr">>, <<"lf">>}},
             edges : {<<>>} \cup {<<[from |-> "p", to |-> "x", kind |-> "build", requirement |-> r,
                                     target |-> Absent, optional |-> o, features |-> <<>>]>>
                                     : r \in {Absent, "a"}, o \in BOOLEAN},
             provenance : {[target |-> "a", enabled_features |-> <<>>, registry_snapshots |-> <<"s">>,
                            lock_digest |-> "d"]},
             parent : {Absent, "a"},
             projection : {<<>>, <<[target |-> "a", features |-> <<>>, kinds |-> <<"build">>, max_depth |-> Absent]>>}]

Documents == {Declared(<<>>)} \cup {Declared(<<x>>) : x \in Dependencies}
               \cup {Declared(s) : s \in [1..2 -> Few]} \cup Resolved

(* JSON documents of up to three members, and lengths at every boundary.   *)
Leaf == Scalar("x")
Small == Object(<<<<"a", Leaf>>>>)
Values == {Leaf, Object(<<>>), Small, Array(<<>>), Array(<<Leaf>>), Array(<<Small, Leaf>>),
           Object(<<<<"a", Array(<<Small, Leaf>>)>>, <<"b", Small>>>>),
           Array(<<Object(<<<<"a", Leaf>>, <<"b", Array(<<Small>>)>>, <<"c", Leaf>>>>), Small>>),
           Array(<<Object(<<>>), Small>>)}
Documented == UNION {{Object([i \in 1..n |-> <<<<"k", "l", "m">>[i], vs[i]>>]) : vs \in [1..n -> Values]} : n \in 1..3}
Boundaries == UNION {{n - 1, n, n + 1} : n \in {16, 32, 128, 256, 16384, 65536}}
Writings == [root : Documented, n : {0}] \cup [root : {Object(<<<<"k", Leaf>>>>)}, n : Boundaries]

-----------------------------------------------------------------------------
(* Admissions: each piece of evidence right, wrong in one digest, or not   *)
(* there yet; two receipts of each kind.                                   *)
Wrong(e) == {f \in {"source", "policy", "rebuilt"} \cap DOMAIN e : e[f] \in {"b", "t", "q"}}
Known(k) ==
  {<<>>} \cup {<<e>> : e \in {x \in Evidence(k) : x.artifact = "a" /\ Cardinality(Wrong(x)) <= 1}}

MCAdmissions ==
  [state : {"Received", "Quarantined", "PendingApproval"}, artifact : {"a"}, source : {"s"}, policy : {"p"},
   rebuild : Known("rebuild"), risk : Known("risk"), approval : Known("approval")]

-----------------------------------------------------------------------------
MCInputs(s) ==
  CASE s = "accept" -> Negotiations [] s = "export" -> Documents [] s = "writer" -> Writings

Init == \/ DecideInit
        \/ /\ subject \in {"accept", "export", "writer"}
           /\ input \in MCInputs(subject)
           /\ verdict = <<>>

Next ==
  \/ DecideNext
  \/ Decide("accept", resolve_format(input.entries, input.query))
  \/ Decide("export", xml_encode(input))
  \/ Decide("writer", write_toml(input.root))

Spec == Init /\ [][Next]_decideVars

(* graph.rs, graph_exports: the representation chosen is one the caller's  *)
(* Accept header and format= allow and prefer (NegotiationIsRespected).    *)
AcceptIsRespected ==
  Decided("accept") => NegotiationIsRespected(input.entries, input.commas, input.query, verdict[1])

(* graph.rs, graph_exports: lossless projections are lossless, drawings    *)
(* complete, and what the TOML, YAML, MessagePack and Protocol Buffers     *)
(* writers emit reads back (ProjectionsAreFaithful, WritersAreReadable).   *)
ExportsReadBack ==
  /\ Decided("export") => ProjectionsAreFaithful(input, Documents)
  /\ Decided("writer") => WritersAreReadable(input.root, input.n)
====
