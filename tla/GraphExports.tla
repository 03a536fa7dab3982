---------------------------- MODULE GraphExports ----------------------------
(***************************************************************************)
(* The representations of one finalized dependency graph: TOML, YAML, DOT  *)
(* and Mermaid of src/routes/graph.rs; XML, CSV, MessagePack and Protocol  *)
(* Buffers of src/routes/graph_exports.                                    *)
(*                                                                         *)
(* A text is a word: "cr", "lf" and "tab" stand for the characters that    *)
(* XML readers normalize, "ctl" for one XML cannot hold, "=1" and " =1"    *)
(* for formulas, the second behind a blank.  An optional text that is not  *)
(* there is Absent; a projection is a sequence of at most one.             *)
(* An encoder gives the sequence of things it writes; what a reader sees   *)
(* of them is a separate operator.                                         *)
(***************************************************************************)
EXTENDS Integers, Sequences, SequencesExt, FiniteSets

Absent == "absent"
Some(x) == IF x = Absent THEN <<>> ELSE <<x>>

(* dependency_kind_code, completeness_code.                                *)
dependency_kind_code(kind) ==
  CASE kind = "runtime" -> 1 [] kind = "build" -> 2 [] kind = "development" -> 3
    [] kind = "peer" -> 4 [] kind = "tooling" -> 5
completeness_code(c) == CASE c = "complete" -> 1 [] c = "projected" -> 2

(* Both views of the document have the same parts for the encoders that    *)
(* draw or tabulate edges.                                                 *)
EdgesOf(d) == IF d.view = "declared"
              THEN [i \in DOMAIN d.deps |-> [from |-> d.package, to |-> d.deps[i].to,
                                             requirement |-> d.deps[i].requirement]]
              ELSE [i \in DOMAIN d.edges |-> [from |-> d.edges[i].from, to |-> d.edges[i].to,
                                              requirement |-> d.edges[i].requirement]]

-----------------------------------------------------------------------------
(* Protocol Buffers: a message is the sequence of its <<field, value>>.    *)
(* Strings and messages are always written, false is not.                  *)
proto_string(field, x) == <<<<field, x>>>>
proto_bool(field, b) == IF b THEN <<<<field, 1>>>> ELSE <<>>
Repeated(field, xs) == [i \in DOMAIN xs |-> <<field, xs[i]>>]
Optional(field, x) == Repeated(field, Some(x))

proto_declared_dependency(x) ==
  proto_string(1, x.to) \o proto_string(4, x.requirement)
    \o proto_string(5, dependency_kind_code(x.kind))
    \o proto_bool(6, x.optional) \o proto_bool(7, x.default_features)
    \o Repeated(8, x.features) \o Optional(9, x.target)

proto_resolved_node(n) ==
  proto_string(1, n.id) \o Optional(2, n.artifact_digest) \o Repeated(3, n.features)

proto_resolved_edge(e) ==
  proto_string(1, e.from) \o proto_string(2, e.to) \o proto_string(3, dependency_kind_code(e.kind))
    \o Optional(4, e.requirement) \o Optional(5, e.target) \o proto_bool(6, e.optional)
    \o Repeated(7, e.features)

proto_provenance(p) ==
  proto_string(2, p.target) \o Repeated(3, p.enabled_features)
    \o Repeated(4, p.registry_snapshots) \o proto_string(5, p.lock_digest)

proto_projection(p) ==
  Optional(1, p.target) \o Repeated(2, p.features)
    \o [i \in DOMAIN p.kinds |-> <<3, dependency_kind_code(p.kinds[i])>>]
    \o Optional(4, p.max_depth)

proto_encode(d) ==
  IF d.view = "declared"
  THEN <<10, <<<<1, d.package>>>> \o
             [i \in DOMAIN d.deps |-> <<2, proto_declared_dependency(d.deps[i])>>]>>
  ELSE <<11, <<<<1, completeness_code(d.completeness)>>>>
             \o Repeated(2, d.roots)
             \o [i \in DOMAIN d.nodes |-> <<3, proto_resolved_node(d.nodes[i])>>]
             \o [i \in DOMAIN d.edges |-> <<4, proto_resolved_edge(d.edges[i])>>]
             \o <<<<5, proto_provenance(d.provenance)>>>>
             \o Optional(6, d.parent)
             \o [i \in DOMAIN d.projection |-> <<7, proto_projection(d.projection[i])>>]>>

(***************************************************************************)
(* XML.  A reader turns a literal tab, line feed or carriage return of an  *)
(* attribute into a space, and a literal carriage return of a text into a  *)
(* line feed; character references come through.                           *)
(***************************************************************************)
Referenced(x, attribute) == x = "cr" \/ (x \in {"lf", "tab"} /\ attribute)

xml_escaped(x, attribute) ==
  CASE Referenced(x, attribute) -> x
    [] x \in {"lf", "tab"} /\ attribute -> " "
    [] x = "cr" -> IF attribute THEN " " ELSE "lf"
    [] OTHER -> x

(* The texts that pass through it; one that XML 1.0 cannot hold makes the  *)
(* whole graph graph_not_representable.                                    *)
XmlTexts(d) ==
  IF d.view = "declared"
  THEN {d.package}
         \cup UNION {{x.to, x.requirement, x.target} \cup ToSet(x.features) : x \in ToSet(d.deps)}
  ELSE {d.parent, d.provenance.target, d.provenance.lock_digest}
         \cup ToSet(d.roots) \cup ToSet(d.provenance.enabled_features)
         \cup ToSet(d.provenance.registry_snapshots)
         \cup UNION {{n.id, n.artifact_digest} \cup ToSet(n.features) : n \in ToSet(d.nodes)}
         \cup UNION {{e.from, e.to, e.requirement, e.target} \cup ToSet(e.features)
                       : e \in ToSet(d.edges)}
         \cup UNION {{p.target} \cup ToSet(p.features) : p \in ToSet(d.projection)}

is_xml_10_character(x) == x # "ctl"
graph_not_representable == <<"422">>

xml_attribute(name, x) == <<<<name, xml_escaped(x, TRUE)>>>>
xml_optional(name, x) == IF x = Absent THEN <<>> ELSE xml_attribute(name, x)
xml_features(xs) == [i \in DOMAIN xs |-> xml_escaped(xs[i], FALSE)]
bool_name(b) == IF b THEN "true" ELSE "false"

Element(tag, attributes, children) == <<tag, attributes, children>>

xml_provenance(p) ==
  Element("provenance",
          xml_attribute("target", p.target) \o xml_attribute("lock-digest", p.lock_digest),
          <<xml_features(p.enabled_features), p.registry_snapshots>>)

xml_projection(p) ==
  Element("projection", xml_optional("target", p.target) \o xml_optional("max-depth", p.max_depth),
          <<xml_features(p.features), p.kinds>>)

xml_encode(d) ==
  IF \E x \in XmlTexts(d) : ~is_xml_10_character(x) THEN graph_not_representable
  ELSE IF d.view = "declared"
  THEN <<"declared", Element("package", xml_attribute("id", d.package), <<>>),
         [i \in DOMAIN d.deps |->
            LET x == d.deps[i]
            IN  Element("dependency",
                  xml_attribute("id", x.to) \o xml_attribute("requirement", x.requirement)
                    \o xml_attribute("kind", x.kind)
                    \o xml_attribute("optional", bool_name(x.optional))
                    \o xml_attribute("default-features", bool_name(x.default_features))
                    \o xml_optional("target", x.target),
                  xml_features(x.features))]>>
  ELSE <<"resolved", d.completeness, d.roots,
         [i \in DOMAIN d.nodes |->
            Element("node", xml_attribute("id", d.nodes[i].id)
                              \o xml_optional("artifact-digest", d.nodes[i].artifact_digest),
                    xml_features(d.nodes[i].features))],
         [i \in DOMAIN d.edges |->
            LET e == d.edges[i]
            IN  Element("edge",
                  xml_attribute("kind", e.kind) \o xml_attribute("optional", bool_name(e.optional))
                    \o xml_optional("requirement", e.requirement) \o xml_optional("target", e.target),
                  <<e.from, e.to>> \o xml_features(e.features))],
         xml_provenance(d.provenance), xml_optional("parent", d.parent),
         [i \in DOMAIN d.projection |-> xml_projection(d.projection[i])]>>

(***************************************************************************)
(* CSV: a header row, then one row for the package or for every root and   *)
(* node, then one for every edge.  A cell that starts with a tab or a line *)
(* break, or with an operator behind blanks, is prefixed with an           *)
(* apostrophe.                                                             *)
(***************************************************************************)
trim_start(x) == IF x = " =1" THEN "=1" ELSE IF x \in {"cr", "lf", "tab"} THEN "" ELSE x
spreadsheet_unsafe(x) == x \in {"tab", "cr", "lf"} \/ trim_start(x) = "=1"

csv_field(x) == IF spreadsheet_unsafe(x) THEN <<"'", x>> ELSE <<x>>

Row(type, from, to, requirement) ==
  <<csv_field(type), csv_field(from), csv_field(to), csv_field(requirement)>>

csv_encode(d) ==
  LET edges == EdgesOf(d)
      nodes == IF d.view = "declared" THEN <<Row("node", d.package, "", "")>>
               ELSE [i \in DOMAIN d.roots |-> Row("root", d.roots[i], "", "")]
                      \o [i \in DOMAIN d.nodes |-> Row("node", d.nodes[i].id, "", "")]
  IN  nodes \o [i \in DOMAIN edges |->
                  Row("edge", edges[i].from, edges[i].to,
                      IF edges[i].requirement = Absent THEN "" ELSE edges[i].requirement)]

(***************************************************************************)
(* DOT and Mermaid: statements declaring a node or drawing an edge.  In    *)
(* the declared view a dependency's node is named by its requirement too.  *)
(***************************************************************************)
graph_node_id(x) == <<"n", x>>
Declares(x) == <<"node", graph_node_id(x)>>
Draws(x, y) == <<"edge", graph_node_id(x), graph_node_id(y)>>

render_dot(d) ==
  IF d.view = "declared"
  THEN <<Declares(<<d.package>>)>>
         \o FlattenSeq([i \in DOMAIN d.deps |->
              LET target == <<d.deps[i].to, d.deps[i].requirement>>
              IN  <<Declares(target), Draws(<<d.package>>, target)>>])
  ELSE [i \in DOMAIN d.nodes |-> Declares(<<d.nodes[i].id>>)]
         \o [i \in DOMAIN d.edges |-> Draws(<<d.edges[i].from>>, <<d.edges[i].to>>)]

(* Mermaid declares and draws the same things in the same order.           *)
render_mermaid(d) == render_dot(d)
-----------------------------------------------------------------------------
(* MessagePack and Protocol Buffers frame every value with a length or an  *)
(* integer of the narrowest width that holds it.                           *)
BigEndian(n, width) == [i \in 1..width |-> (n \div 256^(width - i)) % 256]

messagepack_u64(n) ==
  CASE n <= 127 -> <<n>>
    [] n \in 128..255 -> <<204, n>>
    [] n \in 256..65535 -> <<205>> \o BigEndian(n, 2)
    [] OTHER -> <<206>> \o BigEndian(n, 4)

messagepack_string(n) ==
  CASE n <= 31 -> <<160 + n>>
    [] n \in 32..255 -> <<217, n>>
    [] n \in 256..65535 -> <<218>> \o BigEndian(n, 2)
    [] OTHER -> <<219>> \o BigEndian(n, 4)

messagepack_array_len(n) ==
  CASE n <= 15 -> <<144 + n>>
    [] n \in 16..65535 -> <<220>> \o BigEndian(n, 2)
    [] OTHER -> <<221>> \o BigEndian(n, 4)

messagepack_map_len(n) ==
  CASE n <= 15 -> <<128 + n>>
    [] n \in 16..65535 -> <<222>> \o BigEndian(n, 2)
    [] OTHER -> <<223>> \o BigEndian(n, 4)

proto_varint[n \in Nat] ==
  IF n < 128 THEN <<n>> ELSE <<128 + (n % 128)>> \o proto_varint[n \div 128]

(* A spreadsheet skips what is blank and runs a cell that then starts with *)
(* an operator.                                                            *)
Characters(x) ==
  CASE x = "" -> <<>> [] x = "=1" -> <<"=", "1">> [] x = " =1" -> <<" ", "=", "1">> [] OTHER -> <<x>>

Runs(cell) ==
  LET printed == SelectSeq(FlattenSeq([i \in DOMAIN cell |-> Characters(cell[i])]),
                           LAMBDA ch : ch \notin {" ", "tab", "cr", "lf"})
  IN  printed # <<>> /\ Head(printed) \in {"=", "+", "-", "@"}

(* What a MessagePack reader makes of a head, by the format's own table.   *)
RECURSIVE Number(_)
Number(bytes) == IF bytes = <<>> THEN 0 ELSE 256 * Number(Front(bytes)) + Last(bytes)

ReadHead(bytes) ==
  LET b == Head(bytes)
      n == Number(Tail(bytes))
  IN  CASE b < 128 -> <<"uint", b>>
        [] b \in 128..143 -> <<"map", b - 128>>
        [] b \in 144..159 -> <<"array", b - 144>>
        [] b \in 160..191 -> <<"string", b - 160>>
        [] b \in 204..206 -> <<"uint", n>>
        [] b \in 217..219 -> <<"string", n>>
        [] b \in 220..221 -> <<"array", n>>
        [] b \in 222..223 -> <<"map", n>>
        [] OTHER -> <<"other", b>>

ReadVarint(bytes) ==
  FoldRight(LAMBDA b, acc : (b % 128) + 128 * acc, bytes, 0)

-----------------------------------------------------------------------------
(* Canonical JSON, for the two authoritative text projections: a scalar,   *)
(* an array or an object, the latter a sequence of <<key, value>>.         *)
Scalar(x) == [is |-> "scalar", of |-> x]
Array(xs) == [is |-> "array", of |-> xs]
Object(ms) == [is |-> "object", of |-> ms]

is_toml_table(v) == v.is = "object" /\ v.of # <<>>
is_toml_array_of_tables(v) ==
  v.is = "array" /\ v.of # <<>> /\ \A i \in DOMAIN v.of : v.of[i].is = "object"

Assign(m) == <<"=", m[1], m[2]>>
Assigns(ms) == [i \in DOMAIN ms |-> Assign(ms[i])]

(* write_toml: plain members, then tables, then arrays of tables; whatever *)
(* is nested deeper is written inline.                                     *)
Lines(m) ==
  CASE is_toml_table(m[2]) -> <<<<"[]", m[1]>>>> \o Assigns(m[2].of)
    [] is_toml_array_of_tables(m[2]) ->
         FlattenSeq([i \in DOMAIN m[2].of |-> <<<<"[[]]", m[1]>>>> \o Assigns(m[2].of[i].of)])
    [] OTHER -> <<Assign(m)>>

\* Mutant: one pass in the document's own order.
WriteInOrder(root) == FlattenSeq([i \in DOMAIN root.of |-> Lines(root.of[i])])

write_toml(root) ==
  LET Pass(Is(_)) == LET ms == SelectSeq(root.of, LAMBDA m : Is(m[2]))
                     IN  FlattenSeq([i \in DOMAIN ms |-> Lines(ms[i])])
  IN  Pass(LAMBDA v : ~is_toml_table(v) /\ ~is_toml_array_of_tables(v))
        \o Pass(is_toml_table) \o Pass(is_toml_array_of_tables)

(* A TOML reader: an assignment belongs to the last header before it.  The *)
(* result is the set of <<table, index, key, value>> it has collected.     *)
ReadToml(lines) ==
  LET Step(acc, l) ==
        CASE l[1] = "=" -> [acc EXCEPT !.got = @ \cup {<<acc.table, acc.n, l[2], l[3]>>}]
          [] l[1] = "[]" -> [acc EXCEPT !.table = l[2], !.n = 0, !.got = @ \cup {<<l[2]>>}]
          [] OTHER -> [acc EXCEPT !.table = l[2], !.n = IF acc.table = l[2] THEN @ + 1 ELSE 1,
                                  !.got = @ \cup {<<l[2], IF acc.table = l[2] THEN acc.n + 1 ELSE 1>>}]
  IN  FoldLeft(Step, [table |-> "", n |-> 0, got |-> {}], lines).got

(* The same members, read off the document.                                *)
Members(root) ==
  UNION { LET m == root.of[i]
          IN  CASE is_toml_table(m[2]) ->
                     {<<m[1]>>} \cup {<<m[1], 0, x[1], x[2]>> : x \in ToSet(m[2].of)}
                [] is_toml_array_of_tables(m[2]) ->
                     UNION {{<<m[1], j>>} \cup {<<m[1], j, x[1], x[2]>> : x \in ToSet(m[2].of[j].of)}
                              : j \in DOMAIN m[2].of}
                [] OTHER -> {<<"", 0, m[1], m[2]>>}
          : i \in DOMAIN root.of }

(***************************************************************************)
(* write_yaml: where every key and every dash starts.  A mark is <<path,   *)
(* column>>, the path of the object or array it belongs to.  The first key *)
(* of an object in an array rides the dash, its own padding trimmed; an    *)
(* array directly in an array keeps its padding after the dash, which the  *)
(* documents of the contract never contain.                                *)
(***************************************************************************)
Rides(indent) == indent + 1

RECURSIVE write_yaml(_, _, _)
write_yaml(v, indent, path) ==
  CASE v.is = "object" ->
         FlattenSeq([i \in DOMAIN v.of |->
           <<<<path, 2 * indent>>>>
             \o write_yaml(v.of[i][2], indent + 1, Append(path, i))])
    [] v.is = "array" ->
         FlattenSeq([i \in DOMAIN v.of |->
           LET nested == write_yaml(v.of[i], Rides(indent), Append(path, i))
               padding == IF v.of[i].is = "object" THEN 0 ELSE nested[1][2]
           IN  <<<<path, 2 * indent>>>>
                 \o IF nested = <<>> THEN <<>>
                    ELSE <<<<nested[1][1], 2 * indent + 2 + padding>>>> \o Tail(nested)])
    [] OTHER -> <<>>

Aligned(marks) ==
  \A i, j \in DOMAIN marks :
    /\ marks[i][1] = marks[j][1] => marks[i][2] = marks[j][2]
    /\ marks[i][1] # marks[j][1] /\ IsPrefix(marks[i][1], marks[j][1]) => marks[i][2] < marks[j][2]

-----------------------------------------------------------------------------
(***************************************************************************)
(* The representations that call themselves lossless are: no other graph   *)
(* of the set reads back the same from Protocol Buffers, nor from XML when *)
(* it is served at all.  The drawings and the table show every edge        *)
(* between nodes they declare, and a spreadsheet runs no cell.             *)
(***************************************************************************)
ProjectionsAreFaithful(d, documents) ==
  /\ \A e \in documents \ {d} : /\ proto_encode(e) # proto_encode(d)
                                 /\ xml_encode(d) # graph_not_representable => xml_encode(e) # xml_encode(d)
  /\ LET drawing == render_mermaid(d)
         table == csv_encode(d)
         drawn == SelectSeq(drawing, LAMBDA s : s[1] = "edge")
     IN  /\ Len(drawn) = Len(EdgesOf(d))
         /\ \A i \in DOMAIN drawn, end \in {2, 3} : <<"node", drawn[i][end]>> \in ToSet(drawing)
         /\ Len(SelectSeq(table, LAMBDA r : r[1] = <<"edge">>)) = Len(EdgesOf(d))
         /\ \A r \in ToSet(table), c \in 1..4 : ~Runs(r[c])

(***************************************************************************)
(* The text and binary writers are readable by their formats' own rules:   *)
(* every member of a document lands in the TOML table it came from, the    *)
(* members of one YAML object or array start in one column right of their  *)
(* parent's, and a length written at any width boundary reads back.        *)
(***************************************************************************)
WritersAreReadable(root, n) ==
  /\ ReadToml(write_toml(root)) = Members(root)
  /\ Aligned(write_yaml(root, 0, <<>>))
  /\ ReadHead(messagepack_string(n)) = <<"string", n>>
  /\ ReadHead(messagepack_array_len(n)) = <<"array", n>>
  /\ ReadHead(messagepack_map_len(n)) = <<"map", n>>
  /\ ReadHead(messagepack_u64(n)) = <<"uint", n>>
  /\ ReadVarint(proto_varint[n]) = n
====
