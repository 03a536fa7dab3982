-------------------------- MODULE GraphNegotiation --------------------------
(***************************************************************************)
(* Choosing the representation of a dependency graph: resolve_format of    *)
(* src/routes/graph.rs (five representations, Accept and format=) and      *)
(* ensure_acceptable of src/routes/graph_exports/mod.rs (the path fixes    *)
(* the representation, Accept may still exclude it).                       *)
(*                                                                         *)
(* The Accept field-lines are the sequence of their entries.  An entry has *)
(* a media range, the parameters before its quality ("none", a charset     *)
(* that the two text representations register, or another one) and the     *)
(* text of its quality.  A field-line that is not readable text is an      *)
(* entry of the range "opaque".                                            *)
(***************************************************************************)
EXTENDS Integers, Sequences, SequencesExt, FiniteSetsExt

Formats == <<"json", "yaml", "toml", "dot", "mermaid">>
Exports == {"xml", "csv"}

(* The registered media types, as far as ranges tell them apart.           *)
IsText(f) == f \in {"dot", "mermaid", "csv"}
TypeRange(f) == IF IsText(f) THEN "text/*" ELSE "application/*"

(* A quality is 0, 1 or a fraction of at most three digits, in thousandths;*)
(* one that does not parse counts as zero, one that is absent as 1.        *)
parse_accept_quality(text) ==
  CASE text = "absent" -> 1000 [] text = "1" -> 1000 [] text = "0.5" -> 500
    [] text = "0" -> 0 [] text = "1.5" -> 0 [] text = "0.1234" -> 0

(* canonical_accept_match: <<specificity, quality>>, or NoMatch.           *)
NoMatch == <<-1, 0>>

canonical_accept_match(entry, f) ==
  LET media == CASE entry.range = "*/*" -> 0
                 [] entry.range = TypeRange(f) -> 1
                 [] entry.range = f -> 2
                 [] OTHER -> -1
      parameters == IF entry.params = "none" THEN 0
                    ELSE IF entry.params = "charset" /\ IsText(f) THEN 1 ELSE -1
  IN  IF media = -1 \/ parameters = -1 THEN NoMatch
      ELSE <<media * 256 + parameters, parse_accept_quality(entry.q)>>

\* Mutant: the better quality wins, however broad its range.
BetterQuality(candidate, current) == candidate[2] > current[2]

Better(candidate, current) ==
  candidate[1] > current[1] \/ (candidate[1] = current[1] /\ candidate[2] > current[2])

(* The entry that decides about one representation, first to last.         *)
Selected(entries, f) ==
  FoldLeft(LAMBDA current, e :
             LET candidate == canonical_accept_match(e, f)
             IN  IF candidate # NoMatch /\ (current = NoMatch \/ Better(candidate, current))
                 THEN candidate ELSE current,
           NoMatch, entries)

(* parse_accept: <<format, quality>> for every acceptable representation.  *)
parse_accept(entries) ==
  SelectSeq([i \in DOMAIN Formats |-> <<Formats[i], Selected(entries, Formats[i])[2]>>],
            LAMBDA c : c[2] > 0)

(* to_str: one unreadable field-line refuses the request.                  *)
Opaque(entries) == \E i \in DOMAIN entries : entries[i].range = "opaque"

(* The first of the best, or none.                                         *)
Preferred(accepted) ==
  FoldLeft(LAMBDA best, c : IF best[2] >= c[2] THEN best ELSE c, <<"none", 0>>, accepted)[1]

NotAcceptable == "406"

resolve_format(entries, query) ==
  LET accepted == parse_accept(entries)
  IN  CASE query = "unknown" \/ Opaque(entries) -> NotAcceptable
        [] query \notin {"none", "unknown"} ->
             IF entries = <<>> \/ \E i \in DOMAIN accepted : accepted[i][1] = query
             THEN query ELSE NotAcceptable
        [] OTHER -> IF entries = <<>> THEN "json"
                    ELSE IF accepted = <<>> THEN NotAcceptable ELSE Preferred(accepted)

(* An export's Accept is only consulted when some value is not blank; a    *)
(* line of bare commas is not blank and matches nothing.                   *)
ensure_acceptable(entries, commas, f) ==
  /\ ~Opaque(entries)
  /\ (entries = <<>> /\ ~commas) \/ Selected(entries, f)[2] > 0

-----------------------------------------------------------------------------
(* The reference: the most specific matching ranges decide, the best of    *)
(* their qualities counts, zero excludes, and a header that cannot be read *)
(* accepts nothing.                                                        *)
ReferenceQuality(entries, f) ==
  LET hits == {canonical_accept_match(entries[i], f) : i \in DOMAIN entries} \ {NoMatch}
      specific == {h \in hits : \A g \in hits : g[1] <= h[1]}
  IN  IF hits = {} \/ Opaque(entries) THEN 0 ELSE Max({h[2] : h \in specific})

(***************************************************************************)
(* Content negotiation keeps its promises for every Accept header: the     *)
(* answer is acceptable by the most specific range that names it, nothing  *)
(* acceptable is preferred to it, 406 is given only when nothing fits, the *)
(* order of the entries is irrelevant, and the export route accepts        *)
(* exactly what the same header accepts.                                   *)
(***************************************************************************)
NegotiationIsRespected(entries, commas, query, answer) ==
  LET Quality(f) == ReferenceQuality(entries, f)
      acceptable == {f \in ToSet(Formats) : entries = <<>> \/ Quality(f) > 0}
  IN  /\ IF answer = NotAcceptable
         THEN query = "unknown" \/ query \notin acceptable \cup {"none"} \/ acceptable = {}
         ELSE /\ answer \in acceptable
              /\ query # "none" => answer = query
              /\ query = "none" => \A f \in acceptable : Quality(f) <= Quality(answer)
      /\ resolve_format(Reverse(entries), query) = answer
      /\ \A f \in Exports :
           ensure_acceptable(entries, commas, f)
             <=> IF entries = <<>> THEN ~commas ELSE Quality(f) > 0
====
