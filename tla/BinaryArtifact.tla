--------------------------- MODULE BinaryArtifact ---------------------------
(***************************************************************************)
(* Verification of a self-describing binary ZIP before it is published     *)
(* (src/binary_artifact.rs, called from publish).                          *)
(*                                                                         *)
(* An archive is the sequence of entries of its central directory.  An     *)
(* entry has a raw name (the sequence of its components between slashes or *)
(* backslashes, with canonical FALSE when it is spelled with anything but  *)
(* single slashes), a kind, an encoding, the declared size, the packed     *)
(* size, the digest of its bytes, and whether its Unix mode (if any) is    *)
(* executable.  Components are words; Fold gives the lower-case word and   *)
(* Win32 the one left when trailing dots and spaces go.                    *)
(***************************************************************************)
EXTENDS Naturals, Sequences, SequencesExt, FiniteSets

CONSTANTS ExpandedCeiling,   \* DEFAULT_MAX_BINARY_EXPANDED_BYTES
          RatioCeiling,      \* DEFAULT_MAX_BINARY_COMPRESSION_RATIO
          EntriesCeiling     \* DEFAULT_MAX_BINARY_ENTRIES

\* The ceiling is a number of bytes (u64).
ASSUME ExpandedAssumption == ExpandedCeiling \in Nat

\* The shape of what is verified: an entry, and the descriptor.
Entries == [raw : Seq(STRING), canonical : BOOLEAN, kind : STRING, encoding : STRING,
            size : Nat, packed : Nat, digest : Seq(STRING), mode : STRING]
Listings == [files : SUBSET [path : Seq(STRING), size : Nat, digest : Seq(STRING), executable : STRING],
             canonical : BOOLEAN, manifest : BOOLEAN, source : BOOLEAN, prefixed : BOOLEAN]
Limits == [expanded : Nat, ratio : Nat, entries : Nat]

Root == "pkg"
Descriptor == <<"descriptor">>        \* .zpkg-binary.json, below the root
Manifest == <<"manifest">>            \* .zpkg.toml, below the root

Fold(c) == CASE c = "A" -> "a" [] c = "DESCRIPTOR" -> "descriptor" [] OTHER -> c
Win32(c) == IF c = "descriptor." THEN "descriptor" ELSE c

(* portable_path_key: the key under which two paths collide.               *)
portable_path_key(path) == [i \in DOMAIN path |-> Fold(path[i])]

Prefix(p, q) == Len(p) < Len(q) /\ SubSeq(q, 1, Len(p)) = p

(* The limits are read from the environment: an override that is unset,    *)
(* unreadable or zero (0 here) leaves the ceiling, any other can only      *)
(* tighten it.                                                             *)
bounded_u64_override(override, ceiling) ==
  IF override = 0 \/ override > ceiling THEN ceiling ELSE override

(***************************************************************************)
(* normalized_archive_path: where a raw name would land on some host, or   *)
(* <<"..">> when it climbs out of the archive.                             *)
(***************************************************************************)
Outside == <<"..">>

normalized_archive_path(raw) ==
  LET Walk(at, c) ==
        CASE at = Outside -> Outside
          [] c = "." -> at
          [] c = ".." -> IF at = <<>> THEN Outside ELSE Front(at)
          [] OTHER -> Append(at, Fold(Win32(c)))
  IN  FoldLeft(Walk, <<>>, raw)

Reserved == <<Root>> \o Descriptor

(***************************************************************************)
(* descriptor_presence: one walk over the central directory.  An alias of  *)
(* the reserved path is refused at once; a name the parser's map would     *)
(* hide is a duplicate; an encoding the profile forbids matters only once  *)
(* the exact descriptor has been seen.                                     *)
(***************************************************************************)
Exact(e) == e.raw = Reserved /\ e.canonical
Alias(e) == ~Exact(e) /\ normalized_archive_path(e.raw) = Reserved
SameName(e, f) == e.raw = f.raw /\ e.canonical = f.canonical

descriptor_presence(archive) ==
  IF \E i \in DOMAIN archive : Alias(archive[i]) THEN "refused"
  ELSE IF \E i, j \in DOMAIN archive : i # j /\ SameName(archive[i], archive[j]) THEN "refused"
  ELSE IF \A i \in DOMAIN archive : ~Exact(archive[i]) THEN "absent"
  ELSE IF \E i \in DOMAIN archive : archive[i].encoding # "plain" THEN "refused"
  ELSE "present"

(***************************************************************************)
(* verify_binary_zip, first pass: each entry against the ones before it.   *)
(* seen.keys are the portable keys of the entries met, seen.files those of *)
(* regular files, seen.paths their paths as spelled, and seen.bytes stands *)
(* for the running total: one cell for each byte they expand to.           *)
(***************************************************************************)
Relative(e) == Tail(e.raw)
IsRootDirectory(e) == e.kind = "dir" /\ e.raw = <<Root>>

WellFormed(e) ==
  /\ e.kind \in {"file", "dir"} /\ (e.kind = "dir" => e.size = 0)
  /\ e.canonical /\ e.raw # <<>> /\ Head(e.raw) = Root
  /\ \A i \in DOMAIN e.raw : e.raw[i] \notin {".", "..", "descriptor."}
  /\ Len(e.raw) > 1 \/ IsRootDirectory(e)

Key(e) == portable_path_key(Relative(e))

Body(archive) == {i \in DOMAIN archive : ~IsRootDirectory(archive[i])}
Files(archive) == {i \in Body(archive) : archive[i].kind = "file"}

\* What has been seen when the first n entries are done.
Seen(archive, n) ==
  LET files == {i \in Files(archive) : i <= n}
  IN  [keys |-> {Key(archive[i]) : i \in {j \in Body(archive) : j <= n}},
       files |-> {Key(archive[i]) : i \in files},
       paths |-> {Relative(archive[i]) : i \in files},
       bytes |-> UNION {{i} \X (1..archive[i].size) : i \in files}]

\* Mutant: a file is compared only with the files that precede it.
ConflictsWithFiles(seen, e) ==
  Key(e) \in seen.keys \/ \E f \in seen.files : Prefix(f, Key(e))

Conflicts(seen, e) ==
  \/ Key(e) \in seen.keys
  \/ \E f \in seen.files : Prefix(f, Key(e))
  \/ e.kind = "file" /\ \E k \in seen.keys : Prefix(Key(e), k)

enforce_compression_ratio(e, override) ==
  e.size = 0 \/ (e.packed # 0 /\ (e.size + e.packed - 1) \div e.packed
                                   <= bounded_u64_override(override, RatioCeiling))

ScanEntry(archive, i, limits) ==
  LET e == archive[i]
      before == Seen(archive, i - 1)
      total == Cardinality(before.bytes) + e.size
  IN  /\ WellFormed(e)
      /\ ~IsRootDirectory(e) => ~Conflicts(before, e)
      /\ e.kind = "file" => /\ enforce_compression_ratio(e, limits.ratio)
                            /\ total <= bounded_u64_override(limits.expanded, ExpandedCeiling)

(***************************************************************************)
(* Second pass: the descriptor, a set of [path, size, digest, executable]  *)
(* plus whether it is canonical JSON valid for the embedded manifest, and  *)
(* whether manifest and provenance are those of the publish request.       *)
(***************************************************************************)
EntryAt(archive, path) ==
  archive[CHOOSE i \in DOMAIN archive : archive[i].raw = <<Root>> \o path /\ archive[i].kind = "file"]

PayloadMatches(archive, f) ==
  LET e == EntryAt(archive, f.path)
  IN  /\ e.mode \in {"none", f.executable}
      /\ e.size = f.size /\ e.digest = f.digest

ensure_descriptor_matches_publish(d) == d.source

DescriptorHolds(archive, d, paths) ==
  /\ Descriptor \in paths /\ Manifest \in paths
  /\ d.canonical /\ d.manifest
  /\ ensure_descriptor_matches_publish(d)
  /\ paths \ {Descriptor} = {f.path : f \in d.files}
  /\ Cardinality(d.files) + 1 = Cardinality(paths)
  /\ \A f \in d.files : PayloadMatches(archive, f)

verify_binary_zip(archive, d, limits) ==
  /\ Len(archive) <= bounded_u64_override(limits.entries, EntriesCeiling)
  /\ ~d.prefixed                                \* require_canonical_zip_magic
  /\ \A i \in DOMAIN archive : ScanEntry(archive, i, limits)
  /\ DescriptorHolds(archive, d, Seen(archive, Len(archive)).paths)

(* verify_publish on a ZIP of the declared size: "source" is Ok(None).     *)
verify_publish(archive, d, limits) ==
  LET presence == descriptor_presence(archive)
  IN  CASE presence = "absent" -> "source"
        [] presence = "present" /\ verify_binary_zip(archive, d, limits) -> "binary"
        [] OTHER -> "refused"

-----------------------------------------------------------------------------
\* The bytes an archive expands to, one cell for each.
Expanded(archive) == UNION {{i} \X (1..archive[i].size) : i \in DOMAIN archive}

(***************************************************************************)
(* What publishing relies on.  An archive accepted as binary unpacks to    *)
(* one tree on every host, case-insensitive ones included, in whatever     *)
(* order its entries come: no two entries share a key, no file is on the   *)
(* way to another entry, its files are the descriptor and what it lists,   *)
(* byte for byte, and it stays within the built-in ceilings whatever the   *)
(* environment says.  One accepted as source has no entry that any host    *)
(* would unpack as the descriptor.                                         *)
(***************************************************************************)
UnpacksAsDescribed(archive, d, verdict) ==
  LET body == Body(archive)
      files == Files(archive)
  IN  CASE verdict = "binary" ->
             /\ \A i, j \in body : i # j => Key(archive[i]) # Key(archive[j])
             /\ \A i \in files, j \in body : ~Prefix(Key(archive[i]), Key(archive[j]))
             /\ {Relative(archive[i]) : i \in files} = {f.path : f \in d.files} \cup {Descriptor}
             /\ \A f \in d.files : \E i \in files :
                  Relative(archive[i]) = f.path /\ archive[i].digest = f.digest
             /\ Cardinality(Expanded(archive)) <= ExpandedCeiling
        [] verdict = "source" ->
             \A i \in DOMAIN archive : normalized_archive_path(archive[i].raw) # Reserved
        [] OTHER -> TRUE
====
