--------------------------- MODULE MCBundleInspector ---------------------------
(* A small bucket and small results for BundleInspector. *)
EXTENDS BundleInspector

Seg(k, v) == <<k, v>>
Bare(v) == <<NoKey, v>>

(* A run of theme_stage with themes and types, a marker and a directory    *)
(* that the allowlist hides; a run of another user without data.           *)
Run1 == <<Bare("theme_stage"), Seg("theme", "places"), Seg("run", "1")>>
MCObjects ==
  LET at(ns, path) == [ns |-> ns, path |-> path]
      inData == Append(Run1, Bare("data"))
  IN {at("ann", inData \o <<Seg("theme", "buildings"), Seg("type", "part"), Bare("f")>>),
      at("ann", inData \o <<Seg("theme", "water"), Bare("f")>>),
      at("ann", Append(Run1, Bare("success"))),
      at("ann", Run1 \o <<Bare("tmp"), Bare("f")>>),
      at("bob", Run1 \o <<Bare("data"), Bare("places"), Bare("f")>>),
      at("bob", <<Bare("theme_stage"), Bare("places"), Seg("run", "1"), Bare("success")>>),
      at("none", inData \o <<Seg("dataset", "d"), Seg("theme", "places"), Seg("type", "place"), Bare("f")>>),
      at("none", <<Bare("release_candidate"), Seg("release", "r"), Seg("run", "2"), Bare("data"), Bare("f")>>)}

MCUsers == {"ann", "bob"}

(* A header and two rows, the first with newlines between its quotes and   *)
(* longer than a chunk; and the empty object of a statement without result.*)
MCRows == << <<"x">>, <<"q", "n", "n", "q">>, <<"x">> >>
MCFile == FlattenSeq([i \in DOMAIN MCRows |-> Append(MCRows[i], "n")])
MCCsvs == {<<>>, MCFile}

(* Splitting the file gives its rows back. *)
Spelled(rows) == [i \in DOMAIN rows |-> [j \in DOMAIN rows[i] |-> rows[i][j].mark]]
ASSUME SplitGivesRows == Spelled(splitCsvLines(Text(1, MCFile))) = MCRows

=============================================================================
