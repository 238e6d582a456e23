----------------------------- MODULE MCFilesystem -----------------------------
(* One directory with two entries, two files, and two contents of a block. *)
EXTENDS Filesystem, TLC

CONSTANTS x, y, a, b, i, j

MCBytes     == [1..2 -> {x, y}]
MCJSONBytes == {<<y, y>>}
MCValues    == {"", " raw ", "raw", "RAW", "page"}
MCTrim      == [v \in MCValues |-> IF v = " raw " THEN "raw" ELSE v]

Param(regexp, default) == [name |-> "output", regexp |-> regexp, default |-> default]
OnlyRaw == <<Param({"raw"}, "")>>
AnyCase == <<Param({"raw", "RAW"}, "page"), Param({"page"}, "")>>
ByDefault == <<Param(MCValues, "raw")>>

Base ==
  [file |-> "url", directory |-> "plain", path |-> Root, index |-> TRUE, output |-> "query",
   embedded |-> FALSE, endpoint |-> Unconfigured, method |-> OnlyRaw]

MCConfigs ==
  {Base,
   [Base EXCEPT !.endpoint = ByDefault],
   [Base EXCEPT !.endpoint = AnyCase, !.index = FALSE],
   [Base EXCEPT !.embedded = TRUE],
   [Base EXCEPT !.method = Unconfigured, !.file = "plain"],
   [Base EXCEPT !.file = "broken"],
   [Base EXCEPT !.directory = "broken", !.embedded = TRUE],
   [Base EXCEPT !.output = "raw"],
   [Base EXCEPT !.output = "broken"]}

(* A directory with a file and a directory, with two files, or none.       *)
Tree(root, first, second) == (Root :> root) @@ (a :> first) @@ (b :> second)

MCTrees    == {Tree(Dir, i, Dir), Tree(Dir, Absent, i), Tree(Absent, Absent, Absent)}
MCContents == {(i :> <<x, x>>) @@ (j :> <<y, y>>)}
=============================================================================
