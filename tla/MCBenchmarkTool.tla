-------------------------- MODULE MCBenchmarkTool --------------------------
(***************************************************************************)
(* Two ordinary report paths, a hard link to the file of one of them, a    *)
(* second spelling of a path, a directory, a path without a parent         *)
(* directory and one that cannot be resolved.                              *)
(***************************************************************************)
EXTENDS BenchmarkTool, TLC

Path(file, resolved, exists) ==
  [file |-> file, resolved |-> resolved, resolves |-> TRUE, exists |-> exists,
   regular |-> TRUE, parent |-> TRUE]

MCPaths ==
     "a.json"   :> Path("A", "/a.json", TRUE)
  @@ "link"     :> Path("A", "/link", TRUE)
  @@ "b.csv"    :> Path("B", "/b.csv", FALSE)
  @@ "./b.csv"  :> Path("B", "/b.csv", FALSE)
  @@ "reports/" :> [Path("D", "/reports", TRUE) EXCEPT !.regular = FALSE]
  @@ "no/c.csv" :> [Path("C", "/no/c.csv", FALSE) EXCEPT !.parent = FALSE]
  @@ "loop"     :> [Path("L", "/loop", FALSE) EXCEPT !.resolves = FALSE]

\* With a symbolic link to the CSV file, which does not exist yet.
MCPathsWithDanglingLink == MCPaths @@ "latest" :> Path("B", "/latest", FALSE)

\* The first set meets the premise under which delivery is proved, the second does not.
ASSUME LinkWithoutTarget == LinksHaveTargets <=> "latest" \notin DOMAIN Paths

=============================================================================
