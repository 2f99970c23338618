------------------------- MODULE MCDuckCoordinator -------------------------
(* Three spellings of two files, one of them a link, and a database in     *)
(* memory.                                                                 *)
EXTENDS DuckCoordinatorInvariant, TLC

CONSTANTS a, b, c1, c2, c3, h1, h2, e1, e2, e3, e4

MCName == {"a", "link_to_a", "b", "memory", "broken"}
MCCanonical ==
  [n \in MCName |-> CASE n \in {"a", "link_to_a"} -> a
                      [] n = "b" -> b
                      [] n = "memory" -> NoFile
                      [] n = "broken" -> Unresolved]
MCRank == [p \in {a, b} |-> IF p = a THEN 1 ELSE 2]

\* Two goroutines of one server, one of another.
MCHome == [c \in {c1, c2, c3} |-> IF c = c3 THEN h2 ELSE h1]

\* Three goroutines of one server.
MCOneHome == [c \in {c1, c2, c3} |-> h1]

\* Entries are interchangeable, and so are goroutines of one process.
MCSymmetry == Permutations({e1, e2, e3, e4}) \cup Permutations({c1, c2})
=============================================================================
