--------------------------- MODULE MCFileWatcher ---------------------------
EXTENDS FileWatcher

CONSTANTS one, two, huge, t1, t2

(* Two files that count and one that does not; a short and a long version  *)
(* of a file, the first also what is there of the second while it is being *)
(* written, and a file that is too large.                                  *)
MCNames == {"a", "b", "B"}
MCLower == [n \in MCNames |-> IF n = "B" THEN "b" ELSE n]
MCParsed == [d \in Docs |-> CASE d = one -> {"a"} [] d = two -> {"a", "B"} [] d = huge -> {}]
MCDirs == {[f \in Files |-> IF f = 1 THEN one ELSE NoFile]}
============================================================================
