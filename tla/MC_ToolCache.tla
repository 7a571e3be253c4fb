---------------------------- MODULE MC_ToolCache ----------------------------
(* A small instance of ToolCache. *)
EXTENDS ToolCache

CONSTANTS e1, e2, f1, f2, p1, q1, p2

Call(tool, arg) == [tool |-> tool, arg |-> arg]

\* The first file has two paths, one relative and one absolute.
File_v == [p \in Paths |-> IF p = p2 THEN f2 ELSE f1]

Calls_v == {Call("read_file", p1), Call("read_file", q1), Call("search_text", "none"),
            Call("write_file", p1), Call("other", p2), Call("run_command", "none")}

MaxBatch_v == [e \in Engines |-> IF e = e1 THEN 2 ELSE 1]
=============================================================================
