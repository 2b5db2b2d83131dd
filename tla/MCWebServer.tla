----------------------------- MODULE MCWebServer ----------------------------
(***************************************************************************)
(* A small instance of WebServer for TLC: buffers of two units.            *)
(***************************************************************************)
EXTENDS WebServer

Get(p, n, k) == [path |-> p, len |-> n, keep |-> k]
File_(k, x, v) == [kind |-> k, ox |-> x, version |-> v]

\* A file, an executable one, a directory with an index and a directory
\* that others may not search.
Tree ==
    [p \in {"f", "x", "d", "n", "d/index.html"} |->
       CASE p = "f" -> File_("file", FALSE, "old")
         [] p = "x" -> File_("file", TRUE, "script")
         [] p = "d/index.html" -> File_("file", FALSE, "index")
         [] p = "n" -> File_("dir", FALSE, "none")
         [] OTHER -> File_("dir", TRUE, "none")]

\* Requests shorter than a buffer, as long, and longer.
ScriptSet ==
    [f \in BOOLEAN |->
       IF f THEN {<<Get("servlet", 1, 1), Get("missing", 1, 0)>>, <<Get("servlet", 1, 0)>>}
       ELSE {<<Get("f", 1, 1), Get("f", 2, 0)>>, <<Get("f", 3, 1), Get("d", 1, 1)>>,
             <<Get("d", 1, 1), Get("invalid", 1, 0)>>, <<Get("n", 1, 1), Get("x", 1, 0)>>}]
=============================================================================
