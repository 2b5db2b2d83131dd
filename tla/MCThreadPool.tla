---------------------------- MODULE MCThreadPool ----------------------------
(***************************************************************************)
(* A small instance of ThreadPool for TLC: two descriptors.                *)
(***************************************************************************)
EXTENDS ThreadPool

CONSTANTS f1, f2
=============================================================================
