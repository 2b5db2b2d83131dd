------------------------------- MODULE MCSawad ------------------------------
(***************************************************************************)
(* Small instances of Sawad for TLC.                                       *)
(***************************************************************************)
EXTENDS Sawad

CONSTANTS w1, w2

Option(a, b, c) == [daemon |-> a, debug |-> b, quiet |-> c]

\* sawad, sawad -debug, sawad -quiet, sawad -daemon, sawad -daemon -debug.
CommandLines ==
    {Option(FALSE, FALSE, FALSE), Option(FALSE, TRUE, FALSE), Option(FALSE, FALSE, TRUE),
     Option(TRUE, FALSE, FALSE), Option(TRUE, TRUE, FALSE)}
=============================================================================
