---------------------------- MODULE MCSawaStore -----------------------------
(***************************************************************************)
(* Small instances of SawaStore for TLC.                                   *)
(***************************************************************************)
EXTENDS SawaStore

CONSTANTS w1, w2, v1, v2
=============================================================================
