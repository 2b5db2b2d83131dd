---------------------------- MODULE MCRemoteDisk ----------------------------
(***************************************************************************)
(* Small instances of RemoteDisk for TLC.                                  *)
(***************************************************************************)
EXTENDS RemoteDisk

\* sawa-client read and write: a whole page, a part of one, a single unit, and
\* a page behind the end.
Commands ==
    {Info,
     [op |-> "write", off |-> 0, size |-> 1, val |-> <<7>>],
     [op |-> "read", off |-> 0, size |-> 2, val |-> <<>>],
     [op |-> "read", off |-> 1, size |-> 1, val |-> <<>>],
     [op |-> "read", off |-> 3, size |-> 2, val |-> <<>>]}

\* Who is there, and how many calls each makes.
Load(d, u, t) == [p \in Clients |-> CASE p = Driver -> d [] p \in Users -> u [] OTHER -> t]
Mixes == {Load(3, 0, 0), Load(0, 1, 3)}
=============================================================================
