----------------------------- MODULE Dispatcher -----------------------------
(***************************************************************************)
(* What the thread pool of sawad promises to the connections it is given,  *)
(* with no lists, locks, descriptors or signals: an accepted connection    *)
(* waits until one worker takes it, that worker alone serves it, and a     *)
(* worker serves one connection at a time.  A connection never leaves the  *)
(* system except through the worker that served it.                        *)
(***************************************************************************)
CONSTANTS Conns,    \* the connections that clients may open
          Workers,  \* the threads of the pool
          None      \* "no connection"

VARIABLES waiting,  \* connections accepted and not yet taken by a worker
          serving,  \* serving[w]: the connection worker w serves, or None
          closed    \* connections whose descriptor has been closed

dvars == <<waiting, serving, closed>>

Init ==
    /\ waiting = {}
    /\ serving = [w \in Workers |-> None]
    /\ closed = {}

Accept(c) ==
    /\ c \notin waiting \cup closed
    /\ \A w \in Workers : serving[w] # c
    /\ waiting' = waiting \cup {c}
    /\ UNCHANGED <<serving, closed>>

Serve(w, c) ==
    /\ c \in waiting
    /\ serving[w] = None
    /\ serving' = [serving EXCEPT ![w] = c]
    /\ waiting' = waiting \ {c}
    /\ UNCHANGED closed

Close(w) ==
    /\ serving[w] # None
    /\ closed' = closed \cup {serving[w]}
    /\ serving' = [serving EXCEPT ![w] = None]
    /\ UNCHANGED waiting

Next ==
    \/ \E c \in Conns : Accept(c)
    \/ \E w \in Workers, c \in Conns : Serve(w, c)
    \/ \E w \in Workers : Close(w)

Spec == Init /\ [][Next]_dvars
=============================================================================
