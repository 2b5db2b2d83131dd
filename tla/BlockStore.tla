----------------------------- MODULE BlockStore -----------------------------
(***************************************************************************)
(* What the SaWa server promises to its clients: a store of blocks on      *)
(* which every read and every write takes effect at one instant between    *)
(* the request and the answer, at the requested offset, and a request      *)
(* outside the store is refused.  Writes are buffered: a crash may lose    *)
(* what was written since the last flush.                                  *)
(***************************************************************************)
EXTENDS Integers

CONSTANTS Workers,   \* the threads that serve requests
          Requests,  \* [op, off, size, val]: the requests of the clients
          Addrs,     \* block numbers
          Size,      \* number of blocks of the store
          Blank,     \* the content of a fresh store
          Absent,    \* the content of a block outside the store
          Nil        \* no request, no result yet

VARIABLES disk,      \* what a read sees
          stable,    \* what is left after a crash
          op         \* op[w]: the request w serves and its result

svars == <<disk, stable, op>>

Idle == [req |-> Nil, res |-> Nil]
First(r, k) == r.off .. (r.off + k - 1)
Put(d, r, k) == [a \in Addrs |-> IF a \in First(r, k) THEN r.val ELSE d[a]]

Init ==
    /\ disk = [a \in Addrs |-> IF a < Size THEN Blank ELSE Absent]
    /\ stable = disk
    /\ op = [w \in Workers |-> Idle]

Begin(w, r) ==
    /\ op[w] = Idle
    /\ op' = [op EXCEPT ![w] = [req |-> r, res |-> Nil]]
    /\ UNCHANGED <<disk, stable>>

Answer(w, res) == op' = [op EXCEPT ![w].res = res]

Working(w, o) == op[w] # Idle /\ op[w].res = Nil /\ op[w].req.op = o
Within(r) == r.off + r.size <= Size

Info(w) ==
    /\ Working(w, "info")
    /\ Answer(w, <<"info", Size>>)
    /\ UNCHANGED <<disk, stable>>

Refuse(w) ==
    /\ Working(w, "read") \/ Working(w, "write")
    /\ ~ Within(op[w].req)
    /\ Answer(w, <<"noauth">>)
    /\ UNCHANGED <<disk, stable>>

Read(w) ==
    /\ Working(w, "read")
    /\ Within(op[w].req)
    /\ LET r == op[w].req
       IN  Answer(w, <<"data", [i \in 0 .. (r.size - 1) |-> disk[r.off + i]]>>)
    /\ UNCHANGED <<disk, stable>>

\* The first k blocks of a write may reach the stable store at once; whatever
\* was written before must be there already.
Write(w) ==
    /\ Working(w, "write")
    /\ Within(op[w].req)
    /\ stable = disk
    /\ disk' = Put(disk, op[w].req, op[w].req.size)
    /\ \E k \in 0 .. op[w].req.size : stable' = Put(disk, op[w].req, k)
    /\ Answer(w, <<"ok">>)

\* The request ends: its result is sent, or it is dropped without one.
End(w) ==
    /\ op[w] # Idle
    /\ op' = [op EXCEPT ![w] = Idle]
    /\ UNCHANGED <<disk, stable>>

Flush ==
    /\ stable' = disk
    /\ UNCHANGED <<disk, op>>

Crash ==
    /\ disk' = stable
    /\ op' = [w \in Workers |-> Idle]
    /\ UNCHANGED stable

Next ==
    \/ \E w \in Workers :
         \/ \E r \in Requests : Begin(w, r)
         \/ Info(w) \/ Refuse(w) \/ Read(w) \/ Write(w) \/ End(w)
    \/ Flush
    \/ Crash

Spec == Init /\ [][Next]_svars
=============================================================================
