-------------------------- MODULE SawaStoreProofs ---------------------------
(***************************************************************************)
(* Proofs about SawaStore when one worker serves all the requests, for any *)
(* size of the file and any requests whose offset and size do not overflow *)
(* a uint32_t together.  (With two workers, or with overflow, the runs     *)
(* SawaStoreRace and SawaStoreWrap show that the properties fail.)         *)
(***************************************************************************)
EXTENDS SawaStore, TLAPS

OneWorker == \A v, w \in Workers : v = w
NoOverflow == \A o \in Offsets, n \in Sizes : o + n < Word

\* A request that has been checked is a read or a write, and an answer is
\* there only while it is being sent.
RequestInv ==
    /\ res = [w \in Workers |-> res[w]]
    /\ \A w \in Workers : pc[w] \in {"seek", "xfer"} => req[w].op \in {"read", "write"}
    /\ \A w \in Workers : pc[w] # "reply" => res[w] = Nil

\* After a successful fseek the buffer is empty and fp is at the offset.
CleanInv ==
    \A w \in Workers :
      pc[w] = "xfer" /\ (req[w].op = "write" \/ ~ DiskMayFail) =>
        pos = req[w].off /\ pend = NoPend

\* The file, and the buffer over it, end at NbBlocks.
SizeInv ==
    /\ \A a \in Addrs : file[a] = Absent <=> a >= NbBlocks
    /\ \A a \in Addrs : pend[a] # None => a < NbBlocks /\ pend[a] # Absent

IInv ==
    /\ TypeOK
    /\ RequestInv
    /\ CleanInv
    /\ AcceptedInRange
    /\ OnlyLastWritePending
    /\ SizeInv

USE StoreAssumption

\* A request has natural numbers for its offset and its size.
LEMMA RequestFacts ==
    ASSUME NEW r \in Requests
    PROVE  /\ r.off \in Nat /\ r.size \in Nat /\ r.val \in Values
           /\ r.off \in Offsets /\ r.size \in Sizes
<1>1. r.off \in Offsets /\ r.size \in Sizes /\ r.val \in Values
  BY DEF Requests
<1>2. \A x \in 0 .. (Word - 1) : x \in Nat
  OBVIOUS
<1> QED BY <1>1, <1>2

\* In the states where a request is served it is there, and what a read sees
\* has the type of a file.
LEMMA ServingFacts ==
    ASSUME TypeOK, NEW w \in Workers, pc[w] # "idle"
    PROVE  /\ req[w] \in Requests
           /\ req[w].off \in Nat /\ req[w].size \in Nat /\ req[w].val \in Values
           /\ Overlay \in [Addrs -> Contents]
           /\ NoPend \in [Addrs -> Contents \cup {None}]
<1>1. req[w] \in Requests
  BY DEF TypeOK
<1>2. Overlay \in [Addrs -> Contents] /\ NoPend \in [Addrs -> Contents \cup {None}]
  BY DEF TypeOK, Overlay, NoPend
<1> QED BY <1>1, <1>2, RequestFacts

\* Without overflow checkValidRequest compares the true sum.
LEMMA ValidIsExact ==
    ASSUME NoOverflow, NEW r \in Requests
    PROVE  Valid(r) <=> r.off + r.size <= NbBlocks
<1>1. r.size + r.off \in Nat /\ r.size + r.off < Word
  BY RequestFacts DEF NoOverflow
<1>2. (r.size + r.off) % Word = r.size + r.off
  BY <1>1
<1> QED BY <1>2, RequestFacts DEF Valid

\* What fwrite does to an empty buffer.
LEMMA FwriteFacts ==
    ASSUME TypeOK, NEW w \in Workers, req[w] \in Requests, pend = NoPend,
           NEW n \in Nat, Fwrite(w, n)
    PROVE  \E k \in 0 .. n :
             /\ file' = [a \in Addrs |-> IF a \in Blocks(pos, k) THEN req[w].val ELSE file[a]]
             /\ pend' = [a \in Addrs |-> IF a \in Blocks(pos + k, n - k) THEN req[w].val ELSE None]
             /\ pos' = pos + n
             /\ last' = Blocks(pos, n)
<1>1. PICK k \in 0 .. n :
        /\ file' = [a \in Addrs |->
                      CASE k = 0 -> file[a]
                        [] k > 0 /\ a \in Blocks(pos, k) -> req[w].val
                        [] OTHER -> Overlay[a]]
        /\ pend' = [a \in Addrs |->
                      CASE a \in Blocks(pos + k, n - k) -> req[w].val
                        [] k = 0 /\ a \notin Blocks(pos, n) -> pend[a]
                        [] OTHER -> None]
  BY DEF Fwrite
<1>2. Overlay = file
  BY DEF Overlay, NoPend, TypeOK
<1>3. pos \in Nat
  BY DEF TypeOK
<1>4. \A a \in Addrs : file'[a] = IF a \in Blocks(pos, k) THEN req[w].val ELSE file[a]
  BY <1>1, <1>2, <1>3 DEF Blocks, Addrs
<1>5. \A a \in Addrs : pend'[a] = IF a \in Blocks(pos + k, n - k) THEN req[w].val ELSE None
  BY <1>1, <1>3 DEF Blocks, Addrs, NoPend
<1>6. file' = [a \in Addrs |-> IF a \in Blocks(pos, k) THEN req[w].val ELSE file[a]]
  BY <1>1, <1>4
<1>7. pend' = [a \in Addrs |-> IF a \in Blocks(pos + k, n - k) THEN req[w].val ELSE None]
  BY <1>1, <1>5
<1> QED BY <1>6, <1>7 DEF Fwrite

-----------------------------------------------------------------------------
\* Receive keeps the invariant: a request is read.
LEMMA ReceivePreserves ==
    ASSUME OneWorker, NoOverflow, NEW w \in Workers, NEW r \in Requests, IInv, Receive(w, r)
    PROVE  IInv'
<1> USE DEF IInv, Receive, Goto, Reply, fp, bounds
<1>1. TypeOK' BY DEF TypeOK
<1>2. RequestInv' BY DEF TypeOK, RequestInv
<1>3. CleanInv' BY DEF TypeOK, RequestInv, CleanInv, OneWorker
<1>4. AcceptedInRange' BY DEF TypeOK, AcceptedInRange
<1>5. OnlyLastWritePending' BY DEF TypeOK, OnlyLastWritePending, Overlay, NoPend
<1>6. SizeInv' BY DEF TypeOK, SizeInv, Overlay, NoPend, Addrs
<1> QED BY <1>1, <1>2, <1>3, <1>4, <1>5, <1>6

\* SendInfo keeps the invariant: INFO touches no file.
LEMMA SendInfoPreserves ==
    ASSUME OneWorker, NoOverflow, NEW w \in Workers, IInv, SendInfo(w)
    PROVE  IInv'
<1> USE DEF IInv, SendInfo, Goto, Reply, fp, bounds
<1>1. TypeOK' BY DEF TypeOK
<1>2. RequestInv' BY DEF TypeOK, RequestInv
<1>3. CleanInv' BY DEF TypeOK, RequestInv, CleanInv, OneWorker
<1>4. AcceptedInRange' BY DEF TypeOK, AcceptedInRange
<1>5. OnlyLastWritePending' BY DEF TypeOK, OnlyLastWritePending, Overlay, NoPend
<1>6. SizeInv' BY DEF TypeOK, SizeInv, Overlay, NoPend, Addrs
<1> QED BY <1>1, <1>2, <1>3, <1>4, <1>5, <1>6

\* Ignore keeps the invariant: an unknown command is dropped.
LEMMA IgnorePreserves ==
    ASSUME OneWorker, NoOverflow, NEW w \in Workers, IInv, Ignore(w)
    PROVE  IInv'
<1> USE DEF IInv, Ignore, Goto, Reply, fp, bounds
<1>1. TypeOK' BY DEF TypeOK
<1>2. RequestInv' BY DEF TypeOK, RequestInv
<1>3. CleanInv' BY DEF TypeOK, RequestInv, CleanInv, OneWorker
<1>4. AcceptedInRange' BY DEF TypeOK, AcceptedInRange
<1>5. OnlyLastWritePending' BY DEF TypeOK, OnlyLastWritePending, Overlay, NoPend
<1>6. SizeInv' BY DEF TypeOK, SizeInv, Overlay, NoPend, Addrs
<1> QED BY <1>1, <1>2, <1>3, <1>4, <1>5, <1>6

\* CheckValidRequest keeps the invariant: only a request within the file goes on.
LEMMA CheckValidRequestPreserves ==
    ASSUME OneWorker, NoOverflow, NEW w \in Workers, IInv, CheckValidRequest(w)
    PROVE  IInv'
<1> USE DEF IInv, CheckValidRequest, Goto, Reply, fp, bounds
<1>1. TypeOK' BY DEF TypeOK
<1>2. RequestInv' BY DEF TypeOK, RequestInv
<1>3. CleanInv' BY DEF TypeOK, RequestInv, CleanInv, OneWorker
<1>4. AcceptedInRange'
  <2>1. req[w] \in Requests /\ (Valid(req[w]) <=> req[w].off + req[w].size <= NbBlocks)
    BY ServingFacts, ValidIsExact
  <2> QED BY <2>1 DEF TypeOK, AcceptedInRange
<1>5. OnlyLastWritePending' BY DEF TypeOK, OnlyLastWritePending, Overlay, NoPend
<1>6. SizeInv' BY DEF TypeOK, SizeInv, Overlay, NoPend, Addrs
<1> QED BY <1>1, <1>2, <1>3, <1>4, <1>5, <1>6

\* Seek keeps the invariant: the buffer is emptied and fp is at the offset.
LEMMA SeekPreserves ==
    ASSUME OneWorker, NoOverflow, NEW w \in Workers, IInv, Seek(w)
    PROVE  IInv'
<1> USE DEF IInv, Seek, Goto, Reply, fp, bounds
<1>a. /\ req[w].off \in Nat /\ req[w].size \in Nat
      /\ Overlay \in [Addrs -> Contents]
      /\ NoPend \in [Addrs -> Contents \cup {None}]
  BY ServingFacts
<1>1. TypeOK' BY <1>a DEF TypeOK
<1>2. RequestInv' BY DEF TypeOK, RequestInv
<1>3. CleanInv' BY DEF TypeOK, RequestInv, CleanInv, OneWorker
<1>4. AcceptedInRange' BY DEF TypeOK, AcceptedInRange
<1>5. OnlyLastWritePending' BY DEF TypeOK, OnlyLastWritePending, Overlay, NoPend
<1>6. SizeInv' BY DEF TypeOK, SizeInv, Overlay, NoPend, Addrs
<1> QED BY <1>1, <1>2, <1>3, <1>4, <1>5, <1>6

\* A failed flush keeps what concerns the file: it moves or drops buffered data.
LEMMA FlushFailsFacts ==
    ASSUME IInv, FlushFails
    PROVE  /\ file' \in [Addrs -> Contents]
           /\ pend' \in [Addrs -> Contents \cup {None}]
           /\ \A a \in Addrs : pend'[a] # None => pend'[a] = pend[a]
           /\ SizeInv'
<1> USE DEF IInv, FlushFails
<1>1. PICK done \in SUBSET {a \in Addrs : pend[a] # None} :
        file' = [a \in Addrs |-> IF a \in done THEN pend[a] ELSE file[a]]
  OBVIOUS
<1>2. \A a \in done : a \in Addrs /\ pend[a] # None /\ pend[a] \in Contents
  BY DEF TypeOK
<1>3. file' \in [Addrs -> Contents]
  BY <1>1, <1>2 DEF TypeOK
<1>4. pend' \in [Addrs -> Contents \cup {None}]
  BY DEF TypeOK, NoPend
<1>5. \A a \in Addrs : pend'[a] # None => pend'[a] = pend[a]
  BY DEF NoPend
<1>6. \A a \in Addrs : file'[a] = Absent <=> a >= NbBlocks
  <2> SUFFICES ASSUME NEW a \in Addrs PROVE file'[a] = Absent <=> a >= NbBlocks
    OBVIOUS
  <2>1. a \in Nat
    BY DEF Addrs
  <2>2. CASE a \in done
    BY <2>1, <2>2, <1>1, <1>2 DEF SizeInv
  <2>3. CASE a \notin done
    BY <2>3, <1>1 DEF SizeInv
  <2> QED BY <2>2, <2>3
<1>7. SizeInv'
  BY <1>5, <1>6 DEF SizeInv
<1> QED BY <1>3, <1>4, <1>5, <1>7

\* SeekFails keeps the invariant: a write is given up.
LEMMA SeekFailsPreserves ==
    ASSUME OneWorker, NoOverflow, NEW w \in Workers, IInv, SeekFails(w)
    PROVE  IInv'
<1> USE DEF IInv, SeekFails, Goto, Reply, bounds
<1>a. /\ file' \in [Addrs -> Contents]
      /\ pend' \in [Addrs -> Contents \cup {None}]
      /\ \A a \in Addrs : pend'[a] # None => pend'[a] = pend[a]
      /\ SizeInv'
  BY FlushFailsFacts
<1>b. pos' = pos /\ DiskMayFail
  BY DEF FlushFails
<1>1. TypeOK' BY <1>a, <1>b DEF TypeOK
<1>2. RequestInv' BY DEF TypeOK, RequestInv
<1>3. CleanInv' BY <1>b DEF TypeOK, RequestInv, CleanInv, OneWorker
<1>4. AcceptedInRange' BY DEF TypeOK, AcceptedInRange
<1>5. OnlyLastWritePending' BY <1>a DEF OnlyLastWritePending
<1> QED BY <1>1, <1>2, <1>3, <1>4, <1>5, <1>a

\* ReadFails keeps the invariant: the client gets garbage, the file does not.
LEMMA ReadFailsPreserves ==
    ASSUME OneWorker, NoOverflow, NEW w \in Workers, IInv, ReadFails(w)
    PROVE  IInv'
<1> USE DEF IInv, ReadFails, Goto, Reply, bounds
<1>a. /\ file' \in [Addrs -> Contents]
      /\ pend' \in [Addrs -> Contents \cup {None}]
      /\ \A a \in Addrs : pend'[a] # None => pend'[a] = pend[a]
      /\ SizeInv'
  BY FlushFailsFacts
<1>b. pos' = pos
  BY DEF FlushFails
<1>1. TypeOK' BY <1>a, <1>b DEF TypeOK
<1>2. RequestInv' BY DEF TypeOK, RequestInv
<1>3. CleanInv' BY DEF TypeOK, CleanInv, OneWorker
<1>4. AcceptedInRange' BY DEF TypeOK, AcceptedInRange
<1>5. OnlyLastWritePending' BY <1>a DEF OnlyLastWritePending
<1> QED BY <1>1, <1>2, <1>3, <1>4, <1>5, <1>a

\* ReadFile keeps the invariant: the buffer is emptied.
LEMMA ReadFilePreserves ==
    ASSUME OneWorker, NoOverflow, NEW w \in Workers, IInv, ReadFile(w)
    PROVE  IInv'
<1> USE DEF IInv, ReadFile, Goto, Reply, fp, bounds
<1>a. /\ req[w].off \in Nat /\ req[w].size \in Nat
      /\ Overlay \in [Addrs -> Contents]
      /\ NoPend \in [Addrs -> Contents \cup {None}]
  BY ServingFacts
<1>1. TypeOK' BY <1>a DEF TypeOK
<1>2. RequestInv' BY DEF TypeOK, RequestInv
<1>3. CleanInv' BY DEF TypeOK, RequestInv, CleanInv, OneWorker
<1>4. AcceptedInRange' BY DEF TypeOK, AcceptedInRange
<1>5. OnlyLastWritePending' BY DEF TypeOK, OnlyLastWritePending, Overlay, NoPend
<1>6. SizeInv' BY DEF TypeOK, SizeInv, Overlay, NoPend, Addrs
<1> QED BY <1>1, <1>2, <1>3, <1>4, <1>5, <1>6

\* A write of n blocks, in full or cut short, keeps what concerns the file: it
\* starts at the offset, with an empty buffer, and ends within the file.
LEMMA FwritePreserves ==
    ASSUME IInv, NEW w \in Workers, pc[w] = "xfer", req[w].op = "write",
           NEW n \in Nat, n <= req[w].size, Fwrite(w, n)
    PROVE  /\ file' \in [Addrs -> Contents]
           /\ pend' \in [Addrs -> Contents \cup {None}]
           /\ pos' \in Nat
           /\ last' \subseteq Nat
           /\ OnlyLastWritePending'
           /\ SizeInv'
<1> USE DEF IInv
<1>1. /\ req[w] \in Requests
      /\ req[w].off \in Nat /\ req[w].size \in Nat /\ req[w].val \in Values
  BY ServingFacts
<1>2. pos = req[w].off /\ pend = NoPend
  BY DEF CleanInv
<1>3. pos \in Nat /\ pos + n <= NbBlocks
  BY <1>1, <1>2 DEF AcceptedInRange
<1>4. PICK k \in 0 .. n :
        /\ file' = [a \in Addrs |-> IF a \in Blocks(pos, k) THEN req[w].val ELSE file[a]]
        /\ pend' = [a \in Addrs |-> IF a \in Blocks(pos + k, n - k) THEN req[w].val ELSE None]
        /\ pos' = pos + n
        /\ last' = Blocks(pos, n)
  BY <1>1, <1>2, FwriteFacts
<1>5. \A a \in Addrs :
        /\ a \in Blocks(pos, k) => a < NbBlocks
        /\ a \in Blocks(pos + k, n - k) => a < NbBlocks /\ a \in Blocks(pos, n)
  BY <1>3 DEF Blocks, Addrs
<1>6. req[w].val \in Contents /\ req[w].val # Absent /\ req[w].val # None
  BY <1>1 DEF Contents
<1>7. file' \in [Addrs -> Contents] /\ pend' \in [Addrs -> Contents \cup {None}]
  BY <1>4, <1>6 DEF TypeOK
<1>8. pos' \in Nat /\ last' \subseteq Nat
  BY <1>3, <1>4 DEF Blocks
<1>9. OnlyLastWritePending'
  BY <1>4, <1>5 DEF OnlyLastWritePending
<1>10. SizeInv'
  <2>1. \A a \in Addrs : file'[a] = Absent <=> a >= NbBlocks
    <3>1. SUFFICES ASSUME NEW a \in Addrs PROVE file'[a] = Absent <=> a >= NbBlocks
      OBVIOUS
    <3>2. a \in Nat
      BY DEF Addrs
    <3>3. CASE a \in Blocks(pos, k)
      BY <3>2, <3>3, <1>4, <1>5, <1>6
    <3>4. CASE a \notin Blocks(pos, k)
      BY <3>4, <1>4 DEF SizeInv
    <3> QED BY <3>3, <3>4
  <2>2. \A a \in Addrs : pend'[a] # None => a < NbBlocks /\ pend'[a] # Absent
    BY <1>4, <1>5, <1>6
  <2> QED BY <2>1, <2>2 DEF SizeInv
<1> QED BY <1>7, <1>8, <1>9, <1>10

\* WriteFile keeps the invariant: the whole write is taken.
LEMMA WriteFilePreserves ==
    ASSUME OneWorker, NoOverflow, NEW w \in Workers, IInv, WriteFile(w)
    PROVE  IInv'
<1> USE DEF IInv
<1>a. pc[w] = "xfer" /\ req[w].op = "write" /\ Fwrite(w, req[w].size) /\ Reply(w, <<"ok">>)
      /\ UNCHANGED req
  BY DEF WriteFile
<1>b. req[w].size \in Nat /\ req[w].size <= req[w].size
  BY <1>a, ServingFacts
<1>c. /\ file' \in [Addrs -> Contents]
      /\ pend' \in [Addrs -> Contents \cup {None}]
      /\ pos' \in Nat
      /\ last' \subseteq Nat
      /\ OnlyLastWritePending'
      /\ SizeInv'
  BY <1>a, <1>b, FwritePreserves
<1>1. TypeOK' BY <1>a, <1>c DEF TypeOK, Reply, Goto
<1>2. RequestInv' BY <1>a DEF TypeOK, RequestInv, Reply, Goto
<1>3. CleanInv' BY <1>a DEF TypeOK, CleanInv, OneWorker, Reply, Goto
<1>4. AcceptedInRange' BY <1>a DEF TypeOK, AcceptedInRange, Reply, Goto
<1> QED BY <1>1, <1>2, <1>3, <1>4, <1>c

\* WriteFails keeps the invariant: what is taken is a part of the write.
LEMMA WriteFailsPreserves ==
    ASSUME OneWorker, NoOverflow, NEW w \in Workers, IInv, WriteFails(w)
    PROVE  IInv'
<1> USE DEF IInv
<1>a. pc[w] = "xfer" /\ req[w].op = "write" /\ Reply(w, <<"ok">>)
      /\ UNCHANGED req
  BY DEF WriteFails
<1>b. PICK n \in 0 .. (req[w].size - 1) : Fwrite(w, n)
  BY DEF WriteFails
<1>c. req[w].size \in Nat
  BY <1>a, ServingFacts
<1>d. n \in Nat /\ n <= req[w].size
  BY <1>c
<1>e. /\ file' \in [Addrs -> Contents]
      /\ pend' \in [Addrs -> Contents \cup {None}]
      /\ pos' \in Nat
      /\ last' \subseteq Nat
      /\ OnlyLastWritePending'
      /\ SizeInv'
  BY <1>a, <1>b, <1>d, FwritePreserves
<1>1. TypeOK' BY <1>a, <1>e DEF TypeOK, Reply, Goto
<1>2. RequestInv' BY <1>a DEF TypeOK, RequestInv, Reply, Goto
<1>3. CleanInv' BY <1>a DEF TypeOK, CleanInv, OneWorker, Reply, Goto
<1>4. AcceptedInRange' BY <1>a DEF TypeOK, AcceptedInRange, Reply, Goto
<1> QED BY <1>1, <1>2, <1>3, <1>4, <1>e

\* Send keeps the invariant: fp is not touched.
LEMMA SendPreserves ==
    ASSUME OneWorker, NoOverflow, NEW w \in Workers, IInv, Send(w)
    PROVE  IInv'
<1> USE DEF IInv, Send, Goto, fp, bounds
<1>1. TypeOK' BY DEF TypeOK
<1>2. RequestInv' BY DEF TypeOK, RequestInv
<1>3. CleanInv' BY DEF TypeOK, CleanInv, OneWorker
<1>4. AcceptedInRange' BY DEF TypeOK, AcceptedInRange
<1>5. OnlyLastWritePending' BY DEF TypeOK, OnlyLastWritePending
<1>6. SizeInv' BY DEF TypeOK, SizeInv
<1> QED BY <1>1, <1>2, <1>3, <1>4, <1>5, <1>6

\* Crash keeps the invariant: the buffer is lost, the file is left.
LEMMA CrashPreserves ==
    ASSUME IInv, Crash
    PROVE  IInv'
<1> USE DEF IInv, Crash
<1>1. TypeOK' BY DEF TypeOK, NoPend
<1>2. RequestInv' BY DEF RequestInv
<1>3. CleanInv' BY DEF CleanInv
<1>4. AcceptedInRange' BY DEF AcceptedInRange
<1>5. OnlyLastWritePending' BY DEF OnlyLastWritePending, NoPend
<1>6. SizeInv' BY DEF TypeOK, SizeInv, NoPend
<1> QED BY <1>1, <1>2, <1>3, <1>4, <1>5, <1>6

\* The invariant holds of the file that getFilesystemFile opens.
LEMMA InitIInv == Init => IInv
<1> SUFFICES ASSUME Init PROVE IInv
  OBVIOUS
<1> USE DEF Init, IInv
<1>1. TypeOK BY DEF TypeOK, NoPend, Contents
<1>2. RequestInv BY DEF RequestInv
<1>3. CleanInv BY DEF CleanInv
<1>4. AcceptedInRange BY DEF AcceptedInRange
<1>5. OnlyLastWritePending BY DEF OnlyLastWritePending, NoPend
<1>6. SizeInv BY DEF SizeInv, NoPend, Addrs
<1> QED BY <1>1, <1>2, <1>3, <1>4, <1>5, <1>6

\* Every step of the server keeps the invariant.
LEMMA NextIInv ==
    ASSUME OneWorker, NoOverflow, IInv, [Next]_vars
    PROVE  IInv'
<1>1. CASE \E w \in Workers, r \in Requests : Receive(w, r)
  BY <1>1, ReceivePreserves
<1>2. ASSUME NEW w \in Workers, WorkerStep(w) PROVE IInv'
  BY <1>2, SendInfoPreserves, IgnorePreserves, CheckValidRequestPreserves,
     SeekPreserves, SeekFailsPreserves, ReadFilePreserves, ReadFailsPreserves,
     WriteFilePreserves, WriteFailsPreserves, SendPreserves DEF WorkerStep
<1>3. CASE Crash
  BY <1>3, CrashPreserves
<1>4. CASE UNCHANGED vars
  BY <1>4 DEF vars, fp, bounds, IInv, TypeOK, RequestInv, CleanInv,
     AcceptedInRange, OnlyLastWritePending, SizeInv
<1> QED BY <1>1, <1>2, <1>3, <1>4 DEF Next

-----------------------------------------------------------------------------
\* With one worker and no overflow the invariant holds in every state.
THEOREM Invariance ==
    ASSUME OneWorker, NoOverflow
    PROVE  Spec => []IInv
<1>1. IInv /\ [Next]_vars => IInv'
  BY NextIInv
<1> QED BY <1>1, InitIInv, PTL DEF Spec

\* Type correctness of the server's file, buffer and workers.
THEOREM TypeCorrect ==
    ASSUME OneWorker, NoOverflow
    PROVE  Spec => []TypeOK
<1>1. IInv => TypeOK
  BY DEF IInv
<1> QED BY <1>1, Invariance, PTL

\* checkValidRequest lets through only requests that lie within the file.
THEOREM AcceptedRequestsFit ==
    ASSUME OneWorker, NoOverflow
    PROVE  Spec => []AcceptedInRange
<1>1. IInv => AcceptedInRange
  BY DEF IInv
<1> QED BY <1>1, Invariance, PTL

\* writeFile writes at the offset it was given, whether or not the disk fails.
THEOREM WritesLandAtOffset ==
    ASSUME OneWorker, NoOverflow
    PROVE  Spec => []WriteAtOffset
<1>1. IInv => WriteAtOffset
  BY DEF IInv, CleanInv, WriteAtOffset
<1> QED BY <1>1, Invariance, PTL

\* While the disk does not fail, reads too are made at the requested offset.
THEOREM TransfersLandAtOffset ==
    ASSUME OneWorker, NoOverflow, ~ DiskMayFail
    PROVE  Spec => []TransferAtOffset
<1>1. IInv => TransferAtOffset
  BY DEF IInv, CleanInv, TransferAtOffset
<1> QED BY <1>1, Invariance, PTL

\* The write buffer never holds more than the last write: a crash loses no
\* other acknowledged data.
THEOREM CrashLosesLastWriteOnly ==
    ASSUME OneWorker, NoOverflow
    PROVE  Spec => []OnlyLastWritePending
<1>1. IInv => OnlyLastWritePending
  BY DEF IInv
<1> QED BY <1>1, Invariance, PTL

\* No request, complete or cut short by the disk, changes the file's size.
THEOREM SizeIsKept ==
    ASSUME OneWorker, NoOverflow
    PROVE  Spec => []FileKeepsItsSize
<1>1. IInv => FileKeepsItsSize
  <2> SUFFICES ASSUME IInv, NEW a \in Addrs
               PROVE  Overlay[a] = Absent <=> a >= NbBlocks
    BY DEF FileKeepsItsSize
  <2>1. a \in Nat /\ Overlay[a] = IF pend[a] # None THEN pend[a] ELSE file[a]
    BY DEF Overlay, Addrs
  <2> QED BY <2>1 DEF IInv, SizeInv
<1> QED BY <1>1, Invariance, PTL

-----------------------------------------------------------------------------
(***************************************************************************)
(* The server implements BlockStore while the disk does not fail.          *)
(***************************************************************************)
\* The abstract operation of each worker, as the refinement mapping has it.
AbsOp == [w \in Workers |-> [req |-> req[w], res |-> res[w]]]

\* An abstract worker is idle exactly when the server's worker is.
LEMMA IdleFacts ==
    ASSUME IInv, NEW w \in Workers
    PROVE  AbsOp[w] = S!Idle <=> pc[w] = "idle"
<1>1. AbsOp[w] = [req |-> req[w], res |-> res[w]]
  BY DEF AbsOp
<1>2. pc[w] = "idle" => res[w] = Nil
  BY DEF IInv, RequestInv
<1>3. req[w] = Nil <=> pc[w] = "idle"
  BY DEF IInv, TypeOK
<1> QED BY <1>1, <1>2, <1>3 DEF S!Idle

\* A change of one worker's request and answer, seen through the mapping.
LEMMA AbsOpChange ==
    ASSUME IInv, NEW w \in Workers, NEW q, NEW a,
           req' = [req EXCEPT ![w] = q], res' = [res EXCEPT ![w] = a]
    PROVE  AbsOp' = [AbsOp EXCEPT ![w] = [req |-> q, res |-> a]]
<1> DEFINE new == [AbsOp EXCEPT ![w] = [req |-> q, res |-> a]]
<1>1. req = [v \in Workers |-> req[v]] /\ res = [v \in Workers |-> res[v]]
  BY DEF IInv, TypeOK, RequestInv
<1>2. \A v \in Workers : req'[v] = (IF v = w THEN q ELSE req[v])
  BY <1>1
<1>3. \A v \in Workers : res'[v] = (IF v = w THEN a ELSE res[v])
  BY <1>1
<1>4. \A v \in Workers : new[v] = IF v = w THEN [req |-> q, res |-> a]
                                           ELSE [req |-> req[v], res |-> res[v]]
  BY DEF AbsOp
<1>5. \A v \in Workers : AbsOp'[v] = new[v]
  BY <1>2, <1>3, <1>4 DEF AbsOp
<1> QED BY <1>5 DEF AbsOp

\* Receive is Begin.
LEMMA ReceiveRefines ==
    ASSUME IInv, NEW w \in Workers, NEW r \in Requests, Receive(w, r)
    PROVE  S!Begin(w, r)
<1>1. AbsOp[w] = S!Idle
  BY IdleFacts DEF Receive
<1>2. res' = [res EXCEPT ![w] = Nil]
  BY DEF Receive, IInv, RequestInv
<1>3. AbsOp' = [AbsOp EXCEPT ![w] = [req |-> r, res |-> Nil]]
  BY <1>2, AbsOpChange DEF Receive
<1>4. UNCHANGED <<Overlay, file>>
  BY DEF Receive, fp, Overlay
<1> QED BY <1>1, <1>3, <1>4 DEF S!Begin, AbsOp

\* An answer, seen through the mapping.
LEMMA ReplyRefines ==
    ASSUME IInv, NEW w \in Workers, NEW a, Reply(w, a), req' = req
    PROVE  S!Answer(w, a)
<1>1. req' = [req EXCEPT ![w] = req[w]]
  BY DEF IInv, TypeOK
<1>2. AbsOp' = [AbsOp EXCEPT ![w] = [req |-> req[w], res |-> a]]
  BY <1>1, AbsOpChange DEF Reply
<1>3. AbsOp[w] = [req |-> req[w], res |-> res[w]]
  BY DEF AbsOp
<1>4. [AbsOp[w] EXCEPT !.res = a] = [req |-> req[w], res |-> a]
  BY <1>3
<1>5. [AbsOp EXCEPT ![w].res = a] = [AbsOp EXCEPT ![w] = [AbsOp[w] EXCEPT !.res = a]]
  OBVIOUS
<1> QED BY <1>2, <1>4, <1>5 DEF S!Answer, AbsOp

\* A worker that has not answered yet is working on its request.
LEMMA WorkingFacts ==
    ASSUME IInv, NEW w \in Workers, pc[w] \in {"check", "seek", "xfer"}
    PROVE  /\ S!Working(w, req[w].op)
           /\ AbsOp[w].req = req[w]
<1>1. AbsOp[w] # S!Idle
  BY IdleFacts
<1>2. res[w] = Nil
  BY DEF IInv, RequestInv
<1>3. AbsOp[w] = [req |-> req[w], res |-> res[w]]
  BY DEF AbsOp
<1> QED BY <1>1, <1>2, <1>3 DEF S!Working, AbsOp

\* sendInfo is Info.
LEMMA SendInfoRefines ==
    ASSUME IInv, NEW w \in Workers, SendInfo(w)
    PROVE  S!Info(w)
<1>1. S!Working(w, "info")
  BY WorkingFacts DEF SendInfo
<1>2. S!Answer(w, <<"info", NbBlocks>>)
  BY ReplyRefines DEF SendInfo
<1>3. UNCHANGED <<Overlay, file>>
  BY DEF SendInfo, fp, Overlay
<1> QED BY <1>1, <1>2, <1>3 DEF S!Info

\* Ignore is End: the request is dropped.
LEMMA IgnoreRefines ==
    ASSUME IInv, NEW w \in Workers, Ignore(w)
    PROVE  S!End(w)
<1>1. AbsOp[w] # S!Idle
  BY IdleFacts DEF Ignore
<1>2. res' = [res EXCEPT ![w] = Nil]
  BY DEF Ignore, IInv, RequestInv
<1>3. AbsOp' = [AbsOp EXCEPT ![w] = S!Idle]
  BY <1>2, AbsOpChange DEF Ignore, S!Idle
<1>4. UNCHANGED <<Overlay, file>>
  BY DEF Ignore, fp, Overlay
<1> QED BY <1>1, <1>3, <1>4 DEF S!End, AbsOp

\* Send is End: the answer leaves.
LEMMA SendRefines ==
    ASSUME IInv, NEW w \in Workers, Send(w)
    PROVE  S!End(w)
<1>1. AbsOp[w] # S!Idle
  BY IdleFacts DEF Send
<1>2. AbsOp' = [AbsOp EXCEPT ![w] = S!Idle]
  BY AbsOpChange DEF Send, S!Idle
<1>3. UNCHANGED <<Overlay, file>>
  BY DEF Send, fp, Overlay
<1> QED BY <1>1, <1>2, <1>3 DEF S!End, AbsOp

\* checkValidRequest refuses, or leaves the abstract state alone.
LEMMA CheckRefines ==
    ASSUME NoOverflow, IInv, NEW w \in Workers, CheckValidRequest(w)
    PROVE  S!Refuse(w) \/ UNCHANGED S!svars
<1>1. UNCHANGED <<Overlay, file>> /\ req' = req
  BY DEF CheckValidRequest, fp, Overlay
<1>2. CASE Valid(req[w])
  <2>1. res' = res
    BY <1>2 DEF CheckValidRequest
  <2> QED BY <1>1, <2>1 DEF S!svars
<1>3. CASE ~ Valid(req[w])
  <2>1. S!Working(w, req[w].op) /\ AbsOp[w].req = req[w] /\ req[w].op \in {"read", "write"}
    BY WorkingFacts DEF CheckValidRequest
  <2>2. req[w] \in Requests
    BY ServingFacts DEF CheckValidRequest, IInv
  <2>3. ~ S!Within(req[w])
    BY <1>3, <2>2, ValidIsExact, RequestFacts DEF S!Within
  <2>4. S!Answer(w, <<"noauth">>)
    BY <1>1, <1>3, ReplyRefines DEF CheckValidRequest
  <2> QED BY <1>1, <2>1, <2>3, <2>4 DEF S!Refuse, AbsOp
<1> QED BY <1>2, <1>3

\* fseek is Flush.
LEMMA SeekRefines ==
    ASSUME IInv, NEW w \in Workers, Seek(w)
    PROVE  S!Flush
<1>1. Overlay' = Overlay
  <2>1. Overlay \in [Addrs -> Contents] /\ file' = Overlay /\ pend' = NoPend
    BY ServingFacts DEF IInv, Seek
  <2>2. \A a \in Addrs : pend'[a] = None
    BY <2>1 DEF NoPend
  <2>3. Overlay' = [a \in Addrs |-> Overlay[a]]
    BY <2>1, <2>2 DEF Overlay
  <2> QED BY <2>1, <2>3
<1> QED BY <1>1 DEF S!Flush, Seek

\* fread is Read: fp is at the offset and the request ends within the file.
LEMMA ReadRefines ==
    ASSUME ~ DiskMayFail, IInv, NEW w \in Workers, ReadFile(w)
    PROVE  S!Read(w)
<1>1. S!Working(w, "read") /\ AbsOp[w].req = req[w]
  BY WorkingFacts DEF ReadFile
<1>2. /\ req[w] \in Requests /\ req[w].off \in Nat /\ req[w].size \in Nat
      /\ Overlay \in [Addrs -> Contents]
  BY ServingFacts DEF ReadFile, IInv
<1>3. pos = req[w].off /\ pend = NoPend /\ req[w].off + req[w].size <= NbBlocks
  BY DEF ReadFile, IInv, CleanInv, AcceptedInRange
<1>4. Overlay = file
  BY <1>3 DEF Overlay, NoPend, IInv, TypeOK
<1>5. \A i \in 0 .. (req[w].size - 1) : At(pos + i) = Overlay[req[w].off + i]
  <2>1. SUFFICES ASSUME NEW i \in 0 .. (req[w].size - 1)
                 PROVE  At(pos + i) = Overlay[req[w].off + i]
    OBVIOUS
  <2>2. pos + i \in Addrs /\ ~ (pos + i >= NbBlocks)
    BY <1>2, <1>3, SMTT(60) DEF Addrs
  <2>3. file[pos + i] # Absent
    BY <2>2 DEF IInv, SizeInv
  <2> QED BY <1>3, <1>4, <2>2, <2>3 DEF At
<1>6. [i \in 0 .. (req[w].size - 1) |-> At(pos + i)]
        = [i \in 0 .. (req[w].size - 1) |-> Overlay[req[w].off + i]]
  BY <1>5
<1>7. S!Answer(w, <<"data", [i \in 0 .. (req[w].size - 1) |-> Overlay[req[w].off + i]]>>)
  <2>1. PICK x : x = <<"data", [i \in 0 .. (req[w].size - 1) |-> At(pos + i)]>>
    OBVIOUS
  <2>2. Reply(w, x) /\ req' = req
    BY <2>1 DEF ReadFile, Reply
  <2>3. S!Answer(w, x)
    BY <2>2, ReplyRefines
  <2>4. x = <<"data", [i \in 0 .. (req[w].size - 1) |-> Overlay[req[w].off + i]]>>
    BY <2>1, <1>6
  <2> QED BY <2>3, <2>4 DEF S!Answer
<1>8. file' = file /\ pend' = pend
  BY <1>3, <1>4 DEF ReadFile
<1>9. UNCHANGED <<Overlay, file>>
  BY <1>8 DEF Overlay
<1>10. S!Within(req[w])
  BY <1>3 DEF S!Within
<1>11. PICK r : r = AbsOp[w].req
  OBVIOUS
<1>12. S!Answer(w, <<"data", [i \in 0 .. (r.size - 1) |-> Overlay[r.off + i]]>>)
  BY <1>1, <1>7, <1>11 DEF S!Answer
<1>13. S!Within(r)
  BY <1>1, <1>10, <1>11
<1> QED BY <1>1, <1>9, <1>11, <1>12, <1>13 DEF S!Read, S!Answer, AbsOp

\* fwrite is Write: the first k blocks are in the file at once.
LEMMA WriteRefines ==
    ASSUME IInv, NEW w \in Workers, WriteFile(w)
    PROVE  S!Write(w)
<1>1. S!Working(w, "write") /\ AbsOp[w].req = req[w]
  BY WorkingFacts DEF WriteFile
<1>2. req[w] \in Requests /\ req[w].off \in Nat /\ req[w].size \in Nat /\ req[w].val \in Values
  BY ServingFacts DEF WriteFile, IInv
<1>3. pos = req[w].off /\ pend = NoPend /\ req[w].off + req[w].size <= NbBlocks
  BY DEF WriteFile, IInv, CleanInv, AcceptedInRange
<1>4. Overlay = file
  BY <1>3 DEF Overlay, NoPend, IInv, TypeOK
<1>5. PICK k \in 0 .. req[w].size :
        /\ file' = [a \in Addrs |-> IF a \in Blocks(pos, k) THEN req[w].val ELSE file[a]]
        /\ pend' = [a \in Addrs |-> IF a \in Blocks(pos + k, req[w].size - k)
                                      THEN req[w].val ELSE None]
  BY <1>2, <1>3, FwriteFacts DEF IInv, WriteFile
<1>6. file' = S!Put(Overlay, req[w], k)
  BY <1>3, <1>4, <1>5 DEF S!Put, S!First, Blocks
<1>7. Overlay' = S!Put(Overlay, req[w], req[w].size)
  <2>1. req[w].val # None
    BY <1>2 DEF Contents
  <2>2. \A a \in Addrs : Overlay'[a] = IF a \in Blocks(pos, k) \cup Blocks(pos + k, req[w].size - k)
                                         THEN req[w].val ELSE Overlay[a]
    BY <1>4, <1>5, <2>1 DEF Overlay
  <2>3. Blocks(pos, k) \cup Blocks(pos + k, req[w].size - k) = Blocks(pos, req[w].size)
    BY <1>2, <1>3 DEF Blocks
  <2>4. S!Put(Overlay, req[w], req[w].size) =
          [a \in Addrs |-> IF a \in Blocks(pos, req[w].size) THEN req[w].val ELSE Overlay[a]]
    BY <1>3 DEF S!Put, S!First, Blocks
  <2>5. Overlay' = [a \in Addrs |-> Overlay'[a]]
    BY DEF Overlay
  <2>6. \A a \in Addrs : Overlay'[a] = S!Put(Overlay, req[w], req[w].size)[a]
    BY <2>2, <2>3, <2>4
  <2> QED BY <2>4, <2>5, <2>6
<1>8. S!Answer(w, <<"ok">>)
  BY ReplyRefines DEF WriteFile
<1>9. S!Within(req[w])
  BY <1>3 DEF S!Within
<1> QED BY <1>1, <1>4, <1>6, <1>7, <1>8, <1>9 DEF S!Write, AbsOp

\* A kill of the process is Crash.
LEMMA CrashRefines ==
    ASSUME IInv, Crash
    PROVE  S!Crash
<1>1. Overlay' = file
  BY DEF Crash, Overlay, NoPend, IInv, TypeOK
<1>2. AbsOp' = [w \in Workers |-> S!Idle]
  BY DEF Crash, AbsOp, S!Idle
<1> QED BY <1>1, <1>2 DEF S!Crash, Crash, AbsOp

\* With one worker, no overflow and a disk that does not fail, the server
\* (readFile, writeFile, sendInfo and checkValidRequest) implements BlockStore.
THEOREM ServerImplementsBlockStore ==
    ASSUME OneWorker, NoOverflow, ~ DiskMayFail
    PROVE  Spec => BlockStoreSpec
<1>1. Init => S!Init
  <2>1. SUFFICES ASSUME Init PROVE S!Init
    OBVIOUS
  <2>2. Overlay = file
    BY <2>1 DEF Init, Overlay, NoPend
  <2>3. AbsOp = [w \in Workers |-> S!Idle]
    BY <2>1 DEF Init, AbsOp, S!Idle
  <2> QED BY <2>1, <2>2, <2>3 DEF S!Init, Init, AbsOp
<1>2. IInv /\ [Next]_vars => [S!Next]_S!svars
  <2>1. SUFFICES ASSUME IInv, [Next]_vars PROVE S!Next \/ UNCHANGED S!svars
    OBVIOUS
  <2>2. CASE \E w \in Workers, r \in Requests : Receive(w, r)
    BY <2>1, <2>2, ReceiveRefines DEF S!Next
  <2>3. ASSUME NEW w \in Workers, WorkerStep(w) PROVE S!Next \/ UNCHANGED S!svars
    <3>1. CASE SendInfo(w)
      BY <2>1, <3>1, SendInfoRefines DEF S!Next
    <3>2. CASE Ignore(w)
      BY <2>1, <3>2, IgnoreRefines DEF S!Next
    <3>3. CASE CheckValidRequest(w)
      BY <2>1, <3>3, CheckRefines DEF S!Next
    <3>4. CASE Seek(w)
      BY <2>1, <3>4, SeekRefines DEF S!Next
    <3>5. CASE ReadFile(w)
      BY <2>1, <3>5, ReadRefines DEF S!Next
    <3>6. CASE WriteFile(w)
      BY <2>1, <3>6, WriteRefines DEF S!Next
    <3>7. CASE Send(w)
      BY <2>1, <3>7, SendRefines DEF S!Next
    <3> QED BY <2>3, <3>1, <3>2, <3>3, <3>4, <3>5, <3>6, <3>7
        DEF WorkerStep, SeekFails, ReadFails, WriteFails, FlushFails
  <2>4. CASE Crash
    BY <2>1, <2>4, CrashRefines DEF S!Next
  <2>5. CASE UNCHANGED vars
    BY <2>5 DEF vars, fp, S!svars, Overlay
  <2> QED BY <2>1, <2>2, <2>3, <2>4, <2>5 DEF Next
<1> QED BY <1>1, <1>2, Invariance, PTL DEF Spec, S!Spec, BlockStoreSpec
=============================================================================
