----------------------------- MODULE SawaStore ------------------------------
(***************************************************************************)
(* How the SaWa server serves requests on its filesystem file              *)
(* (sawa_srv.cpp).  Every worker thread runs processRequest, and all of    *)
(* them use the one FILE *fp of the SawaServer object: its position and    *)
(* its write buffer are shared, and the fseek and the fread or fwrite of a *)
(* request are separate library calls.  Each library call is atomic (stdio *)
(* locks the FILE); nothing holds the file between two calls.              *)
(*                                                                         *)
(* Offsets and sizes count blocks.  A write stores one value in all its    *)
(* blocks.  stdio and the kernel are modelled from how the server uses     *)
(* them: fwrite passes some of its blocks on to the file and keeps the     *)
(* rest in the buffer, fseek and fread flush the buffer, sync() does not   *)
(* touch it, and a process that is killed loses it.                        *)
(***************************************************************************)
EXTENDS Integers

CONSTANTS
    Workers,      \* the threads that serve requests
    Ops,          \* the commands the clients send: info, read, write, other
    Offsets,      \* the offsets the clients ask for
    Sizes,        \* the sizes the clients ask for
    Values,       \* the values the clients write
    NbBlocks,     \* size of the filesystem file (nb_sectors * 512 bytes)
    Word,         \* number of values of a uint32_t
    LastAddr,     \* bound: the last block that is tracked
    Blank,        \* content of a block of a new file
    Absent,       \* content of a block after the end of the file
    Garbage,      \* content of an uninitialised buffer
    None,         \* "no pending data for this block"
    Nil,          \* "no request"
    DiskMayFail,  \* can the disk refuse data (full, I/O error)?
    MaxReqs,      \* bound: requests received
    MaxCrashes    \* bound: times the server is killed

Addrs == 0 .. LastAddr
Contents == Values \cup {Blank, Absent}
Requests == [op : Ops, off : Offsets, size : Sizes, val : Values]

ASSUME StoreAssumption ==
    /\ NbBlocks \in Nat
    /\ Word \in Nat
    /\ NbBlocks < Word
    /\ LastAddr \in Nat
    /\ NbBlocks <= LastAddr
    /\ Offsets \subseteq 0 .. (Word - 1)
    /\ Sizes \subseteq 0 .. (Word - 1)
    /\ None \notin Contents
    /\ Absent \notin Values \cup {Blank}
    /\ Nil \notin Requests
    /\ DiskMayFail \in BOOLEAN

VARIABLES
    file,       \* the blocks of the filesystem file
    pend,       \* the blocks in the write buffer of fp
    pos,        \* the position of fp
    pc, req,    \* what each worker does, for which request
    res,        \* the answer each worker is about to send
    received, crashes,
    last        \* history: the blocks of the last fwrite

fp == <<file, pend, pos>>
bounds == <<received, crashes>>
vars == <<fp, pc, req, res, bounds, last>>

NoPend == [a \in Addrs |-> None]
Overlay == [a \in Addrs |-> IF pend[a] # None THEN pend[a] ELSE file[a]]
Blocks(from, n) == from .. (from + n - 1)
\* What fread puts in its buffer for block a: nothing, after the end of file.
At(a) == IF a \in Addrs /\ Overlay[a] # Absent THEN Overlay[a] ELSE Garbage

Init ==
    /\ file = [a \in Addrs |-> IF a < NbBlocks THEN Blank ELSE Absent]
    /\ pend = NoPend
    /\ pos = 0
    /\ pc = [w \in Workers |-> "idle"]
    /\ req = [w \in Workers |-> Nil]
    /\ res = [w \in Workers |-> Nil]
    /\ received = 0
    /\ crashes = 0
    /\ last = {}

Goto(w, label) == pc' = [pc EXCEPT ![w] = label]

\* A worker leaves its request, with the answer a, or goes back to reading.
Reply(w, a) ==
    /\ Goto(w, "reply")
    /\ res' = [res EXCEPT ![w] = a]

-----------------------------------------------------------------------------
\* readData hands a complete message to processRequest.
Receive(w, r) ==
    /\ pc[w] = "idle"
    /\ received < MaxReqs
    /\ received' = received + 1
    /\ req' = [req EXCEPT ![w] = r]
    /\ Goto(w, "check")
    /\ UNCHANGED <<fp, res, crashes, last>>

\* processRequest: INFO is answered at once; an unknown command is dropped
\* without an answer.
SendInfo(w) ==
    /\ pc[w] = "check"
    /\ req[w].op = "info"
    /\ Reply(w, <<"info", NbBlocks>>)
    /\ UNCHANGED <<fp, req, bounds, last>>

Ignore(w) ==
    /\ pc[w] = "check"
    /\ req[w].op = "other"
    /\ Goto(w, "idle")
    /\ req' = [req EXCEPT ![w] = Nil]
    /\ UNCHANGED <<fp, res, bounds, last>>

\* Faulty variants: the last block is left out; one block too many is let through.
Valid_Strict(r) == (r.size + r.off) % Word < NbBlocks

Valid_OneMore(r) == (r.size + r.off) % Word <= NbBlocks + 1

\* checkValidRequest adds two uint32_t.
Valid(r) == (r.size + r.off) % Word <= NbBlocks

CheckValidRequest(w) ==
    /\ pc[w] = "check"
    /\ req[w].op \in {"read", "write"}
    /\ IF Valid(req[w])
         THEN Goto(w, "seek") /\ UNCHANGED res
         ELSE Reply(w, <<"noauth">>)
    /\ UNCHANGED <<fp, req, bounds, last>>

\* Faulty variant: the position is moved under the buffered data.
Seek_NoFlush(w) ==
    /\ pc[w] = "seek"
    /\ pos' = req[w].off
    /\ Goto(w, "xfer")
    /\ UNCHANGED <<file, pend, req, res, bounds, last>>

\* fseek flushes the buffer and moves the position.
Seek(w) ==
    /\ pc[w] = "seek"
    /\ file' = Overlay
    /\ pend' = NoPend
    /\ pos' = req[w].off
    /\ Goto(w, "xfer")
    /\ UNCHANGED <<req, res, bounds, last>>

\* The disk refuses buffered data: some of it may have reached the file, and
\* the C library may keep the rest in the buffer or drop it.
FlushFails ==
    /\ DiskMayFail
    /\ \E done \in SUBSET {a \in Addrs : pend[a] # None} :
         file' = [a \in Addrs |-> IF a \in done THEN pend[a] ELSE file[a]]
    /\ pend' \in {pend, NoPend}
    /\ UNCHANGED pos

\* Faulty variant: writeFile does not look at the result of fseek either.
SeekFails_Unseen(w) ==
    /\ pc[w] = "seek"
    /\ FlushFails
    /\ Goto(w, "xfer")
    /\ UNCHANGED <<req, res, bounds, last>>

\* If the flush fails, writeFile answers ERR; readFile does not look.
SeekFails(w) ==
    /\ pc[w] = "seek"
    /\ FlushFails
    /\ IF req[w].op = "write"
         THEN Reply(w, <<"err">>)
         ELSE Goto(w, "xfer") /\ UNCHANGED res
    /\ UNCHANGED <<req, bounds, last>>

\* fread, at the position fp has by now.
ReadFile(w) ==
    /\ pc[w] = "xfer"
    /\ req[w].op = "read"
    /\ file' = Overlay
    /\ pend' = NoPend
    /\ pos' = pos + req[w].size
    /\ Reply(w, <<"data", [i \in 0 .. (req[w].size - 1) |-> At(pos + i)]>>)
    /\ UNCHANGED <<req, bounds, last>>

\* fread fails, or the flush before it: readFile sends its uninitialised buffer.
ReadFails(w) ==
    /\ pc[w] = "xfer"
    /\ req[w].op = "read"
    /\ FlushFails
    /\ Reply(w, <<"data", [i \in 0 .. (req[w].size - 1) |-> Garbage]>>)
    /\ UNCHANGED <<req, bounds, last>>

\* fwrite takes n blocks, at the position fp has by now: the first k of them
\* go to the file, with all that was buffered, and the others are buffered.
Fwrite(w, n) ==
    /\ \E k \in 0 .. n :
         /\ file' = [a \in Addrs |->
                       CASE k = 0 -> file[a]
                         [] k > 0 /\ a \in Blocks(pos, k) -> req[w].val
                         [] OTHER -> Overlay[a]]
         /\ pend' = [a \in Addrs |->
                       CASE a \in Blocks(pos + k, n - k) -> req[w].val
                         [] k = 0 /\ a \notin Blocks(pos, n) -> pend[a]
                         [] OTHER -> None]
    /\ pos' = pos + n
    /\ last' = Blocks(pos, n)

WriteFile(w) ==
    /\ pc[w] = "xfer"
    /\ req[w].op = "write"
    /\ Fwrite(w, req[w].size)
    /\ Reply(w, <<"ok">>)
    /\ UNCHANGED <<req, bounds>>

\* fwrite returns an unsigned count, so "fwrite(...) >= 0" also holds when
\* fewer blocks, or none, were taken: the answer is OK.
WriteFails(w) ==
    /\ DiskMayFail
    /\ pc[w] = "xfer"
    /\ req[w].op = "write"
    /\ \E n \in 0 .. (req[w].size - 1) : Fwrite(w, n)
    /\ Reply(w, <<"ok">>)
    /\ UNCHANGED <<req, bounds>>

\* sync() leaves the buffer of fp alone; then the answer is sent.
Send(w) ==
    /\ pc[w] = "reply"
    /\ Goto(w, "idle")
    /\ req' = [req EXCEPT ![w] = Nil]
    /\ res' = [res EXCEPT ![w] = Nil]
    /\ UNCHANGED <<fp, bounds, last>>

\* The process is killed and started again; getFilesystemFile opens the file
\* that is there.
Crash ==
    /\ crashes < MaxCrashes
    /\ crashes' = crashes + 1
    /\ pend' = NoPend
    /\ pos' = 0
    /\ pc' = [w \in Workers |-> "idle"]
    /\ req' = [w \in Workers |-> Nil]
    /\ res' = [w \in Workers |-> Nil]
    /\ last' = {}
    /\ UNCHANGED <<file, received>>

-----------------------------------------------------------------------------
WorkerStep(w) ==
    \/ SendInfo(w) \/ Ignore(w) \/ CheckValidRequest(w)
    \/ Seek(w) \/ SeekFails(w) \/ ReadFile(w) \/ ReadFails(w)
    \/ WriteFile(w) \/ WriteFails(w) \/ Send(w)

Next ==
    \/ \E w \in Workers, r \in Requests : Receive(w, r)
    \/ \E w \in Workers : WorkerStep(w)
    \/ Crash

Spec == Init /\ [][Next]_vars

-----------------------------------------------------------------------------
(***************************************************************************)
(* Properties.                                                             *)
(***************************************************************************)
\* Every variable has its type.
TypeOK ==
    /\ file \in [Addrs -> Contents]
    /\ pend \in [Addrs -> Contents \cup {None}]
    /\ pos \in Nat
    /\ pc \in [Workers -> {"idle", "check", "seek", "xfer", "reply"}]
    /\ req \in [Workers -> Requests \cup {Nil}]
    /\ \A w \in Workers : req[w] = Nil <=> pc[w] = "idle"
    /\ last \subseteq Nat

\* fread and fwrite work at the offset the client asked for ("data starting at
\* [offset]"): the position is still the one this worker's fseek set.
TransferAtOffset ==
    \A w \in Workers : pc[w] = "xfer" => pos = req[w].off

\* A request that checkValidRequest lets through lies within the file.
AcceptedInRange ==
    \A w \in Workers :
      pc[w] \in {"seek", "xfer"} => req[w].off + req[w].size <= NbBlocks

\* If the server is killed now, at most the last write is lost: every other
\* acknowledged block is in the file.
OnlyLastWritePending ==
    \A a \in Addrs : pend[a] # None => a \in last

\* The same for writes alone: it holds even if fseek may fail, because
\* writeFile looks at its result.
WriteAtOffset ==
    \A w \in Workers :
      pc[w] = "xfer" /\ req[w].op = "write" => pos = req[w].off

\* The file keeps the size getFilesystemFile gave it: no write, and no write
\* after a failed one, extends it.
FileKeepsItsSize ==
    \A a \in Addrs : Overlay[a] = Absent <=> a >= NbBlocks

\* Seen from its clients the server is a BlockStore: each request takes effect
\* at once, and a crash loses only what fp had not passed on.
S == INSTANCE BlockStore WITH
       Size   <- NbBlocks,
       disk   <- Overlay,
       stable <- file,
       op     <- [w \in Workers |-> [req |-> req[w], res |-> res[w]]]

\* The refinement of BlockStore by readFile, writeFile and sendInfo.
BlockStoreSpec == S!Spec
=============================================================================
