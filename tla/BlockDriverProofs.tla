------------------------- MODULE BlockDriverProofs --------------------------
(***************************************************************************)
(* Proofs about the request path of the block driver, for any number of    *)
(* requests and chunks.                                                    *)
(***************************************************************************)
EXTENDS BlockDriver, SequenceTheorems, TLAPS

USE DriverAssumption

\* Who holds sawa_dev.lock.
LockInv ==
    /\ pc[App] \in {"idle", "enter", "fetch", "sort"}
    /\ pc[Handler] # "enter"
    /\ lock = App <=> pc[App] # "idle"
    /\ pc[Handler] \in {"fetch", "sort"} => lock = Handler
    /\ lock = Handler => pc[Handler] \in {"fetch", "sort", "oops", "fault"}

\* the_queue is set before set_next_request is ever called.
QueueKnown ==
    pc[Handler] # "idle" \/ work_pending \/ pc[App] \in {"fetch", "sort"}
      => the_queue

\* The queued requests are distinct, not ended, and none is current_req.
QueueInv ==
    /\ \A i \in 1 .. Len(queue) : queue[i] <= submitted /\ left[queue[i]] > 0
    /\ \A i, j \in 1 .. Len(queue) : queue[i] = queue[j] => i = j
    /\ \A i \in 1 .. Len(queue) : queue[i] # current_req
    /\ current_req # NULL => current_req <= submitted

\* current_req is not ended, except while its successor is being fetched.
CurrentInv ==
    current_req # NULL =>
      left[current_req] > 0 \/ \E p \in {App, Handler} : pc[p] = "fetch"

\* A queued request has somebody who will fetch it, and a current one somebody
\* who will serve it.
ServedInv ==
    /\ lock = NULL /\ queue # <<>> => current_req # NULL
    /\ \A p \in {App, Handler} : pc[p] = "sort" /\ current_req = NULL => queue = <<>>
    /\ current_req # NULL /\ pc[App] \notin {"fetch", "sort"} =>
         work_pending \/ pc[Handler] # "idle"

\* The request being transferred is known.
TransferInv == pc[Handler] \in {"xfer", "end"} => h_req # NULL

\* When the module is gone there is nothing left to fetch or to end.
GoneInv ==
    driver = "gone" =>
    /\ pc[App] = "idle" /\ pc[Handler] \notin {"fetch", "sort"}
    /\ current_req = NULL
    /\ \A r \in Reqs : left[r] = 0

IInv ==
    /\ TypeOK
    /\ LockInv
    /\ QueueKnown
    /\ QueueInv
    /\ CurrentInv
    /\ ServedInv
    /\ TransferInv
    /\ GoneInv

-----------------------------------------------------------------------------
\* Submit keeps the invariant: a new request is queued under the lock.
LEMMA SubmitPreserves ==
    ASSUME NEW k \in Kinds, NEW n \in 1 .. MaxChunks, IInv, Submit(k, n)
    PROVE  IInv'
<1> USE DEF IInv, Submit, Goto, Found, reqs, hist, Reqs
<1>1. TypeOK' BY SMTT(60) DEF TypeOK
<1>2. LockInv' BY DEF TypeOK, LockInv
<1>3. QueueKnown' BY DEF TypeOK, LockInv, QueueKnown
<1>4. QueueInv'
  <2>1. /\ queue \in Seq(Reqs) /\ Len(queue) \in Nat
        /\ submitted + 1 \in Reqs /\ submitted \in Nat
        /\ submitted' = submitted + 1
        /\ current_req' = current_req
        /\ left' = [left EXCEPT ![submitted + 1] = n]
    BY LenProperties DEF TypeOK
  <2>2. /\ Len(queue') = Len(queue) + 1
        /\ queue'[Len(queue) + 1] = submitted + 1
        /\ \A i \in 1 .. Len(queue) : queue'[i] = queue[i] /\ queue[i] \in Reqs
    BY <2>1, AppendProperties, ElementOfSeq
  <2>3. \A i \in 1 .. Len(queue) : queue[i] < submitted + 1
    BY <2>1, <2>2 DEF QueueInv
  <2>4. current_req # NULL => current_req \in Nat /\ current_req < submitted + 1
    BY <2>1 DEF TypeOK, QueueInv
  <2>5. \A i \in 1 .. Len(queue') : i \in 1 .. Len(queue) \/ i = Len(queue) + 1
    BY <2>1, <2>2
  <2>6. \A i \in 1 .. Len(queue') : queue'[i] <= submitted' /\ left'[queue'[i]] > 0
    <3> SUFFICES ASSUME NEW i \in 1 .. Len(queue')
                 PROVE  queue'[i] <= submitted' /\ left'[queue'[i]] > 0
      OBVIOUS
    <3>1. left \in [Reqs -> 0 .. MaxChunks] /\ n \in Nat /\ n > 0
      BY SMTT(60) DEF TypeOK
    <3> HIDE DEF Submit, Reqs
    <3>2. CASE i \in 1 .. Len(queue)
      <4>1. queue'[i] = queue[i] /\ queue[i] \in Reqs /\ queue[i] # submitted + 1
        BY <2>1, <2>2, <2>3, <3>2 DEF Reqs
      <4>2. left'[queue[i]] = left[queue[i]]
        BY <2>1, <3>1, <4>1
      <4>3. queue[i] <= submitted /\ left[queue[i]] > 0
        BY <3>2 DEF QueueInv
      <4> QED BY <2>1, <4>1, <4>2, <4>3 DEF Reqs
    <3>3. CASE i = Len(queue) + 1
      BY <2>1, <2>2, <3>1, <3>3 DEF Reqs
    <3> QED BY <2>5, <3>2, <3>3
  <2>7. \A i, j \in 1 .. Len(queue') : queue'[i] = queue'[j] => i = j
    BY <2>1, <2>2, <2>3, <2>5 DEF QueueInv
  <2>8. \A i \in 1 .. Len(queue') : queue'[i] # current_req'
    BY <2>1, <2>2, <2>3, <2>4, <2>5 DEF QueueInv
  <2>9. current_req' # NULL => current_req' <= submitted'
    BY <2>1, <2>4
  <2> HIDE DEF Submit
  <2> QED BY <2>6, <2>7, <2>8, <2>9 DEF QueueInv
<1>5. CurrentInv' BY DEF TypeOK, LockInv, CurrentInv
<1>6. ServedInv' BY DEF TypeOK, LockInv, ServedInv
<1>7. TransferInv' BY DEF TypeOK, LockInv, TransferInv
<1>8. GoneInv' BY DEF TypeOK, LockInv, GoneInv
<1> QED BY <1>1, <1>2, <1>3, <1>4, <1>5, <1>6, <1>7, <1>8

\* RunQueue keeps the invariant: only the lock is taken.
LEMMA RunQueuePreserves ==
    ASSUME IInv, RunQueue
    PROVE  IInv'
<1> USE DEF IInv, RunQueue, Goto, Found, reqs, hist, Reqs
<1>1. TypeOK' BY DEF TypeOK
<1>2. LockInv' BY DEF TypeOK, LockInv
<1>3. QueueKnown' BY DEF TypeOK, LockInv, QueueKnown
<1>4. QueueInv' BY DEF TypeOK, LockInv, QueueInv
<1>5. CurrentInv' BY DEF TypeOK, LockInv, CurrentInv
<1>6. ServedInv' BY DEF TypeOK, LockInv, ServedInv
<1>7. TransferInv' BY DEF TypeOK, LockInv, TransferInv
<1>8. GoneInv' BY DEF TypeOK, LockInv, GoneInv
<1> QED BY <1>1, <1>2, <1>3, <1>4, <1>5, <1>6, <1>7, <1>8

\* RequestEnter keeps the invariant: blockdev_request fetches only when there is no current request.
LEMMA RequestEnterPreserves ==
    ASSUME IInv, RequestEnter
    PROVE  IInv'
<1> USE DEF IInv, RequestEnter, Goto, Found, reqs, hist, Reqs
<1>1. TypeOK' BY SMTT(60) DEF TypeOK
<1>2. LockInv' BY DEF TypeOK, LockInv
<1>3. QueueKnown' BY DEF TypeOK, LockInv, QueueKnown
<1>4. QueueInv' BY DEF TypeOK, LockInv, QueueInv
<1>5. CurrentInv' BY DEF TypeOK, LockInv, CurrentInv
<1>6. ServedInv' BY DEF TypeOK, LockInv, ServedInv
<1>7. TransferInv' BY DEF TypeOK, LockInv, TransferInv
<1>8. GoneInv' BY DEF TypeOK, LockInv, GoneInv
<1> QED BY <1>1, <1>2, <1>3, <1>4, <1>5, <1>6, <1>7, <1>8

\* Fetch keeps the invariant: the head of the queue becomes current_req.
LEMMA FetchPreserves ==
    ASSUME NEW p \in {App, Handler}, IInv, Fetch(p)
    PROVE  IInv'
<1> USE DEF IInv, Fetch, Goto, Found, reqs, hist, Reqs
<1>1. CASE ~ the_queue \/ queue = <<>>
  <2>1. TypeOK' BY <1>1 DEF TypeOK
  <2>2. LockInv' BY DEF TypeOK, LockInv
  <2>3. QueueKnown' BY DEF TypeOK, QueueKnown
  <2>4. QueueInv'
    <3>1. \A i \in 1 .. Len(queue) : queue[i] # NULL
      <4>1. queue \in Seq(Reqs) /\ NULL \notin Reqs
        BY DEF TypeOK
      <4> HIDE DEF Fetch, Reqs
      <4> QED BY <4>1, ElementOfSeq
    <3> QED BY <1>1, <3>1 DEF QueueInv
  <2>5. CurrentInv' BY <1>1 DEF TypeOK, CurrentInv
  <2>6. ServedInv' BY <1>1 DEF TypeOK, LockInv, QueueKnown, ServedInv
  <2>7. TransferInv' BY DEF TypeOK, TransferInv
  <2>8. GoneInv' BY DEF TypeOK, LockInv, GoneInv
  <2> QED BY <2>1, <2>2, <2>3, <2>4, <2>5, <2>6, <2>7, <2>8
<1>2. CASE the_queue /\ queue # <<>>
  <2>a. queue \in Seq(Reqs) /\ Len(queue) \in Nat /\ Len(queue) > 0
    BY <1>2, EmptySeq, LenProperties DEF TypeOK
  <2>b. /\ current_req' = queue[1] /\ queue[1] \in Reqs
        /\ queue' \in Seq(Reqs)
        /\ Len(queue') = Len(queue) - 1
        /\ \A i \in 1 .. Len(queue') : queue'[i] = queue[i + 1]
    <3>1. queue' = Tail(queue) /\ current_req' = Head(queue) /\ Head(queue) = queue[1]
      BY <1>2, <2>a
    <3> HIDE DEF Reqs, Fetch
    <3> QED BY <1>2, <2>a, <3>1, HeadTailProperties
  <2>c. UNCHANGED <<submitted, left>>
    OBVIOUS
  <2>1. TypeOK' BY <1>2, <2>b DEF TypeOK
  <2>2. LockInv' BY DEF TypeOK, LockInv
  <2>3. QueueKnown' BY DEF TypeOK, QueueKnown
  <2>4. QueueInv'
    <3> HIDE DEF Fetch
    <3>1. \A i \in 1 .. Len(queue') : i + 1 \in 1 .. Len(queue) /\ i + 1 # 1
      BY <2>a, <2>b
    <3>2. 1 \in 1 .. Len(queue)
      BY <2>a
    <3>3. \A i \in 1 .. Len(queue') : queue'[i] <= submitted /\ left[queue'[i]] > 0
      BY <2>b, <3>1 DEF QueueInv
    <3>4. \A i, j \in 1 .. Len(queue') : queue'[i] = queue'[j] => i = j
      <4> SUFFICES ASSUME NEW i \in 1 .. Len(queue'), NEW j \in 1 .. Len(queue'),
                          queue'[i] = queue'[j]
                   PROVE  i = j
        OBVIOUS
      <4>1. i + 1 = j + 1
        BY <2>b, <3>1, SMTT(60) DEF QueueInv
      <4> QED BY <4>1
    <3>5. \A i \in 1 .. Len(queue') : queue'[i] # queue[1]
      BY <2>b, <3>1, <3>2 DEF QueueInv
    <3>6. queue[1] <= submitted
      BY <3>2 DEF QueueInv
    <3> QED BY <2>b, <2>c, <3>3, <3>4, <3>5, <3>6 DEF QueueInv
  <2>5. CurrentInv'
    <3>1. left[queue[1]] > 0
      BY <2>a DEF QueueInv
    <3> QED BY <2>b, <2>c, <3>1 DEF CurrentInv
  <2>6. ServedInv'
    <3>1. current_req' # NULL
      BY <2>b
    <3>2. lock' # NULL
      BY DEF LockInv
    <3>3. pc'[App] \notin {"fetch", "sort"} => pc'[Handler] # "idle"
      BY DEF TypeOK, LockInv
    <3> QED BY <3>1, <3>2, <3>3 DEF ServedInv
  <2>7. TransferInv' BY DEF TypeOK, TransferInv
  <2>8. GoneInv' BY DEF TypeOK, LockInv, GoneInv
  <2> QED BY <2>1, <2>2, <2>3, <2>4, <2>5, <2>6, <2>7, <2>8
<1> QED BY <1>1, <1>2

\* SkipRequest keeps the invariant: a request of another type is ended and replaced.
LEMMA SkipRequestPreserves ==
    ASSUME NEW p \in {App, Handler}, IInv, SkipRequest(p)
    PROVE  IInv'
<1> USE DEF IInv, SkipRequest, Goto, Found, reqs, hist, Reqs
<1>1. TypeOK' BY DEF TypeOK
<1>2. LockInv' BY DEF TypeOK, LockInv
<1>3. QueueKnown' BY DEF TypeOK, LockInv, QueueKnown
<1>4. QueueInv'
  <2>1. \A i \in 1 .. Len(queue) : queue[i] \in Reqs /\ left'[queue[i]] = left[queue[i]]
    BY ElementOfSeq DEF TypeOK, QueueInv
  <2> QED BY <2>1 DEF QueueInv
<1>5. CurrentInv' BY DEF TypeOK, LockInv, CurrentInv
<1>6. ServedInv' BY DEF TypeOK, LockInv, ServedInv
<1>7. TransferInv' BY DEF TypeOK, LockInv, TransferInv
<1>8. GoneInv' BY DEF TypeOK, LockInv, GoneInv
<1> QED BY <1>1, <1>2, <1>3, <1>4, <1>5, <1>6, <1>7, <1>8

\* RequestLeave keeps the invariant: the work is scheduled for the request that was found.
LEMMA RequestLeavePreserves ==
    ASSUME IInv, RequestLeave
    PROVE  IInv'
<1> USE DEF IInv, RequestLeave, Goto, Found, reqs, hist, Reqs
<1>1. TypeOK' BY DEF TypeOK
<1>2. LockInv' BY DEF TypeOK, LockInv
<1>3. QueueKnown' BY DEF TypeOK, LockInv, QueueKnown
<1>4. QueueInv' BY DEF TypeOK, LockInv, QueueInv
<1>5. CurrentInv' BY DEF TypeOK, LockInv, CurrentInv
<1>6. ServedInv' BY DEF TypeOK, LockInv, ServedInv
<1>7. TransferInv' BY DEF TypeOK, LockInv, TransferInv
<1>8. GoneInv' BY DEF TypeOK, LockInv, GoneInv
<1> QED BY <1>1, <1>2, <1>3, <1>4, <1>5, <1>6, <1>7, <1>8

\* HandlerStart keeps the invariant: the pending work starts.
LEMMA HandlerStartPreserves ==
    ASSUME IInv, HandlerStart
    PROVE  IInv'
<1> USE DEF IInv, HandlerStart, Goto, Found, reqs, hist, Reqs
<1>1. TypeOK' BY DEF TypeOK
<1>2. LockInv' BY DEF TypeOK, LockInv
<1>3. QueueKnown' BY DEF TypeOK, LockInv, QueueKnown
<1>4. QueueInv' BY DEF TypeOK, LockInv, QueueInv
<1>5. CurrentInv' BY DEF TypeOK, LockInv, CurrentInv
<1>6. ServedInv' BY DEF TypeOK, LockInv, ServedInv
<1>7. TransferInv' BY DEF TypeOK, LockInv, TransferInv
<1>8. GoneInv' BY DEF TypeOK, LockInv, GoneInv
<1> QED BY <1>1, <1>2, <1>3, <1>4, <1>5, <1>6, <1>7, <1>8

\* HandlerRead keeps the invariant: the worker looks at current_req.
LEMMA HandlerReadPreserves ==
    ASSUME IInv, HandlerRead
    PROVE  IInv'
<1> USE DEF IInv, HandlerRead, Goto, Found, reqs, hist, Reqs
<1>1. TypeOK' BY DEF TypeOK
<1>2. LockInv' BY DEF TypeOK, LockInv
<1>3. QueueKnown' BY DEF TypeOK, LockInv, QueueKnown
<1>4. QueueInv' BY DEF TypeOK, LockInv, QueueInv
<1>5. CurrentInv' BY DEF TypeOK, LockInv, CurrentInv
<1>6. ServedInv' BY DEF TypeOK, LockInv, ServedInv
<1>7. TransferInv' BY DEF TypeOK, LockInv, TransferInv
<1>8. GoneInv' BY DEF TypeOK, LockInv, GoneInv
<1> QED BY <1>1, <1>2, <1>3, <1>4, <1>5, <1>6, <1>7, <1>8

\* Transfer keeps the invariant: a chunk is transferred.
LEMMA TransferPreserves ==
    ASSUME NEW result \in {0, -1}, IInv, Transfer(result)
    PROVE  IInv'
<1> USE DEF IInv, Transfer, Goto, Found, reqs, hist, Reqs
<1>1. TypeOK' BY SMTT(60) DEF TypeOK
<1>2. LockInv' BY DEF TypeOK, LockInv
<1>3. QueueKnown' BY DEF TypeOK, LockInv, QueueKnown
<1>4. QueueInv' BY DEF TypeOK, LockInv, QueueInv
<1>5. CurrentInv' BY DEF TypeOK, LockInv, CurrentInv
<1>6. ServedInv' BY DEF TypeOK, LockInv, ServedInv
<1>7. TransferInv' BY DEF TypeOK, LockInv, TransferInv
<1>8. GoneInv' BY DEF TypeOK, LockInv, GoneInv
<1> QED BY <1>1, <1>2, <1>3, <1>4, <1>5, <1>6, <1>7, <1>8

\* EndChunk keeps the invariant: one chunk of current_req, which is not ended, is ended.
LEMMA EndChunkPreserves ==
    ASSUME IInv, EndChunk
    PROVE  IInv'
<1> USE DEF IInv, EndChunk, Goto, Found, reqs, hist, Reqs
<1>a. current_req \in Reqs /\ left[current_req] \in 1 .. MaxChunks
  BY SMTT(60) DEF TypeOK, CurrentInv, LockInv
<1>b. bad' \in [Reqs -> BOOLEAN]
  BY <1>a, Zenon DEF TypeOK
<1>c. left' \in [Reqs -> 0 .. MaxChunks]
  BY <1>a, SMTT(60) DEF TypeOK
<1>d. lock' \in {NULL, App, Handler} /\ pc' \in [{App, Handler} ->
         {"idle", "enter", "fetch", "sort", "read", "xfer", "end", "test", "oops", "fault"}]
  BY DEF TypeOK
<1>e. UNCHANGED <<queue, submitted, kind, size, the_queue, current_req,
                  work_pending, h_req, ret, moved, broken, driver>>
  OBVIOUS
<1>1. TypeOK'
  <2> HIDE DEF EndChunk
  <2> QED BY <1>b, <1>c, <1>d, <1>e DEF TypeOK
<1>2. LockInv' BY DEF TypeOK, LockInv
<1>3. QueueKnown' BY DEF TypeOK, LockInv, QueueKnown
<1>4. QueueInv'
  <2>1. \A i \in 1 .. Len(queue) : queue[i] \in Reqs /\ left'[queue[i]] = left[queue[i]]
    BY ElementOfSeq DEF TypeOK, QueueInv
  <2> QED BY <2>1 DEF QueueInv
<1>5. CurrentInv' BY DEF TypeOK, LockInv, CurrentInv
<1>6. ServedInv' BY DEF TypeOK, LockInv, ServedInv
<1>7. TransferInv' BY DEF TypeOK, LockInv, TransferInv
<1>8. GoneInv' BY DEF TypeOK, LockInv, GoneInv
<1> QED BY <1>1, <1>2, <1>3, <1>4, <1>5, <1>6, <1>7, <1>8

\* EndNull keeps the invariant: the crash leaves the requests alone.
LEMMA EndNullPreserves ==
    ASSUME IInv, EndNull
    PROVE  IInv'
<1> USE DEF IInv, EndNull, Goto, Found, reqs, hist, Reqs
<1>1. TypeOK' BY DEF TypeOK
<1>2. LockInv' BY DEF TypeOK, LockInv
<1>3. QueueKnown' BY DEF TypeOK, LockInv, QueueKnown
<1>4. QueueInv' BY DEF TypeOK, LockInv, QueueInv
<1>5. CurrentInv' BY DEF TypeOK, LockInv, CurrentInv
<1>6. ServedInv' BY DEF TypeOK, LockInv, ServedInv
<1>7. TransferInv' BY DEF TypeOK, LockInv, TransferInv
<1>8. GoneInv' BY DEF TypeOK, LockInv, GoneInv
<1> QED BY <1>1, <1>2, <1>3, <1>4, <1>5, <1>6, <1>7, <1>8

\* HandlerUnlock keeps the invariant: the worker gives the lock back after its search.
LEMMA HandlerUnlockPreserves ==
    ASSUME IInv, HandlerUnlock
    PROVE  IInv'
<1> USE DEF IInv, HandlerUnlock, Goto, Found, reqs, hist, Reqs
<1>1. TypeOK' BY DEF TypeOK
<1>2. LockInv' BY DEF TypeOK, LockInv
<1>3. QueueKnown' BY DEF TypeOK, LockInv, QueueKnown
<1>4. QueueInv' BY DEF TypeOK, LockInv, QueueInv
<1>5. CurrentInv' BY DEF TypeOK, LockInv, CurrentInv
<1>6. ServedInv' BY DEF TypeOK, LockInv, ServedInv
<1>7. TransferInv' BY DEF TypeOK, LockInv, TransferInv
<1>8. GoneInv' BY DEF TypeOK, LockInv, GoneInv
<1> QED BY <1>1, <1>2, <1>3, <1>4, <1>5, <1>6, <1>7, <1>8

\* HandlerTest keeps the invariant: the worker returns only when there is no current request.
LEMMA HandlerTestPreserves ==
    ASSUME IInv, HandlerTest
    PROVE  IInv'
<1> USE DEF IInv, HandlerTest, Goto, Found, reqs, hist, Reqs
<1>1. TypeOK' BY DEF TypeOK
<1>2. LockInv' BY DEF TypeOK, LockInv
<1>3. QueueKnown' BY DEF TypeOK, LockInv, QueueKnown
<1>4. QueueInv' BY DEF TypeOK, LockInv, QueueInv
<1>5. CurrentInv' BY DEF TypeOK, LockInv, CurrentInv
<1>6. ServedInv' BY DEF TypeOK, LockInv, ServedInv
<1>7. TransferInv' BY DEF TypeOK, LockInv, TransferInv
<1>8. GoneInv' BY DEF TypeOK, LockInv, GoneInv
<1> QED BY <1>1, <1>2, <1>3, <1>4, <1>5, <1>6, <1>7, <1>8

-----------------------------------------------------------------------------
\* DriverExit keeps the invariant: no request is touched.
LEMMA DriverExitPreserves ==
    ASSUME IInv, DriverExit
    PROVE  IInv'
<1> USE DEF IInv, DriverExit, Goto, Found, reqs, hist, Reqs
<1>1. TypeOK' BY DEF TypeOK
<1>2. LockInv' BY DEF TypeOK, LockInv
<1>3. QueueKnown' BY DEF TypeOK, LockInv, QueueKnown
<1>4. QueueInv' BY DEF TypeOK, LockInv, QueueInv
<1>5. CurrentInv' BY DEF TypeOK, LockInv, GoneInv, CurrentInv
<1>6. ServedInv' BY DEF TypeOK, LockInv, GoneInv, ServedInv
<1>7. TransferInv' BY DEF TypeOK, LockInv, TransferInv
<1>8. GoneInv' BY DEF TypeOK, LockInv, GoneInv
<1> QED BY <1>1, <1>2, <1>3, <1>4, <1>5, <1>6, <1>7, <1>8

\* CleanupQueue keeps the invariant: with all requests ended and the lock free there is no
\* current one.
LEMMA CleanupQueuePreserves ==
    ASSUME IInv, CleanupQueue
    PROVE  IInv'
<1> USE DEF IInv, CleanupQueue, Goto, Found, reqs, hist, Reqs
<1>1. TypeOK' BY DEF TypeOK
<1>2. LockInv' BY DEF TypeOK, LockInv
<1>3. QueueKnown' BY DEF TypeOK, LockInv, QueueKnown
<1>4. QueueInv' BY DEF TypeOK, LockInv, QueueInv
<1>5. CurrentInv' BY DEF TypeOK, LockInv, GoneInv, CurrentInv
<1>6. ServedInv' BY DEF TypeOK, LockInv, GoneInv, ServedInv
<1>7. TransferInv' BY DEF TypeOK, LockInv, TransferInv
<1>8. GoneInv' BY DEF TypeOK, LockInv, CurrentInv, GoneInv
<1> QED BY <1>1, <1>2, <1>3, <1>4, <1>5, <1>6, <1>7, <1>8

\* HandlerFault keeps the invariant: the crash leaves the requests alone.
LEMMA HandlerFaultPreserves ==
    ASSUME IInv, HandlerFault
    PROVE  IInv'
<1> USE DEF IInv, HandlerFault, Goto, Found, reqs, hist, Reqs
<1>1. TypeOK' BY DEF TypeOK
<1>2. LockInv' BY DEF TypeOK, LockInv
<1>3. QueueKnown' BY DEF TypeOK, LockInv, QueueKnown
<1>4. QueueInv' BY DEF TypeOK, LockInv, QueueInv
<1>5. CurrentInv' BY DEF TypeOK, LockInv, GoneInv, CurrentInv
<1>6. ServedInv' BY DEF TypeOK, LockInv, GoneInv, ServedInv
<1>7. TransferInv' BY DEF TypeOK, LockInv, TransferInv
<1>8. GoneInv' BY DEF TypeOK, LockInv, GoneInv
<1> QED BY <1>1, <1>2, <1>3, <1>4, <1>5, <1>6, <1>7, <1>8

\* The state after sawa_driver_init satisfies the invariant.
LEMMA InitIInv == Init => IInv
<1> SUFFICES ASSUME Init PROVE IInv
  OBVIOUS
<1> USE DEF Init, Reqs
<1>1. TypeOK
  <2>1. /\ size \in [Reqs -> 0 .. MaxChunks] /\ left \in [Reqs -> 0 .. MaxChunks]
        /\ moved \in [Reqs -> Nat] /\ submitted \in 0 .. MaxReqs
    OBVIOUS
  <2>2. /\ kind \in [Reqs -> {"fs", "other"}]
        /\ pc \in [{App, Handler} -> {"idle", "enter", "fetch", "sort", "read",
                                      "xfer", "end", "test", "oops", "fault"}]
    OBVIOUS
  <2>3. /\ bad \in [Reqs -> BOOLEAN] /\ broken \in [Reqs -> BOOLEAN]
        /\ the_queue \in BOOLEAN /\ work_pending \in BOOLEAN
    OBVIOUS
  <2>4. /\ queue \in Seq(Reqs)
        /\ lock \in {NULL, App, Handler} /\ ret \in {0, -1}
        /\ driver \in {"loaded", "leaving", "gone"}
        /\ current_req \in Reqs \cup {NULL} /\ h_req \in Reqs \cup {NULL}
    OBVIOUS
  <2> QED BY <2>1, <2>2, <2>3, <2>4, Zenon DEF TypeOK
<1>2. LockInv /\ QueueKnown BY DEF LockInv, QueueKnown
<1>3. QueueInv /\ CurrentInv BY DEF QueueInv, CurrentInv
<1>4. ServedInv /\ TransferInv /\ GoneInv BY DEF ServedInv, TransferInv, GoneInv
<1> QED BY <1>1, <1>2, <1>3, <1>4 DEF IInv

\* Every step of the block layer and of work_handler keeps it.
LEMMA NextIInv == IInv /\ [Next]_vars => IInv'
<1> SUFFICES ASSUME IInv, [Next]_vars PROVE IInv'
  OBVIOUS
<1>1. CASE \E k \in Kinds, n \in 1 .. MaxChunks : Submit(k, n)
  BY <1>1, SubmitPreserves
<1>2. CASE RunQueue
  BY <1>2, RunQueuePreserves
<1>3. CASE AppStep
  BY <1>3, RequestEnterPreserves, FetchPreserves, SkipRequestPreserves,
     RequestLeavePreserves DEF AppStep
<1>4. CASE HandlerStep
  BY <1>4, HandlerStartPreserves, HandlerReadPreserves, TransferPreserves,
     EndChunkPreserves, EndNullPreserves, FetchPreserves,
     SkipRequestPreserves, HandlerUnlockPreserves, HandlerTestPreserves
     DEF HandlerStep
<1>5. CASE DriverExit \/ CleanupQueue \/ HandlerFault
  BY <1>5, DriverExitPreserves, CleanupQueuePreserves, HandlerFaultPreserves
<1>6. CASE UNCHANGED vars
  BY <1>6 DEF IInv, vars, reqs, hist, TypeOK, LockInv, QueueKnown, QueueInv,
     CurrentInv, ServedInv, TransferInv, GoneInv
<1> QED BY <1>1, <1>2, <1>3, <1>4, <1>5, <1>6 DEF Next

\* The invariant holds in every reachable state.
THEOREM Invariance == Spec => []IInv
<1> QED BY InitIInv, NextIInv, PTL DEF Spec

\* current_req, the queue and the control states keep their types.
THEOREM TypeCorrect == Spec => []TypeOK
<1>1. IInv => TypeOK BY DEF IInv
<1> QED BY <1>1, Invariance, PTL

\* No request is ended twice, even while a failed search leaves an ended one in
\* current_req for a moment.
THEOREM NothingEndedTwice == Spec => []EndedOnce
<1>1. ASSUME IInv PROVE EndedOnce
  <2>1. ASSUME lock = NULL PROVE \A p \in {App, Handler} : pc[p] # "fetch"
    BY <1>1, <2>1 DEF IInv, LockInv
  <2>2. ASSUME NEW q \in {App, Handler}, pc[q] = "sort"
        PROVE  \A p \in {App, Handler} : pc[p] # "fetch"
    BY <1>1, <2>2 DEF IInv, LockInv
  <2> QED BY <1>1, <2>1, <2>2 DEF IInv, CurrentInv, EndedOnce
<1> QED BY <1>1, Invariance, PTL

-----------------------------------------------------------------------------
(***************************************************************************)
(* With file system requests only, current_req is never a request that is  *)
(* about to be replaced, so the unlocked reads are harmless to the data.   *)
(***************************************************************************)
FsInv ==
    /\ pc[App] = "fetch" => current_req = NULL
    /\ pc[Handler] \in {"xfer", "end"} => current_req = h_req
    /\ \A r \in Reqs : r > submitted => size[r] = 0 /\ left[r] = 0

\* Every step keeps FsInv as long as no other request type is submitted.
LEMMA NextFsInv ==
    ASSUME OnlyFs, OnlyFs', IInv, FsInv, [Next]_vars
    PROVE  FsInv'
<1> USE DEF IInv, FsInv, OnlyFs, TypeOK, LockInv, QueueInv, Goto, Found, reqs, hist, Reqs
<1>1. CASE \E k \in Kinds, n \in 1 .. MaxChunks : Submit(k, n)
  BY <1>1 DEF Submit
<1>2. CASE RunQueue
  BY <1>2 DEF RunQueue
<1>3. CASE RequestEnter
  BY <1>3 DEF RequestEnter
<1>4. ASSUME NEW p \in {App, Handler}, Fetch(p) PROVE FsInv'
  <2>1. CASE p = App
    BY <1>4, <2>1 DEF Fetch, TransferInv
  <2>2. CASE p = Handler
    BY <1>4, <2>2 DEF Fetch
  <2> QED BY <2>1, <2>2
<1>5. ASSUME NEW p \in {App, Handler}, SkipRequest(p) PROVE FsInv'
  BY <1>5 DEF SkipRequest
<1>6. CASE RequestLeave
  BY <1>6 DEF RequestLeave
<1>7. CASE HandlerStart
  BY <1>7 DEF HandlerStart
<1>8. CASE HandlerRead
  BY <1>8 DEF HandlerRead
<1>9. CASE \E result \in {0, -1} : Transfer(result)
  BY <1>9 DEF Transfer
<1>10. CASE EndChunk
  BY <1>10 DEF EndChunk
<1>11. CASE EndNull
  BY <1>11 DEF EndNull
<1>12. CASE HandlerUnlock
  BY <1>12 DEF HandlerUnlock
<1>13. CASE HandlerTest
  BY <1>13 DEF HandlerTest
<1>14. CASE DriverExit \/ CleanupQueue \/ HandlerFault
  <2>1. CASE DriverExit
    BY <2>1 DEF DriverExit
  <2>2. CASE CleanupQueue
    BY <2>2 DEF CleanupQueue
  <2>3. CASE HandlerFault
    BY <2>3 DEF HandlerFault
  <2> QED BY <1>14, <2>1, <2>2, <2>3
<1>15. CASE UNCHANGED vars
  BY <1>15 DEF vars
<1> HIDE DEF FsInv, OnlyFs, IInv, TypeOK, LockInv, QueueInv, Reqs
<1> QED BY <1>1, <1>2, <1>3, <1>4, <1>5, <1>6, <1>7, <1>8, <1>9, <1>10, <1>11,
           <1>12, <1>13, <1>14, <1>15 DEF Next, AppStep, HandlerStep

\* A step that neither transfers nor ends a chunk changes no account.
LEMMA TransferFrame ==
    ASSUME UNCHANGED <<kind, size, left, moved, broken, bad, h_req, ret>>,
           pc'[Handler] = "end" <=> pc[Handler] = "end",
           Accounts
    PROVE  Accounts'
<1> QED BY DEF Accounts

\* Under FsInv every step accounts for each transferred chunk.
LEMMA NextTransferred ==
    ASSUME OnlyFs, IInv, FsInv, Accounts, [Next]_vars
    PROVE  Accounts'
<1> USE DEF IInv, FsInv, OnlyFs, TypeOK, Goto, Found, reqs, hist
<1>1. CASE \E k \in Kinds, n \in 1 .. MaxChunks : Submit(k, n)
  <2>1. PICK k \in Kinds, n \in 1 .. MaxChunks : Submit(k, n)
    BY <1>1
  <2>2. /\ submitted + 1 \in Reqs
        /\ size' = [size EXCEPT ![submitted + 1] = n]
        /\ left' = [left EXCEPT ![submitted + 1] = n]
        /\ pc'[Handler] = pc[Handler]
        /\ UNCHANGED <<h_req, ret, bad, moved, broken>>
    BY <2>1 DEF Submit, Reqs
  <2> SUFFICES ASSUME NEW r \in Reqs
               PROVE  LET ending == pc'[Handler] = "end" /\ h_req' = r IN
                      /\ moved'[r] = size'[r] - left'[r] + (IF ending THEN 1 ELSE 0)
                      /\ broken'[r] <=> bad'[r] \/ (ending /\ ret' < 0)
    BY DEF Accounts
  <2>3. submitted + 1 \in Reqs /\ size[submitted + 1] = 0 /\ left[submitted + 1] = 0
    <3>1. submitted \in Nat /\ submitted < MaxReqs
      BY <2>1 DEF Submit
    <3>2. \A q \in Reqs : q > submitted => size[q] = 0 /\ left[q] = 0
      BY DEF FsInv
    <3> HIDE DEF IInv, FsInv, OnlyFs, TypeOK, LockInv, QueueInv, Goto, Found, Reqs
    <3>3. submitted + 1 \in Reqs /\ submitted + 1 > submitted
      BY <3>1 DEF Reqs
    <3> QED BY <3>2, <3>3
  <2>4. size \in [Reqs -> Int] /\ left \in [Reqs -> Int] /\ n \in Int
    OBVIOUS
  <2>5. size'[r] - left'[r] = size[r] - left[r]
    <3> HIDE DEF IInv, FsInv, OnlyFs, TypeOK, LockInv, QueueInv, Goto, Found, Reqs
    <3>1. CASE r = submitted + 1
      <4>1. size'[r] = n /\ left'[r] = n
        BY <2>2, <2>3, <2>4, <3>1
      <4> QED BY <2>3, <2>4, <3>1, <4>1
    <3>2. CASE r # submitted + 1
      BY <2>2, <2>4, <3>2
    <3> QED BY <3>1, <3>2
  <2> QED BY <2>2, <2>5 DEF Accounts
<1>2. CASE RunQueue
  BY <1>2, TransferFrame DEF RunQueue
<1>3. CASE RequestEnter \/ RequestLeave
  BY <1>3, TransferFrame DEF RequestEnter, RequestLeave
<1>4. CASE HandlerStart \/ HandlerRead \/ HandlerUnlock \/ HandlerTest \/ EndNull
  <2>1. CASE HandlerRead
    <3>1. pc[Handler] = "read" /\ pc'[Handler] # "end"
      BY <2>1 DEF HandlerRead
    <3>2. UNCHANGED <<kind, size, left, moved, broken, bad>>
      BY <2>1 DEF HandlerRead
    <3> QED BY <3>1, <3>2 DEF Accounts
  <2>2. CASE HandlerStart \/ HandlerUnlock \/ HandlerTest
    BY <2>2, TransferFrame DEF HandlerStart, HandlerUnlock, HandlerTest
  <2>3. CASE EndNull
    BY <2>3 DEF EndNull, TransferInv
  <2> QED BY <1>4, <2>1, <2>2, <2>3
<1>5. CASE \E result \in {0, -1} : Transfer(result)
  <2>1. PICK result \in {0, -1} : Transfer(result)
    BY <1>5
  <2>2. /\ pc[Handler] = "xfer" /\ pc'[Handler] = "end"
        /\ UNCHANGED <<kind, size, left, bad, h_req>>
        /\ ret' = result
        /\ h_req \in Reqs
        /\ moved' = [moved EXCEPT ![h_req] = @ + 1]
        /\ broken' = [broken EXCEPT ![h_req] = @ \/ result < 0]
    BY <2>1 DEF Transfer, TransferInv
  <2> SUFFICES ASSUME NEW r \in Reqs
               PROVE  LET ending == pc'[Handler] = "end" /\ h_req' = r IN
                      /\ moved'[r] = size'[r] - left'[r] + (IF ending THEN 1 ELSE 0)
                      /\ broken'[r] <=> bad'[r] \/ (ending /\ ret' < 0)
    BY DEF Accounts
  <2>3. moved[r] = size[r] - left[r] /\ (broken[r] <=> bad[r])
    BY <2>2 DEF Accounts
  <2>4. moved'[r] = moved[r] + (IF h_req = r THEN 1 ELSE 0)
    BY <2>2
  <2>5. broken'[r] <=> broken[r] \/ (h_req = r /\ result < 0)
    BY <2>2
  <2> QED BY <2>2, <2>3, <2>4, <2>5
<1>6. CASE EndChunk
  <2>1. /\ pc[Handler] = "end" /\ pc'[Handler] # "end"
        /\ UNCHANGED <<kind, size, moved, broken, h_req, ret>>
        /\ h_req \in Reqs /\ current_req = h_req
        /\ left' = [left EXCEPT ![h_req] = @ - 1]
        /\ bad' = [bad EXCEPT ![h_req] = @ \/ ret < 0]
    BY <1>6 DEF EndChunk, TransferInv
  <2> SUFFICES ASSUME NEW r \in Reqs
               PROVE  moved'[r] = size'[r] - left'[r] /\ (broken'[r] <=> bad'[r])
    <3> HIDE DEF IInv, FsInv, OnlyFs, TypeOK, LockInv, QueueInv, Goto, Found, Reqs
    <3>1. pc'[Handler] # "end"
      BY <2>1
    <3>2. ASSUME NEW r \in Reqs PROVE size'[r] - left'[r] + 0 = size'[r] - left'[r]
      <4>1. size'[r] \in Int /\ left'[r] \in Int
        BY <2>1 DEF TypeOK, IInv, Reqs
      <4> QED BY <4>1
    <3> QED BY <3>1, <3>2 DEF Accounts
  <2>2. /\ moved[r] = size[r] - left[r] + (IF h_req = r THEN 1 ELSE 0)
        /\ broken[r] <=> bad[r] \/ (h_req = r /\ ret < 0)
    BY <2>1 DEF Accounts
  <2>3. left'[r] = left[r] - (IF h_req = r THEN 1 ELSE 0)
    BY <2>1
  <2>4. bad'[r] <=> bad[r] \/ (h_req = r /\ ret < 0)
    BY <2>1
  <2> QED BY <2>1, <2>2, <2>3, <2>4
<1>7. CASE \E p \in {App, Handler} : Fetch(p) \/ SkipRequest(p)
  BY <1>7, TransferFrame DEF Fetch, SkipRequest
<1>8. CASE DriverExit \/ CleanupQueue
  BY <1>8, TransferFrame DEF DriverExit, CleanupQueue
<1>9. CASE HandlerFault
  <2>1. pc[Handler] # "end" /\ pc'[Handler] # "end"
    BY <1>9 DEF HandlerFault, GoneInv, TransferInv
  <2> QED BY <1>9, <2>1, TransferFrame DEF HandlerFault
<1>10. CASE UNCHANGED vars
  BY <1>10, TransferFrame DEF vars
<1> QED BY <1>1, <1>2, <1>3, <1>4, <1>5, <1>6, <1>7, <1>8, <1>9, <1>10 DEF Next, AppStep, HandlerStep

\* A request that was not submitted has the type it had in the beginning, so the
\* requests were all of one type before if they are after a step.
Unsent == \A r \in Reqs : r > submitted => kind[r] = "fs"

\* Only Submit gives a request its type, and no step takes it back.
LEMMA NextUnsent ==
    ASSUME IInv, Unsent, [Next]_vars
    PROVE  Unsent' /\ (OnlyFs' => OnlyFs)
<1> USE DEF IInv, TypeOK, Unsent, OnlyFs, reqs, Reqs
<1>1. CASE \E k \in Kinds, n \in 1 .. MaxChunks : Submit(k, n)
  BY <1>1 DEF Submit
<1>2. CASE UNCHANGED <<kind, submitted>>
  BY <1>2
<1>3. CASE RunQueue \/ AppStep \/ DriverExit \/ CleanupQueue \/ HandlerFault
  BY <1>2, <1>3 DEF DriverExit, CleanupQueue, HandlerFault, RunQueue, AppStep, RequestEnter, Fetch, SkipRequest, RequestLeave
<1>4. CASE HandlerStep
  BY <1>2, <1>4 DEF HandlerStep, HandlerStart, HandlerRead, Transfer, EndChunk, EndNull,
                    Fetch, SkipRequest, HandlerUnlock, HandlerTest
<1> QED BY <1>1, <1>2, <1>3, <1>4 DEF Next, vars

\* What was done with file system requests only is accounted for.
FsOnlyInv == Unsent /\ (OnlyFs => FsInv /\ Accounts)

LEMMA FsOnlyInvariance == Spec => []FsOnlyInv
<1>1. Init => FsOnlyInv
  BY DEF Init, FsInv, Accounts, Unsent, Reqs, FsOnlyInv
<1>2. IInv /\ FsOnlyInv /\ [Next]_vars => FsOnlyInv'
  <2> SUFFICES ASSUME IInv, FsOnlyInv, [Next]_vars PROVE FsOnlyInv'
    OBVIOUS
  <2>1. Unsent' /\ (OnlyFs' => OnlyFs)
    BY NextUnsent DEF FsOnlyInv
  <2>2. ASSUME OnlyFs' PROVE FsInv' /\ Accounts'
    BY <2>1, <2>2, NextFsInv, NextTransferred DEF FsOnlyInv
  <2> QED BY <2>1, <2>2 DEF FsOnlyInv
<1> QED BY <1>1, <1>2, Invariance, PTL DEF Spec

\* As long as only file system requests were submitted, work_handler ends exactly
\* what it transferred and reports exactly the failures it met.
THEOREM EndsOwnRequest == Spec => []EndsWhatItTransferred
<1>1. FsOnlyInv => EndsWhatItTransferred
  BY DEF FsOnlyInv, EndsWhatItTransferred
<1> QED BY <1>1, FsOnlyInvariance, PTL

\* For any number of requests the module is unloaded between two of them: when
\* blk_cleanup_queue has returned, neither blockdev_request nor a transfer is going
\* on and current_req is null, although nobody waited for work_handler.
THEOREM UnloadsIdle == Spec => []UnloadedIdle
<1>1. ASSUME IInv, FsOnlyInv PROVE UnloadedIdle
  <2> SUFFICES ASSUME driver = "gone" PROVE UnloadedIdle
    BY DEF UnloadedIdle
  <2>1. /\ pc[App] = "idle" /\ pc[Handler] \notin {"fetch", "sort"} /\ current_req = NULL
        /\ \A r \in Reqs : left[r] = 0
    BY <1>1 DEF IInv, GoneInv
  <2>2. queue = <<>>
    <3>1. queue \in Seq(Reqs)
      BY <1>1 DEF IInv, TypeOK
    <3>2. ASSUME queue # <<>> PROVE FALSE
      <4>1. 1 \in 1 .. Len(queue)
        BY <3>1, <3>2, EmptySeq, LenProperties
      <4>2. queue[1] \in Reqs
        BY <3>1, <4>1, ElementOfSeq
      <4>3. left[queue[1]] > 0
        BY <1>1, <4>1 DEF IInv, QueueInv
      <4> QED BY <2>1, <4>2, <4>3
    <3> QED BY <3>2
  <2>3. ASSUME OnlyFs PROVE pc[Handler] \in {"idle", "read", "test", "oops", "fault"}
    <3>1. pc[Handler] \notin {"xfer", "end"}
      BY <1>1, <2>1, <2>3 DEF FsOnlyInv, FsInv, IInv, TransferInv
    <3>2. pc[Handler] \in {"idle", "enter", "fetch", "sort", "read", "xfer", "end", "test", "oops", "fault"}
      BY <1>1 DEF IInv, TypeOK
    <3>3. pc[Handler] # "enter"
      BY <1>1 DEF IInv, LockInv
    <3> QED BY <2>1, <3>1, <3>2, <3>3
  <2> QED BY <2>1, <2>2, <2>3 DEF UnloadedIdle
<1> QED BY <1>1, Invariance, FsOnlyInvariance, PTL

\* No request is stranded: blockdev_request may quit when current_req is set, and
\* sawa_driver_exit leaves none behind.
THEOREM NothingStranded == Spec => []NoStrandedRequest
<1>1. ASSUME IInv, UnloadedIdle PROVE NoStrandedRequest
  <2>1. lock = NULL => pc[App] \notin {"fetch", "sort"}
    BY <1>1 DEF IInv, LockInv
  <2> QED BY <1>1, <2>1 DEF IInv, ServedInv, NoStrandedRequest
<1> QED BY <1>1, Invariance, UnloadsIdle, PTL
=============================================================================
