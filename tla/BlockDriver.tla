---------------------------- MODULE BlockDriver -----------------------------
(***************************************************************************)
(* The request path of the SaWa block driver (main.c).                     *)
(*                                                                         *)
(* Two parties run concurrently: the block layer, which calls              *)
(* blockdev_request with sawa_dev.lock held, and the kernel worker that    *)
(* runs work_handler.  They share current_req.  Writes to it are made      *)
(* under the lock, but work_handler reads it without the lock, when it     *)
(* starts a transfer and when it decides whether to return, so every       *)
(* assignment that set_next_request makes is a step of its own.            *)
(*                                                                         *)
(* The block layer's queue, __blk_end_request_cur and the work queue are   *)
(* the kernel's: a request is a number of chunks that are ended one by     *)
(* one, and a work item that is scheduled while it runs runs once more.    *)
(* When the module is unloaded blk_cleanup_queue waits for the requests,   *)
(* but nobody waits for the work item.                                     *)
(***************************************************************************)
EXTENDS Integers, Sequences

CONSTANTS
    NULL,        \* no request, and nobody as the owner of the lock
    App,         \* the caller of blockdev_request
    Handler,     \* the kernel worker that runs work_handler
    Kinds,       \* the request types that are submitted: "fs", "other"
    MaxReqs,     \* bound: requests submitted
    MaxChunks    \* bound: chunks of a request

Reqs == 1 .. MaxReqs

ASSUME DriverAssumption ==
    /\ MaxReqs \in Nat
    /\ MaxChunks \in Nat \ {0}
    /\ Kinds \subseteq {"fs", "other"}
    /\ NULL \notin Int
    /\ App # Handler
    /\ NULL \notin {App, Handler}

VARIABLES
    \* The block layer's side.
    queue,        \* requests submitted and not fetched
    submitted,    \* requests submitted so far; also the last one's name
    kind, size,   \* cmd_type and number of chunks of each request
    left,         \* chunks of each request that are not ended
    \* main.c.
    driver,       \* "loaded", "leaving" (in sawa_driver_exit) or "gone"
    lock, the_queue, current_req,
    \* The delayed work item.
    work_pending,
    \* Control states, and what work_handler read from current_req.
    pc, h_req, ret,
    bad,          \* was a chunk of the request ended with an error?
    \* History: chunks transferred for each request, and whether one failed.
    moved, broken

reqs == <<submitted, kind, size>>
hist == <<moved, broken>>
vars == <<queue, reqs, left, driver, lock, the_queue, current_req, work_pending, pc,
          h_req, ret, bad, hist>>

Init ==
    /\ queue = <<>>
    /\ submitted = 0
    /\ kind = [r \in Reqs |-> "fs"]
    /\ size = [r \in Reqs |-> 0]
    /\ left = [r \in Reqs |-> 0]
    /\ driver = "loaded"
    /\ lock = NULL
    /\ the_queue = FALSE
    /\ current_req = NULL
    /\ work_pending = FALSE
    /\ pc = [p \in {App, Handler} |-> "idle"]
    /\ h_req = NULL
    /\ ret = 0
    /\ moved = [r \in Reqs |-> 0]
    /\ bad = [r \in Reqs |-> FALSE]
    /\ broken = [r \in Reqs |-> FALSE]

Goto(p, label) == pc' = [pc EXCEPT ![p] = label]

-----------------------------------------------------------------------------
(***************************************************************************)
(* The block layer takes the lock, queues a request (or only runs the      *)
(* queue again) and calls blockdev_request.                                *)
(***************************************************************************)
Submit(k, n) ==
    /\ lock = NULL /\ driver = "loaded"
    /\ submitted < MaxReqs
    /\ lock' = App
    /\ submitted' = submitted + 1
    /\ kind' = [kind EXCEPT ![submitted + 1] = k]
    /\ size' = [size EXCEPT ![submitted + 1] = n]
    /\ left' = [left EXCEPT ![submitted + 1] = n]
    /\ queue' = Append(queue, submitted + 1)
    /\ Goto(App, "enter")
    /\ UNCHANGED <<the_queue, current_req, work_pending, h_req, ret, bad, hist, driver>>

RunQueue ==
    /\ lock = NULL /\ driver # "gone"
    /\ lock' = App
    /\ Goto(App, "enter")
    /\ UNCHANGED <<queue, reqs, left, the_queue, current_req, work_pending,
                   h_req, ret, bad, hist, driver>>

\* Faulty variant: current_req is not tested.
RequestEnter_NoTest ==
    /\ pc[App] = "enter"
    /\ the_queue' = TRUE
    /\ Goto(App, "fetch")
    /\ UNCHANGED <<queue, reqs, left, lock, current_req, work_pending, h_req,
                   ret, bad, hist, driver>>

\* blockdev_request returns at once if a request is being worked on.
RequestEnter ==
    /\ pc[App] = "enter"
    /\ the_queue' = TRUE
    /\ IF current_req # NULL
         THEN Goto(App, "idle") /\ lock' = NULL
         ELSE Goto(App, "fetch") /\ UNCHANGED lock
    /\ UNCHANGED <<queue, reqs, left, current_req, work_pending, h_req, ret,
                   bad, hist, driver>>

-----------------------------------------------------------------------------
(***************************************************************************)
(* set_next_request, called by p with the lock held: fetch a request, end  *)
(* it with -EIO and fetch again if it is not a file system request.        *)
(***************************************************************************)
Fetch(p) ==
    /\ pc[p] = "fetch"
    /\ IF ~ the_queue \/ queue = <<>>
         THEN current_req' = NULL /\ UNCHANGED queue
         ELSE current_req' = Head(queue) /\ queue' = Tail(queue)
    /\ Goto(p, "sort")
    /\ UNCHANGED <<reqs, left, lock, the_queue, work_pending, h_req, ret,
                   bad, hist, driver>>

SkipRequest(p) ==
    /\ pc[p] = "sort"
    /\ current_req # NULL
    /\ kind[current_req] # "fs"
    /\ left' = [left EXCEPT ![current_req] = 0]
    /\ Goto(p, "fetch")
    /\ UNCHANGED <<queue, reqs, lock, the_queue, current_req, work_pending,
                   h_req, ret, bad, hist, driver>>

Found(p) ==
    /\ pc[p] = "sort"
    /\ current_req # NULL => kind[current_req] = "fs"

\* Faulty variant: the work is not scheduled.
RequestLeave_NoSchedule ==
    /\ Found(App)
    /\ lock' = NULL
    /\ Goto(App, "idle")
    /\ UNCHANGED <<queue, reqs, left, the_queue, current_req, work_pending,
                   h_req, ret, bad, hist, driver>>

\* The end of blockdev_request: the work is scheduled if there is a request.
RequestLeave ==
    /\ Found(App)
    /\ work_pending' = (work_pending \/ current_req # NULL)
    /\ lock' = NULL
    /\ Goto(App, "idle")
    /\ UNCHANGED <<queue, reqs, left, the_queue, current_req, h_req, ret,
                   bad, hist, driver>>

-----------------------------------------------------------------------------
(***************************************************************************)
(* work_handler.                                                           *)
(***************************************************************************)
HandlerStart ==
    /\ pc[Handler] = "idle"
    /\ work_pending
    /\ work_pending' = FALSE
    /\ Goto(Handler, "read")
    /\ UNCHANGED <<queue, reqs, left, lock, the_queue, current_req, h_req,
                   ret, bad, hist, driver>>

\* Lines 93-94 dereference current_req without the lock and without a test.
HandlerRead ==
    /\ pc[Handler] = "read"
    /\ h_req' = current_req
    /\ Goto(Handler, IF current_req = NULL THEN "oops" ELSE "xfer")
    /\ UNCHANGED <<queue, reqs, left, lock, the_queue, current_req,
                   work_pending, ret, bad, hist, driver>>

\* blockdev_transfer: sawa_read_data and sawa_write_data return 0 or -1.
Transfer(result) ==
    /\ pc[Handler] = "xfer"
    /\ ret' = result
    /\ moved' = [moved EXCEPT ![h_req] = @ + 1]
    /\ broken' = [broken EXCEPT ![h_req] = @ \/ result < 0]
    /\ Goto(Handler, "end")
    /\ UNCHANGED <<queue, reqs, left, lock, the_queue, current_req,
                   work_pending, h_req, bad, driver>>

\* Faulty variant: an ended request is replaced by no request at all.
EndChunk_NoNext ==
    /\ pc[Handler] = "end"
    /\ lock = NULL
    /\ current_req # NULL
    /\ left' = [left EXCEPT ![current_req] = @ - 1]
    /\ bad' = [bad EXCEPT ![current_req] = @ \/ ret < 0]
    /\ Goto(Handler, "test")
    /\ current_req' = IF left[current_req] = 1 THEN NULL ELSE current_req
    /\ UNCHANGED <<queue, reqs, lock, the_queue, work_pending, h_req, ret,
                   hist, driver>>

\* Faulty variant: an ended request is not replaced.
EndChunk_Again ==
    /\ pc[Handler] = "end"
    /\ lock = NULL
    /\ current_req # NULL
    /\ left' = [left EXCEPT ![current_req] = @ - 1]
    /\ bad' = [bad EXCEPT ![current_req] = @ \/ ret < 0]
    /\ Goto(Handler, "test")
    /\ UNCHANGED <<queue, reqs, lock, the_queue, current_req, work_pending,
                   h_req, ret, hist, driver>>

\* __blk_end_request_cur ends one chunk of current_req, whatever it is by
\* now.  The lock is kept only if set_next_request has to be called.
EndChunk ==
    /\ pc[Handler] = "end"
    /\ lock = NULL
    /\ current_req # NULL
    /\ left' = [left EXCEPT ![current_req] = @ - 1]
    /\ bad' = [bad EXCEPT ![current_req] = @ \/ ret < 0]
    /\ IF left[current_req] = 1
         THEN Goto(Handler, "fetch") /\ lock' = Handler
         ELSE Goto(Handler, "test") /\ UNCHANGED lock
    /\ UNCHANGED <<queue, reqs, the_queue, current_req, work_pending, h_req,
                   ret, hist, driver>>

EndNull ==
    /\ pc[Handler] = "end"
    /\ lock = NULL
    /\ current_req = NULL
    /\ lock' = Handler
    /\ Goto(Handler, "oops")
    /\ UNCHANGED <<queue, reqs, left, the_queue, current_req, work_pending,
                   h_req, ret, bad, hist, driver>>

HandlerUnlock ==
    /\ Found(Handler)
    /\ lock' = NULL
    /\ Goto(Handler, "test")
    /\ UNCHANGED <<queue, reqs, left, the_queue, current_req, work_pending,
                   h_req, ret, bad, hist, driver>>

\* Line 101 reads current_req after the unlock.
HandlerTest ==
    /\ pc[Handler] = "test"
    /\ Goto(Handler, IF current_req = NULL THEN "idle" ELSE "read")
    /\ UNCHANGED <<queue, reqs, left, lock, the_queue, current_req,
                   work_pending, h_req, ret, bad, hist, driver>>

-----------------------------------------------------------------------------
(***************************************************************************)
(* sawa_driver_exit.                                                       *)
(***************************************************************************)
\* Without the disk no more requests come.
DriverExit ==
    /\ driver = "loaded"
    /\ driver' = "leaving"
    /\ UNCHANGED <<queue, reqs, left, lock, the_queue, current_req, work_pending,
                   pc, h_req, ret, bad, hist>>

\* blk_cleanup_queue returns, under the lock, when all requests have ended.
CleanupQueue ==
    /\ driver = "leaving" /\ lock = NULL
    /\ \A r \in Reqs : left[r] = 0
    /\ driver' = "gone"
    /\ UNCHANGED <<queue, reqs, left, lock, the_queue, current_req, work_pending,
                   pc, h_req, ret, bad, hist>>

\* work_handler runs in a module that is no longer there: it may go on, or fault.
HandlerFault ==
    /\ driver = "gone"
    /\ work_pending \/ pc[Handler] # "idle"
    /\ pc[Handler] \notin {"oops", "fault"}
    /\ Goto(Handler, "fault")
    /\ UNCHANGED <<queue, reqs, left, lock, the_queue, current_req, work_pending,
                   h_req, ret, bad, hist, driver>>

-----------------------------------------------------------------------------
AppStep ==
    RequestEnter \/ Fetch(App) \/ SkipRequest(App) \/ RequestLeave

HandlerStep ==
    \/ HandlerStart
    \/ HandlerRead
    \/ \E result \in {0, -1} : Transfer(result)
    \/ EndChunk
    \/ EndNull
    \/ Fetch(Handler)
    \/ SkipRequest(Handler)
    \/ HandlerUnlock
    \/ HandlerTest

Next ==
    \/ \E k \in Kinds, n \in 1 .. MaxChunks : Submit(k, n)
    \/ RunQueue
    \/ AppStep
    \/ HandlerStep
    \/ DriverExit \/ CleanupQueue \/ HandlerFault

Spec == Init /\ [][Next]_vars

(***************************************************************************)
(* Fairness: a processor that is in blockdev_request or waits for the      *)
(* spinlock goes on, and so does the kernel worker; transfers end, because *)
(* the server answers or the connection fails.  Submitting a request is    *)
(* never forced.  EndChunk is strongly fair because the block layer may    *)
(* take the lock again and again, but never keeps it.  Nothing is said of  *)
(* unloading.                                                              *)
(***************************************************************************)
Fairness == WF_vars(AppStep) /\ WF_vars(HandlerStep) /\ SF_vars(EndChunk \/ EndNull)

FairSpec == Spec /\ Fairness

-----------------------------------------------------------------------------
(***************************************************************************)
(* Properties.                                                             *)
(***************************************************************************)
\* Every variable has its type.
TypeOK ==
    /\ queue \in Seq(Reqs)
    /\ submitted \in 0 .. MaxReqs
    /\ kind \in [Reqs -> {"fs", "other"}]
    /\ size \in [Reqs -> 0 .. MaxChunks]
    /\ left \in [Reqs -> 0 .. MaxChunks]
    /\ driver \in {"loaded", "leaving", "gone"}
    /\ lock \in {NULL, App, Handler}
    /\ the_queue \in BOOLEAN
    /\ current_req \in Reqs \cup {NULL}
    /\ work_pending \in BOOLEAN
    /\ pc \in [{App, Handler} -> {"idle", "enter", "fetch", "sort", "read",
                                  "xfer", "end", "test", "oops", "fault"}]
    /\ h_req \in Reqs \cup {NULL}
    /\ ret \in {0, -1}
    /\ moved \in [Reqs -> Nat]
    /\ bad \in [Reqs -> BOOLEAN]
    /\ broken \in [Reqs -> BOOLEAN]

OnlyFs == \A r \in Reqs : kind[r] = "fs"

\* The module is unloaded between two requests, although sawa_driver_exit does not
\* cancel the work: what work_handler may still find is no request at all.  No
\* transfer is going on, if all were file system requests.
UnloadedIdle ==
    driver = "gone" =>
    /\ queue = <<>> /\ current_req = NULL /\ pc[App] = "idle"
    /\ OnlyFs => pc[Handler] \in {"idle", "read", "test", "oops", "fault"}

\* No request is left behind: whenever the lock is free a queued request means
\* that another one is being worked on, and a request being worked on has a
\* work_handler that runs, or is scheduled, to serve it.  (blockdev_request
\* quits when current_req is set, and relies on this.)  Unloading leaves none behind.
NoStrandedRequest ==
    /\ lock = NULL /\ queue # <<>> => current_req # NULL
    /\ lock = NULL /\ current_req # NULL =>
         work_pending \/ pc[Handler] # "idle"
    /\ UnloadedIdle

\* __blk_end_request_cur is never called on a request that is already ended,
\* neither by work_handler nor by set_next_request.
EndedOnce ==
    /\ current_req # NULL
    /\ \/ pc[Handler] = "end" /\ lock = NULL
       \/ \E p \in {App, Handler} : pc[p] = "sort"
    => left[current_req] > 0

\* Every chunk that is ended was transferred exactly once, and a request is
\* reported bad if and only if one of its transfers failed: the request that
\* work_handler ends at line 99 is the one it passed to blockdev_transfer at
\* line 93, although it did not hold the lock in between.
Accounts ==
    \A r \in Reqs :
      LET ending == pc[Handler] = "end" /\ h_req = r IN
      /\ moved[r] = size[r] - left[r] + (IF ending THEN 1 ELSE 0)
      /\ broken[r] <=> bad[r] \/ (ending /\ ret < 0)
EndsWhatItTransferred == OnlyFs => Accounts

\* Every submitted request is ended, or the driver has crashed.
EveryRequestEnds ==
    \A r \in Reqs :
      (r <= submitted) ~> (left[r] = 0 \/ pc[Handler] = "oops")

\* work_handler always finds a request to process ("It calls
\* blockdev_transfer() to process the read/write request").
HandlerHasRequest == pc[Handler] # "oops"
=============================================================================
