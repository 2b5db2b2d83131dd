----------------------------- MODULE ThreadPool -----------------------------
(***************************************************************************)
(* The thread pool of sawad (thread_pool.cpp) with the accept loop that    *)
(* feeds it (server.cpp) and the statistics walk of the admin thread.      *)
(*                                                                         *)
(* Three kinds of threads run concurrently:                                *)
(*   - the acceptor (the main thread): accept(), then handleNewConnection, *)
(*     which pops an idle thread (reuseThread) or creates one (newThread); *)
(*   - the workers: connection_handler, a loop of readData, close,         *)
(*     releaseThread and sigwait;                                          *)
(*   - the admin thread: getThreadStatistics.                              *)
(* A ConnectionThread object is named by its number nb, and the pointers   *)
(* idle_threads, all_threads, next and next_all hold such a number or      *)
(* NULL.  The two mutexes are explicit: a critical section that reads and  *)
(* then writes shared memory is two steps, the lock being held in between. *)
(***************************************************************************)
EXTENDS Integers, Sequences

CONSTANTS
    Fds,            \* the descriptors the kernel can give to a connection
    NoSock,         \* -1: what a failed accept() returns, and "no socket"
    NULL,           \* the null pointer; also "nobody" as a mutex owner
    Acceptor,       \* the main thread, as the owner of a mutex
    Admin,          \* the admin thread, as the owner of a mutex
    Unset,          \* a slot of the statistics buffer not written yet
    MaxConns,       \* bound: successful accept() calls
    MaxFails,       \* bound: failed accept() calls
    CreateMayFail   \* can pthread_create fail (EAGAIN)?

\* One thread per accept() call is the most the pool can ever need.
Threads == 0 .. (MaxConns + MaxFails - 1)
Conns == 1 .. MaxConns

ASSUME BoundsAssumption ==
    /\ MaxConns \in Nat
    /\ MaxFails \in Nat
    /\ CreateMayFail \in BOOLEAN

ASSUME NamesAssumption ==
    /\ NoSock \notin Fds
    /\ NULL \notin Int
    /\ Acceptor \notin Int
    /\ Admin \notin Int
    /\ NULL # Acceptor
    /\ NULL # Admin
    /\ Acceptor # Admin
    /\ Unset \notin [conns : Nat, active : BOOLEAN]

VARIABLES
    \* The kernel.
    accepted,       \* connections accepted so far; also the last one's name
    failed,         \* accept() calls that failed so far
    fd_table,       \* fd_table[f]: the connection open on f, 0 if f is free
    sig,            \* sig[t]: SIGUSR1 is pending for thread t
    \* The ThreadPool object.
    idle_threads, all_threads, thread_nb, idle_lock, all_lock,
    \* The ConnectionThread objects.
    client_sock, nb_connections, next, next_all,
    \* The acceptor: control state, accept()'s result, thread_info.
    acc_pc, acc_sock, acc_ti,
    \* The workers: control state and readData's local socket_fd.
    pc, socket_fd,
    \* getThreadStatistics: control state, cursor, slot and buffer.
    st_pc, st_cur, st_slot, st_buf,
    \* History: the idle threads in the order they were pushed.
    idle_stack

kernel == <<accepted, failed, fd_table>>
lists  == <<idle_threads, idle_lock, idle_stack>>
all    == <<all_threads, thread_nb, all_lock, next_all>>
acc    == <<acc_pc, acc_sock, acc_ti>>
worker == <<pc, socket_fd>>
stat   == <<st_pc, st_cur, st_slot, st_buf>>
vars   == <<kernel, sig, lists, all, client_sock, nb_connections, next, acc,
            worker, stat>>

Pop(s) == SubSeq(s, 1, Len(s) - 1)

Init ==
    /\ accepted = 0
    /\ failed = 0
    /\ fd_table = [f \in Fds |-> 0]
    /\ sig = [t \in Threads |-> FALSE]
    /\ idle_threads = NULL
    /\ all_threads = NULL
    /\ thread_nb = 0
    /\ idle_lock = NULL
    /\ all_lock = NULL
    /\ client_sock = [t \in Threads |-> NoSock]
    /\ nb_connections = [t \in Threads |-> 0]
    /\ next = [t \in Threads |-> NULL]
    /\ next_all = [t \in Threads |-> NULL]
    /\ acc_pc = "accept"
    /\ acc_sock = NoSock
    /\ acc_ti = NULL
    /\ pc = [t \in Threads |-> "none"]
    /\ socket_fd = [t \in Threads |-> NoSock]
    /\ st_pc = "ready"
    /\ st_cur = NULL
    /\ st_slot = -1
    /\ st_buf = [t \in Threads |-> Unset]
    /\ idle_stack = <<>>

-----------------------------------------------------------------------------
(***************************************************************************)
(* The accept loop.  accept() returns a free descriptor, or -1: the loop   *)
(* condition is only false for 0, so -1 goes on to handleNewConnection.    *)
(***************************************************************************)
Accept(f) ==
    /\ acc_pc = "accept"
    /\ accepted < MaxConns
    /\ fd_table[f] = 0
    /\ accepted' = accepted + 1
    /\ fd_table' = [fd_table EXCEPT ![f] = accepted + 1]
    /\ acc_sock' = f
    /\ acc_pc' = "check"
    /\ UNCHANGED <<failed, sig, lists, all, client_sock, nb_connections,
                   next, acc_ti, worker, stat>>

AcceptFail ==
    /\ acc_pc = "accept"
    /\ failed < MaxFails
    /\ failed' = failed + 1
    /\ acc_sock' = NoSock
    /\ acc_pc' = "check"
    /\ UNCHANGED <<accepted, fd_table, sig, lists, all, client_sock,
                   nb_connections, next, acc_ti, worker, stat>>

\* Faulty variant: the emptiness test is left out.
ReuseCheck_NoTest ==
    /\ acc_pc = "check"
    /\ acc_pc' = "pop"
    /\ UNCHANGED <<kernel, sig, lists, all, client_sock, nb_connections,
                   next, acc_sock, acc_ti, worker, stat>>

(***************************************************************************)
(* reuseThread.  The emptiness test is made without the mutex; the pop is  *)
(* made under it.                                                          *)
(***************************************************************************)
ReuseCheck ==
    /\ acc_pc = "check"
    /\ acc_pc' = IF idle_threads = NULL THEN "link" ELSE "pop"
    /\ UNCHANGED <<kernel, sig, lists, all, client_sock, nb_connections,
                   next, acc_sock, acc_ti, worker, stat>>

ReusePop ==
    /\ acc_pc = "pop"
    /\ idle_lock = NULL
    /\ idle_lock' = Acceptor
    /\ acc_ti' = idle_threads
    /\ acc_pc' = "unlink"
    /\ UNCHANGED <<kernel, sig, idle_threads, idle_stack, all, client_sock,
                   nb_connections, next, acc_sock, worker, stat>>

\* Faulty variant: the thread stays on the idle list.
ReuseUnlink_Keep ==
    /\ acc_pc = "unlink"
    /\ idle_lock' = NULL
    /\ acc_pc' = "assign"
    /\ UNCHANGED <<kernel, sig, idle_threads, idle_stack, all, client_sock,
                   nb_connections, next, acc_sock, acc_ti, worker, stat>>

\* Faulty variant: the thread is already signalled before it has a socket.
ReuseUnlink_EarlySignal ==
    /\ acc_pc = "unlink"
    /\ idle_threads' = next[acc_ti]
    /\ idle_lock' = NULL
    /\ idle_stack' = Pop(idle_stack)
    /\ sig' = [sig EXCEPT ![acc_ti] = TRUE]
    /\ acc_pc' = "assign"
    /\ UNCHANGED <<kernel, all, client_sock, nb_connections, next,
                   acc_sock, acc_ti, worker, stat>>

ReuseUnlink ==
    /\ acc_pc = "unlink"
    /\ idle_threads' = next[acc_ti]
    /\ idle_lock' = NULL
    /\ idle_stack' = Pop(idle_stack)
    /\ acc_pc' = "assign"
    /\ UNCHANGED <<kernel, sig, all, client_sock, nb_connections, next,
                   acc_sock, acc_ti, worker, stat>>

ReuseAssign ==
    /\ acc_pc = "assign"
    /\ client_sock' = [client_sock EXCEPT ![acc_ti] = acc_sock]
    /\ nb_connections' = [nb_connections EXCEPT ![acc_ti] = @ + 1]
    /\ acc_pc' = "kill"
    /\ UNCHANGED <<kernel, sig, lists, all, next, acc_sock, acc_ti, worker,
                   stat>>

\* Faulty variant: the reused thread is not signalled.
ReuseKill_NoSignal ==
    /\ acc_pc = "kill"
    /\ acc_pc' = "accept"
    /\ acc_ti' = NULL
    /\ UNCHANGED <<kernel, sig, lists, all, client_sock, nb_connections,
                   next, acc_sock, worker, stat>>

\* pthread_kill: a signal already pending for the thread absorbs this one.
ReuseKill ==
    /\ acc_pc = "kill"
    /\ sig' = [sig EXCEPT ![acc_ti] = TRUE]
    /\ acc_pc' = "accept"
    /\ acc_ti' = NULL
    /\ UNCHANGED <<kernel, lists, all, client_sock, nb_connections, next,
                   acc_sock, worker, stat>>

(***************************************************************************)
(* newThread: a new ConnectionThread is filled in and linked under         *)
(* all_threads_lock, then its thread is created.  Both links are set to    *)
(* all_threads.  pthread_create reports a failure with a positive number,  *)
(* which the test "< 0" does not see: nothing else is done about it.       *)
(***************************************************************************)
NewLink ==
    /\ acc_pc = "link"
    /\ all_lock = NULL
    /\ all_lock' = Acceptor
    /\ acc_ti' = thread_nb
    /\ thread_nb' = thread_nb + 1
    /\ client_sock' = [client_sock EXCEPT ![thread_nb] = acc_sock]
    /\ nb_connections' = [nb_connections EXCEPT ![thread_nb] = 1]
    /\ next' = [next EXCEPT ![thread_nb] = all_threads]
    /\ next_all' = [next_all EXCEPT ![thread_nb] = all_threads]
    /\ acc_pc' = "publish"
    /\ UNCHANGED <<kernel, sig, lists, all_threads, acc_sock, worker, stat>>

NewPublish ==
    /\ acc_pc = "publish"
    /\ all_threads' = acc_ti
    /\ all_lock' = NULL
    /\ acc_pc' = "spawn"
    /\ UNCHANGED <<kernel, sig, lists, thread_nb, next_all, client_sock,
                   nb_connections, next, acc_sock, acc_ti, worker, stat>>

NewSpawn ==
    /\ acc_pc = "spawn"
    /\ \/ pc' = [pc EXCEPT ![acc_ti] = "start"]
       \/ CreateMayFail /\ UNCHANGED pc
    /\ acc_pc' = "accept"
    /\ acc_ti' = NULL
    /\ UNCHANGED <<kernel, sig, lists, all, client_sock, nb_connections,
                   next, acc_sock, socket_fd, stat>>

-----------------------------------------------------------------------------
(***************************************************************************)
(* connection_handler.  readData copies client_sock and reads from that    *)
(* descriptor until the peer is done with it (at once if it is -1).        *)
(***************************************************************************)
WorkerStart(w) ==
    /\ pc[w] = "start"
    /\ socket_fd' = [socket_fd EXCEPT ![w] = client_sock[w]]
    /\ pc' = [pc EXCEPT ![w] = "read"]
    /\ UNCHANGED <<kernel, sig, lists, all, client_sock, nb_connections,
                   next, acc, stat>>

\* readData returns and close(client_sock) frees the descriptor; closing -1
\* does nothing.
WorkerClose(w) ==
    /\ pc[w] = "read"
    /\ fd_table' = [f \in Fds |->
                      IF f = client_sock[w] THEN 0 ELSE fd_table[f]]
    /\ pc' = [pc EXCEPT ![w] = "clear"]
    /\ UNCHANGED <<accepted, failed, sig, lists, all, client_sock,
                   nb_connections, next, acc, socket_fd, stat>>

\* Faulty variant: the closed descriptor is kept in client_sock.
ReleaseClear_Stale(w) ==
    /\ pc[w] = "clear"
    /\ pc' = [pc EXCEPT ![w] = "push"]
    /\ UNCHANGED <<kernel, sig, lists, all, client_sock, nb_connections,
                   next, acc, socket_fd, stat>>

\* releaseThread: the socket is forgotten before the thread becomes idle.
ReleaseClear(w) ==
    /\ pc[w] = "clear"
    /\ client_sock' = [client_sock EXCEPT ![w] = NoSock]
    /\ pc' = [pc EXCEPT ![w] = "push"]
    /\ UNCHANGED <<kernel, sig, lists, all, nb_connections, next, acc,
                   socket_fd, stat>>

\* Faulty variant: the push starts without idle_threads_lock.
ReleaseLink_NoLock(w) ==
    /\ pc[w] = "push"
    /\ next' = [next EXCEPT ![w] = idle_threads]
    /\ pc' = [pc EXCEPT ![w] = "publish"]
    /\ UNCHANGED <<kernel, sig, lists, all, client_sock, nb_connections,
                   acc, socket_fd, stat>>

ReleaseLink(w) ==
    /\ pc[w] = "push"
    /\ idle_lock = NULL
    /\ idle_lock' = w
    /\ next' = [next EXCEPT ![w] = idle_threads]
    /\ pc' = [pc EXCEPT ![w] = "publish"]
    /\ UNCHANGED <<kernel, sig, idle_threads, idle_stack, all, client_sock,
                   nb_connections, acc, socket_fd, stat>>

ReleasePublish(w) ==
    /\ pc[w] = "publish"
    /\ idle_threads' = w
    /\ idle_lock' = NULL
    /\ idle_stack' = Append(idle_stack, w)
    /\ pc' = [pc EXCEPT ![w] = "sigwait"]
    /\ UNCHANGED <<kernel, sig, all, client_sock, nb_connections, next, acc,
                   socket_fd, stat>>

\* Faulty variant: the worker loops without waiting for the signal.
WorkerWake_NoWait(w) ==
    /\ pc[w] = "sigwait"
    /\ sig' = [sig EXCEPT ![w] = FALSE]
    /\ pc' = [pc EXCEPT ![w] = "start"]
    /\ UNCHANGED <<kernel, lists, all, client_sock, nb_connections, next,
                   acc, socket_fd, stat>>

\* SIGUSR1 is blocked in every thread, so a signal sent before the thread
\* reaches sigwait stays pending and sigwait takes it.
WorkerWake(w) ==
    /\ pc[w] = "sigwait"
    /\ sig[w]
    /\ sig' = [sig EXCEPT ![w] = FALSE]
    /\ pc' = [pc EXCEPT ![w] = "start"]
    /\ UNCHANGED <<kernel, lists, all, client_sock, nb_connections, next,
                   acc, socket_fd, stat>>

-----------------------------------------------------------------------------
(***************************************************************************)
(* getThreadStatistics: under all_threads_lock, a zeroed buffer of         *)
(* thread_nb slots is filled from its last slot down, one slot for each    *)
(* object on the next_all list.                                            *)
(***************************************************************************)
ThreadStat(t) == [conns |-> nb_connections[t],
                  active |-> client_sock[t] # NoSock]

\* Faulty variant: the walk starts without all_threads_lock.
StatBegin_NoLock ==
    /\ st_pc = "ready"
    /\ st_pc' = "walk"
    /\ st_slot' = thread_nb - 1
    /\ st_cur' = all_threads
    /\ st_buf' = [t \in Threads |-> Unset]
    /\ UNCHANGED <<kernel, sig, lists, all, client_sock, nb_connections,
                   next, acc, worker>>

StatBegin ==
    /\ st_pc = "ready"
    /\ all_lock = NULL
    /\ all_lock' = Admin
    /\ st_pc' = "walk"
    /\ st_slot' = thread_nb - 1
    /\ st_cur' = all_threads
    /\ st_buf' = [t \in Threads |-> Unset]
    /\ UNCHANGED <<kernel, sig, lists, all_threads, thread_nb, next_all,
                   client_sock, nb_connections, next, acc, worker>>

StatLoad ==
    /\ st_pc = "walk"
    /\ st_cur # NULL
    /\ st_buf' = [st_buf EXCEPT ![st_slot] = ThreadStat(st_cur)]
    /\ st_slot' = st_slot - 1
    /\ st_cur' = next_all[st_cur]
    /\ UNCHANGED <<kernel, sig, lists, all, client_sock, nb_connections,
                   next, acc, worker, st_pc>>

StatEnd ==
    /\ st_pc = "walk"
    /\ st_cur = NULL
    /\ all_lock' = NULL
    /\ st_pc' = "ready"
    /\ UNCHANGED <<kernel, sig, lists, all_threads, thread_nb, next_all,
                   client_sock, nb_connections, next, acc, worker, st_cur,
                   st_slot, st_buf>>

-----------------------------------------------------------------------------
AcceptorStep ==
    \/ ReuseCheck \/ ReusePop \/ ReuseUnlink \/ ReuseAssign \/ ReuseKill
    \/ NewLink \/ NewPublish \/ NewSpawn

WorkerStep(w) ==
    \/ WorkerStart(w) \/ WorkerClose(w) \/ ReleaseClear(w) \/ ReleaseLink(w)
    \/ ReleasePublish(w) \/ WorkerWake(w)

Next ==
    \/ \E f \in Fds : Accept(f)
    \/ AcceptFail
    \/ AcceptorStep
    \/ \E w \in Threads : WorkerStep(w)
    \/ StatBegin \/ StatLoad \/ StatEnd

Spec == Init /\ [][Next]_vars

(***************************************************************************)
(* Fairness: a runnable thread runs, and a thread waiting for a mutex that *)
(* is released again and again gets it.  (The other users of the mutex do  *)
(* a network round trip between two acquisitions.)  Nothing is assumed of  *)
(* the clients: accept() need never return, and a connection may stay open *)
(* for ever.  Only a read on descriptor -1 ends by itself.                 *)
(***************************************************************************)
Fairness ==
    /\ WF_vars(AcceptorStep)
    /\ SF_vars(ReusePop)
    /\ SF_vars(NewLink)
    /\ \A w \in Threads :
         /\ WF_vars(WorkerStart(w))
         /\ WF_vars(socket_fd[w] = NoSock /\ WorkerClose(w))
         /\ WF_vars(ReleaseClear(w))
         /\ SF_vars(ReleaseLink(w))
         /\ WF_vars(ReleasePublish(w))
         /\ WF_vars(WorkerWake(w))
    /\ WF_vars(StatLoad)
    /\ WF_vars(StatEnd)

FairSpec == Spec /\ Fairness

-----------------------------------------------------------------------------
(***************************************************************************)
(* Properties.                                                             *)
(***************************************************************************)
Ref == Threads \cup {NULL}
Sock == Fds \cup {NoSock}
Stats == [conns : Nat, active : BOOLEAN]

\* Every variable has its type; in particular the array and pointer accesses
\* of thread_pool.cpp stay within the objects newThread has created.
TypeOK ==
    /\ accepted \in 0 .. MaxConns
    /\ failed \in 0 .. MaxFails
    /\ fd_table \in [Fds -> 0 .. MaxConns]
    /\ sig \in [Threads -> BOOLEAN]
    /\ idle_threads \in Ref
    /\ all_threads \in Ref
    /\ thread_nb \in 0 .. (MaxConns + MaxFails)
    /\ idle_lock \in Ref \cup {Acceptor}
    /\ all_lock \in {NULL, Acceptor, Admin}
    /\ client_sock \in [Threads -> Sock]
    /\ nb_connections \in [Threads -> Nat]
    /\ next \in [Threads -> Ref]
    /\ next_all \in [Threads -> Ref]
    /\ acc_pc \in {"accept", "check", "pop", "unlink", "assign", "kill",
                   "link", "publish", "spawn"}
    /\ acc_sock \in Sock
    /\ acc_ti \in Ref
    /\ pc \in [Threads -> {"none", "start", "read", "clear", "push",
                           "publish", "sigwait"}]
    /\ socket_fd \in [Threads -> Sock]
    /\ st_pc \in {"ready", "walk"}
    /\ st_cur \in Ref
    /\ st_slot \in Int
    /\ st_buf \in [Threads -> Stats \cup {Unset}]
    /\ idle_stack \in Seq(Threads)

\* reuseThread never dereferences a null thread_info: the list its unlocked
\* test found non-empty is still non-empty once the mutex is taken, because
\* only the acceptor pops.
NoNullPop == acc_pc = "unlink" => acc_ti # NULL

\* Whatever the interleaving of pushes and pops, the list that starts at
\* idle_threads is the stack of the threads released and not reused (server.md:
\* "FILA queue"), last one first, and it ends with NULL.
IdleListOK ==
    LET n == Len(idle_stack) IN
    /\ idle_threads = IF n = 0 THEN NULL ELSE idle_stack[n]
    /\ \A i \in 1 .. n :
         next[idle_stack[i]] = IF i = 1 THEN NULL ELSE idle_stack[i - 1]

\* No thread is twice on the idle list, and a thread on it is parked: it is in
\* sigwait or about to be, has no socket and no signal under way, and is not
\* the one reuseThread is handing a connection to.
IdleThreadsParked ==
    /\ \A i, j \in 1 .. Len(idle_stack) :
         idle_stack[i] = idle_stack[j] => i = j
    /\ \A i \in 1 .. Len(idle_stack) :
         LET t == idle_stack[i] IN
         /\ pc[t] = "sigwait"
         /\ ~ sig[t]
         /\ client_sock[t] = NoSock
         /\ acc_pc \in {"assign", "kill"} => acc_ti # t

\* pthread_kill never meets a SIGUSR1 that is still pending for the thread, so
\* no wake-up is absorbed by an earlier one and no connection is left behind.
NoLostWakeup == acc_pc = "kill" => ~ sig[acc_ti] /\ pc[acc_ti] = "sigwait"

\* Who is responsible for descriptor f: the acceptor that has not handed it
\* over, or a thread that has it in client_sock and has not closed it.
AcceptorHolds(f) ==
    acc_sock = f /\ acc_pc \in {"check", "pop", "unlink", "assign", "link"}
ThreadHolds(t, f) == client_sock[t] = f /\ pc[t] # "clear"

\* Every open descriptor has one and only one party that will close it, and a
\* closed descriptor has none: no connection is leaked, none is closed under
\* the thread that reads it, none is read by two threads.
ConnectionsAccountedFor ==
    \A f \in Fds :
      /\ fd_table[f] # 0 <=> AcceptorHolds(f) \/ \E t \in Threads : ThreadHolds(t, f)
      /\ AcceptorHolds(f) => \A t \in Threads : ~ ThreadHolds(t, f)
      /\ \A t, u \in Threads : ThreadHolds(t, f) /\ ThreadHolds(u, f) => t = u

\* When the walk of serializeThreadStats is over, slot i of the buffer
\* describes thread i, for all the thread_nb threads and nothing else; the
\* walk never writes outside the buffer getThreadStatistics allocated.
StatBufferExact ==
    st_pc = "walk" =>
      /\ st_cur # NULL => st_slot \in 0 .. (thread_nb - 1)
      /\ \A t \in Threads :
           st_buf[t] # Unset <=>
             t < thread_nb /\ (st_cur = NULL \/ t > st_slot)
      /\ \A t \in Threads : st_buf[t] # Unset =>
           st_buf[t].conns \in 1 .. nb_connections[t]

\* The pool implements the Dispatcher: every accepted connection is served by
\* one worker and leaves through it.
Open == {fd_table[f] : f \in Fds} \ {0}
Served(w) == IF pc[w] = "read" /\ socket_fd[w] # NoSock
               THEN fd_table[socket_fd[w]] ELSE 0

D == INSTANCE Dispatcher WITH
       Workers <- Threads,
       None    <- 0,
       waiting <- Open \ {Served(w) : w \in Threads},
       serving <- [w \in Threads |-> Served(w)],
       closed  <- (1 .. accepted) \ Open

\* The refinement of Dispatcher!Spec by handleNewConnection, releaseThread and
\* connection_handler.
DispatcherSpec == D!Spec

\* newThread linked the object w, and its pthread_create failed.
Stillborn(w) == pc[w] = "none" /\ w < thread_nb /\ acc_ti # w

\* Every accepted connection is eventually taken by a worker, however long the
\* other connections stay open; only one whose pthread_create failed stays in
\* the object of a thread that does not exist.
EveryConnectionServed ==
    \A c \in Conns :
      c \in Open ~> \/ c \notin Open
                    \/ \E w \in Threads : Served(w) = c
                    \/ \E w \in Threads : Stillborn(w) /\ client_sock[w] # NoSock /\ fd_table[client_sock[w]] = c
=============================================================================
