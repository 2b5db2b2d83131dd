-------------------------- MODULE ThreadPoolProofs --------------------------
(***************************************************************************)
(* The inductive invariant of ThreadPool and the proofs that its safety    *)
(* properties hold for every number of connections, failed accepts and     *)
(* descriptors, and that it implements the Dispatcher.                     *)
(***************************************************************************)
EXTENDS ThreadPool, SequenceTheorems, TLAPS

\* Who holds idle_threads_lock, and what its holder has read under it.
IdleLockInv ==
    /\ idle_lock = Acceptor <=> acc_pc = "unlink"
    /\ \A w \in Threads : idle_lock = w <=> pc[w] = "publish"
    /\ \A w \in Threads : pc[w] = "publish" => next[w] = idle_threads
    /\ acc_pc \in {"pop", "unlink"} => idle_threads # NULL
    /\ acc_pc = "unlink" => acc_ti = idle_threads

\* Who holds all_threads_lock; the objects are numbered in creation order and
\* next_all links each to the one before it.
AllListInv ==
    /\ all_lock = Acceptor <=> acc_pc = "publish"
    /\ all_lock = Admin <=> st_pc = "walk"
    /\ \A t \in Threads : t < thread_nb =>
         next_all[t] = IF t = 0 THEN NULL ELSE t - 1
    /\ LET linked == IF acc_pc = "publish" THEN thread_nb - 1 ELSE thread_nb
       IN  all_threads = IF linked = 0 THEN NULL ELSE linked - 1
    /\ acc_pc \in {"publish", "spawn"} => acc_ti = thread_nb - 1 /\ 0 < thread_nb
    /\ thread_nb <= accepted + failed
    /\ acc_pc \in {"check", "link"} => thread_nb < accepted + failed

\* The life of a thread: not created, working, parked, or being reused.
LifeInv ==
    /\ \A t \in Threads : t >= thread_nb =>
         pc[t] = "none" /\ client_sock[t] = NoSock
    /\ \A t \in Threads : t < thread_nb => nb_connections[t] >= 1
    /\ \A t \in Threads : sig[t] => pc[t] = "sigwait"
    /\ acc_pc \in {"assign", "kill"} =>
         acc_ti # NULL /\ pc[acc_ti] = "sigwait" /\ ~ sig[acc_ti]
    /\ acc_pc = "assign" => client_sock[acc_ti] = NoSock
    /\ acc_pc \in {"publish", "spawn"} => pc[acc_ti] = "none"
    /\ \A t \in Threads : pc[t] \in {"push", "publish"} => client_sock[t] = NoSock
    /\ \A t \in Threads : pc[t] = "read" => socket_fd[t] = client_sock[t]

\* The statistics walk: the cursor and the slot move down together.
StatInv ==
    st_pc = "walk" =>
      /\ st_slot \in -1 .. (thread_nb - 1)
      /\ st_cur = IF st_slot = -1 THEN NULL ELSE st_slot
      /\ \A t \in Threads : st_buf[t] # Unset <=> st_slot < t /\ t < thread_nb
      /\ \A t \in Threads : st_buf[t] # Unset =>
           st_buf[t].conns \in 1 .. nb_connections[t]

\* A connection is open on one descriptor at most, and was accepted.
FdInv ==
    /\ \A f \in Fds : fd_table[f] <= accepted
    /\ \A f, g \in Fds : fd_table[f] = fd_table[g] /\ fd_table[f] # 0 => f = g

IInv ==
    /\ TypeOK
    /\ IdleLockInv
    /\ AllListInv
    /\ LifeInv
    /\ IdleListOK
    /\ IdleThreadsParked
    /\ ConnectionsAccountedFor
    /\ StatInv
    /\ FdInv

USE BoundsAssumption, NamesAssumption

\* Pop drops the last element and nothing else.
LEMMA PopProperties ==
    ASSUME NEW S, NEW s \in Seq(S), Len(s) > 0
    PROVE  /\ Pop(s) \in Seq(S)
           /\ Len(Pop(s)) = Len(s) - 1
           /\ \A i \in 1 .. Len(Pop(s)) : Pop(s)[i] = s[i]
<1> DEFINE n == Len(s) - 1
<1>1. Len(s) \in Nat /\ n \in Nat /\ n < Len(s)
  BY LenProperties
<1>2. \A i \in 1 .. n : s[i] \in S
  BY <1>1, ElementOfSeq
<1>3. /\ SubSeq(s, 1, n) \in Seq(S)
      /\ Len(SubSeq(s, 1, n)) = IF 1 <= n THEN n - 1 + 1 ELSE 0
      /\ \A i \in 1 .. (n - 1 + 1) : SubSeq(s, 1, n)[i] = s[1 + i - 1]
  <2> HIDE DEF n
  <2> QED BY <1>1, <1>2, SubSeqProperties
<1>4. Len(SubSeq(s, 1, n)) = n
  <2> HIDE DEF n
  <2> QED BY <1>1, <1>3
<1>5. \A i \in 1 .. n : SubSeq(s, 1, n)[i] = s[i]
  <2> HIDE DEF n
  <2> QED BY <1>1, <1>3
<1> QED BY <1>3, <1>4, <1>5 DEF Pop

\* Accept keeps the invariant: accept() opens a free descriptor and the acceptor holds it.
LEMMA AcceptPreserves ==
    ASSUME NEW f \in Fds, IInv, Accept(f)
    PROVE  IInv'
<1> USE DEF IInv, Accept, kernel, lists, all, acc, worker, stat, Threads
<1>1. TypeOK' BY DEF TypeOK, Ref, Sock, Stats
<1>2. IdleLockInv' BY DEF TypeOK, IdleLockInv, Ref
<1>3. AllListInv' BY DEF TypeOK, AllListInv, Ref
<1>4. LifeInv' BY DEF TypeOK, LifeInv, Ref, Sock
<1>5. IdleListOK' BY DEF TypeOK, IdleListOK, IdleLockInv, Ref
<1>6. IdleThreadsParked' BY DEF TypeOK, IdleThreadsParked, LifeInv, Ref
<1>7. ConnectionsAccountedFor' BY DEF TypeOK, ConnectionsAccountedFor, LifeInv, AcceptorHolds, ThreadHolds, Sock
<1>8. StatInv' BY DEF TypeOK, StatInv, AllListInv
<1>9. FdInv' BY DEF TypeOK, FdInv
<1> QED BY <1>1, <1>2, <1>3, <1>4, <1>5, <1>6, <1>7, <1>8, <1>9

\* AcceptFail keeps the invariant: a failed accept() leaves the acceptor with no descriptor.
LEMMA AcceptFailPreserves ==
    ASSUME IInv, AcceptFail
    PROVE  IInv'
<1> USE DEF IInv, AcceptFail, kernel, lists, all, acc, worker, stat, Threads
<1>1. TypeOK' BY DEF TypeOK, Ref, Sock, Stats
<1>2. IdleLockInv' BY DEF TypeOK, IdleLockInv, Ref
<1>3. AllListInv' BY DEF TypeOK, AllListInv, Ref
<1>4. LifeInv' BY DEF TypeOK, LifeInv, Ref, Sock
<1>5. IdleListOK' BY DEF TypeOK, IdleListOK, IdleLockInv, Ref
<1>6. IdleThreadsParked' BY DEF TypeOK, IdleThreadsParked, LifeInv, Ref
<1>7. ConnectionsAccountedFor' BY DEF TypeOK, ConnectionsAccountedFor, LifeInv, AcceptorHolds, ThreadHolds, Sock
<1>8. StatInv' BY DEF TypeOK, StatInv, AllListInv
<1>9. FdInv' BY DEF TypeOK, FdInv
<1> QED BY <1>1, <1>2, <1>3, <1>4, <1>5, <1>6, <1>7, <1>8, <1>9

\* ReuseCheck keeps the invariant: the list found non-empty cannot be emptied by others.
LEMMA ReuseCheckPreserves ==
    ASSUME IInv, ReuseCheck
    PROVE  IInv'
<1> USE DEF IInv, ReuseCheck, kernel, lists, all, acc, worker, stat, Threads
<1>1. TypeOK' BY SMTT(60) DEF TypeOK, Ref, Sock, Stats
<1>2. IdleLockInv' BY DEF TypeOK, IdleLockInv, Ref
<1>3. AllListInv' BY DEF TypeOK, AllListInv, Ref
<1>4. LifeInv' BY DEF TypeOK, LifeInv, Ref, Sock
<1>5. IdleListOK' BY DEF TypeOK, IdleListOK, IdleLockInv, Ref
<1>6. IdleThreadsParked' BY DEF TypeOK, IdleThreadsParked, LifeInv, Ref
<1>7. ConnectionsAccountedFor' BY DEF TypeOK, ConnectionsAccountedFor, LifeInv, AcceptorHolds, ThreadHolds, Sock
<1>8. StatInv' BY DEF TypeOK, StatInv, AllListInv
<1>9. FdInv' BY DEF TypeOK, FdInv
<1> QED BY <1>1, <1>2, <1>3, <1>4, <1>5, <1>6, <1>7, <1>8, <1>9

\* ReusePop keeps the invariant: the head read under the mutex is the top of the stack.
LEMMA ReusePopPreserves ==
    ASSUME IInv, ReusePop
    PROVE  IInv'
<1> USE DEF IInv, ReusePop, kernel, lists, all, acc, worker, stat, Threads
<1>1. TypeOK' BY DEF TypeOK, Ref, Sock, Stats
<1>2. IdleLockInv' BY DEF TypeOK, IdleLockInv, Ref
<1>3. AllListInv' BY DEF TypeOK, AllListInv, Ref
<1>4. LifeInv' BY DEF TypeOK, LifeInv, Ref, Sock
<1>5. IdleListOK' BY DEF TypeOK, IdleListOK, IdleLockInv, Ref
<1>6. IdleThreadsParked' BY DEF TypeOK, IdleThreadsParked, LifeInv, Ref
<1>7. ConnectionsAccountedFor' BY DEF TypeOK, ConnectionsAccountedFor, LifeInv, AcceptorHolds, ThreadHolds, Sock
<1>8. StatInv' BY DEF TypeOK, StatInv, AllListInv
<1>9. FdInv' BY DEF TypeOK, FdInv
<1> QED BY <1>1, <1>2, <1>3, <1>4, <1>5, <1>6, <1>7, <1>8, <1>9

\* ReuseUnlink keeps the invariant: the head leaves the list and only the acceptor has it.
LEMMA ReuseUnlinkPreserves ==
    ASSUME IInv, ReuseUnlink
    PROVE  IInv'
<1> USE DEF IInv, ReuseUnlink, kernel, lists, all, acc, worker, stat, Threads
<1>a. /\ acc_ti \in Threads
      /\ idle_stack \in Seq(Threads)
      /\ Len(idle_stack) > 0
      /\ acc_ti = idle_stack[Len(idle_stack)]
  BY DEF TypeOK, IdleLockInv, IdleListOK, Ref
<1>b. /\ idle_stack' \in Seq(Threads)
      /\ Len(idle_stack') = Len(idle_stack) - 1
      /\ \A i \in 1 .. Len(idle_stack') : idle_stack'[i] = idle_stack[i]
  BY <1>a, PopProperties
<1>c. pc[acc_ti] = "sigwait" /\ ~ sig[acc_ti] /\ client_sock[acc_ti] = NoSock
  BY <1>a DEF IdleThreadsParked
<1>1. TypeOK' BY <1>a, <1>b DEF TypeOK, Ref, Sock, Stats
<1>2. IdleLockInv' BY DEF TypeOK, IdleLockInv, Ref
<1>3. AllListInv' BY DEF TypeOK, AllListInv, Ref
<1>4. LifeInv' BY <1>a, <1>c DEF TypeOK, LifeInv, Ref, Sock
<1>5. IdleListOK' BY DEF TypeOK, IdleListOK, IdleLockInv, Ref
<1>6. IdleThreadsParked'
  <2>1. \A i, j \in 1 .. Len(idle_stack') : idle_stack'[i] = idle_stack'[j] => i = j
    <3> HIDE DEF ReuseUnlink, Threads
    <3> QED BY <1>a, <1>b DEF IdleThreadsParked
  <2>2. \A i \in 1 .. Len(idle_stack') : acc_ti # idle_stack'[i]
    <3> HIDE DEF ReuseUnlink, Threads
    <3> QED BY <1>a, <1>b DEF IdleThreadsParked
  <2>3. \A i \in 1 .. Len(idle_stack') :
          /\ pc[idle_stack'[i]] = "sigwait"
          /\ ~ sig[idle_stack'[i]]
          /\ client_sock[idle_stack'[i]] = NoSock
    <3> HIDE DEF ReuseUnlink, Threads
    <3> QED BY <1>a, <1>b DEF IdleThreadsParked
  <2> QED BY <2>1, <2>2, <2>3 DEF IdleThreadsParked
<1>7. ConnectionsAccountedFor' BY DEF TypeOK, ConnectionsAccountedFor, LifeInv, AcceptorHolds, ThreadHolds, Sock
<1>8. StatInv' BY DEF TypeOK, StatInv, AllListInv
<1>9. FdInv' BY DEF TypeOK, FdInv
<1> QED BY <1>1, <1>2, <1>3, <1>4, <1>5, <1>6, <1>7, <1>8, <1>9

\* ReuseAssign keeps the invariant: the descriptor passes from the acceptor to the parked thread.
LEMMA ReuseAssignPreserves ==
    ASSUME IInv, ReuseAssign
    PROVE  IInv'
<1> USE DEF IInv, ReuseAssign, kernel, lists, all, acc, worker, stat, Threads
<1>1. TypeOK' BY SMTT(60) DEF TypeOK, Ref, Sock, Stats
<1>2. IdleLockInv' BY DEF TypeOK, IdleLockInv, Ref
<1>3. AllListInv' BY DEF TypeOK, AllListInv, Ref
<1>4. LifeInv' BY DEF TypeOK, LifeInv, Ref, Sock
<1>5. IdleListOK' BY DEF TypeOK, IdleListOK, IdleLockInv, Ref
<1>6. IdleThreadsParked' BY DEF TypeOK, IdleThreadsParked, LifeInv, Ref
<1>7. ConnectionsAccountedFor'
  <2>1. acc_ti \in Threads /\ client_sock[acc_ti] = NoSock /\ pc[acc_ti] = "sigwait"
    BY DEF TypeOK, LifeInv, Ref
  <2>2. \A t \in Threads, f \in Fds :
          ThreadHolds(t, f)' <=> ThreadHolds(t, f) \/ (t = acc_ti /\ AcceptorHolds(f))
    BY <2>1 DEF TypeOK, ThreadHolds, AcceptorHolds
  <2>3. \A f \in Fds : ~ AcceptorHolds(f)' /\ ~ ThreadHolds(acc_ti, f)
    BY <2>1 DEF AcceptorHolds, ThreadHolds
  <2> QED BY <2>1, <2>2, <2>3 DEF ConnectionsAccountedFor
<1>8. StatInv' BY DEF TypeOK, StatInv, AllListInv
<1>9. FdInv' BY DEF TypeOK, FdInv
<1> QED BY <1>1, <1>2, <1>3, <1>4, <1>5, <1>6, <1>7, <1>8, <1>9

\* ReuseKill keeps the invariant: the parked thread's only signal becomes pending.
LEMMA ReuseKillPreserves ==
    ASSUME IInv, ReuseKill
    PROVE  IInv'
<1> USE DEF IInv, ReuseKill, kernel, lists, all, acc, worker, stat, Threads
<1>1. TypeOK' BY DEF TypeOK, Ref, Sock, Stats
<1>2. IdleLockInv' BY DEF TypeOK, IdleLockInv, Ref
<1>3. AllListInv' BY DEF TypeOK, AllListInv, Ref
<1>4. LifeInv' BY DEF TypeOK, LifeInv, Ref, Sock
<1>5. IdleListOK' BY DEF TypeOK, IdleListOK, IdleLockInv, Ref
<1>6. IdleThreadsParked' BY DEF TypeOK, IdleThreadsParked, LifeInv, Ref
<1>7. ConnectionsAccountedFor' BY DEF TypeOK, ConnectionsAccountedFor, LifeInv, AcceptorHolds, ThreadHolds, Sock
<1>8. StatInv' BY DEF TypeOK, StatInv, AllListInv
<1>9. FdInv' BY DEF TypeOK, FdInv
<1> QED BY <1>1, <1>2, <1>3, <1>4, <1>5, <1>6, <1>7, <1>8, <1>9

\* NewLink keeps the invariant: the new object takes the next number and the descriptor.
LEMMA NewLinkPreserves ==
    ASSUME IInv, NewLink
    PROVE  IInv'
<1> USE DEF IInv, NewLink, kernel, lists, all, acc, worker, stat, Threads
<1>a. thread_nb \in Threads /\ pc[thread_nb] = "none" /\ client_sock[thread_nb] = NoSock
  BY DEF TypeOK, AllListInv, LifeInv
<1>1. TypeOK' BY <1>a, SMTT(60) DEF TypeOK, Ref, Sock, Stats
<1>2. IdleLockInv' BY <1>a DEF TypeOK, IdleLockInv, Ref
<1>3. AllListInv' BY DEF TypeOK, AllListInv, Ref
<1>4. LifeInv' BY <1>a DEF TypeOK, LifeInv, Ref, Sock
<1>5. IdleListOK' BY DEF TypeOK, IdleListOK, IdleLockInv, Ref
<1>6. IdleThreadsParked' BY DEF TypeOK, IdleThreadsParked, LifeInv, Ref
<1>7. ConnectionsAccountedFor' BY <1>a DEF TypeOK, ConnectionsAccountedFor, LifeInv, AcceptorHolds, ThreadHolds, Sock
<1>8. StatInv' BY DEF TypeOK, StatInv, AllListInv
<1>9. FdInv' BY DEF TypeOK, FdInv
<1> QED BY <1>1, <1>2, <1>3, <1>4, <1>5, <1>6, <1>7, <1>8, <1>9

\* NewPublish keeps the invariant: the list of all objects starts at the new one.
LEMMA NewPublishPreserves ==
    ASSUME IInv, NewPublish
    PROVE  IInv'
<1> USE DEF IInv, NewPublish, kernel, lists, all, acc, worker, stat, Threads
<1>1. TypeOK' BY DEF TypeOK, Ref, Sock, Stats
<1>2. IdleLockInv' BY DEF TypeOK, IdleLockInv, Ref
<1>3. AllListInv' BY DEF TypeOK, AllListInv, Ref
<1>4. LifeInv' BY DEF TypeOK, LifeInv, Ref, Sock
<1>5. IdleListOK' BY DEF TypeOK, IdleListOK, IdleLockInv, Ref
<1>6. IdleThreadsParked' BY DEF TypeOK, IdleThreadsParked, LifeInv, Ref
<1>7. ConnectionsAccountedFor' BY DEF TypeOK, ConnectionsAccountedFor, LifeInv, AcceptorHolds, ThreadHolds, Sock
<1>8. StatInv' BY DEF TypeOK, StatInv, AllListInv
<1>9. FdInv' BY DEF TypeOK, FdInv
<1> QED BY <1>1, <1>2, <1>3, <1>4, <1>5, <1>6, <1>7, <1>8, <1>9

\* NewSpawn keeps the invariant: the thread of the new object starts, or is never created.
LEMMA NewSpawnPreserves ==
    ASSUME IInv, NewSpawn
    PROVE  IInv'
<1> USE DEF IInv, NewSpawn, kernel, lists, all, acc, worker, stat, Threads
<1>a. acc_ti \in Threads /\ acc_ti < thread_nb /\ pc[acc_ti] = "none"
  BY DEF TypeOK, AllListInv, LifeInv, Ref
<1>1. TypeOK' BY SMTT(60) DEF TypeOK, Ref, Sock, Stats
<1>2. IdleLockInv' BY <1>a DEF TypeOK, IdleLockInv, Ref
<1>3. AllListInv' BY DEF TypeOK, AllListInv, Ref
<1>4. LifeInv' BY <1>a, SMTT(60) DEF TypeOK, LifeInv, Ref, Sock
<1>5. IdleListOK' BY DEF TypeOK, IdleListOK, IdleLockInv, Ref
<1>6. IdleThreadsParked' BY SMTT(60) DEF TypeOK, IdleThreadsParked, LifeInv, Ref
<1>7. ConnectionsAccountedFor'
  <2>1. \A t \in Threads, f \in Fds : ThreadHolds(t, f)' <=> ThreadHolds(t, f)
    BY <1>a DEF TypeOK, ThreadHolds
  <2>2. \A f \in Fds : ~ AcceptorHolds(f) /\ ~ AcceptorHolds(f)'
    BY DEF AcceptorHolds
  <2> QED BY <2>1, <2>2 DEF ConnectionsAccountedFor
<1>8. StatInv' BY DEF TypeOK, StatInv, AllListInv
<1>9. FdInv' BY DEF TypeOK, FdInv
<1> QED BY <1>1, <1>2, <1>3, <1>4, <1>5, <1>6, <1>7, <1>8, <1>9

\* WorkerStart keeps the invariant: readData takes the thread's own descriptor.
LEMMA WorkerStartPreserves ==
    ASSUME NEW w \in Threads, IInv, WorkerStart(w)
    PROVE  IInv'
<1> USE DEF IInv, WorkerStart, kernel, lists, all, acc, worker, stat, Threads
<1>1. TypeOK' BY DEF TypeOK, Ref, Sock, Stats
<1>2. IdleLockInv' BY DEF TypeOK, IdleLockInv, Ref
<1>3. AllListInv' BY DEF TypeOK, AllListInv, Ref
<1>4. LifeInv' BY DEF TypeOK, LifeInv, Ref, Sock
<1>5. IdleListOK' BY DEF TypeOK, IdleListOK, IdleLockInv, Ref
<1>6. IdleThreadsParked' BY DEF TypeOK, IdleThreadsParked, LifeInv, Ref
<1>7. ConnectionsAccountedFor' BY DEF TypeOK, ConnectionsAccountedFor, LifeInv, AcceptorHolds, ThreadHolds, Sock
<1>8. StatInv' BY DEF TypeOK, StatInv, AllListInv
<1>9. FdInv' BY DEF TypeOK, FdInv
<1> QED BY <1>1, <1>2, <1>3, <1>4, <1>5, <1>6, <1>7, <1>8, <1>9

\* WorkerClose keeps the invariant: the descriptor is freed by its only holder.
LEMMA WorkerClosePreserves ==
    ASSUME NEW w \in Threads, IInv, WorkerClose(w)
    PROVE  IInv'
<1> USE DEF IInv, WorkerClose, kernel, lists, all, acc, worker, stat, Threads
<1>1. TypeOK' BY SMTT(60) DEF TypeOK, Ref, Sock, Stats
<1>2. IdleLockInv' BY DEF TypeOK, IdleLockInv, Ref
<1>3. AllListInv' BY DEF TypeOK, AllListInv, Ref
<1>4. LifeInv' BY DEF TypeOK, LifeInv, Ref, Sock
<1>5. IdleListOK' BY DEF TypeOK, IdleListOK, IdleLockInv, Ref
<1>6. IdleThreadsParked' BY SMTT(60) DEF TypeOK, IdleThreadsParked, LifeInv, Ref
<1>7. ConnectionsAccountedFor' BY DEF TypeOK, ConnectionsAccountedFor, LifeInv, AcceptorHolds, ThreadHolds, Sock
<1>8. StatInv' BY DEF TypeOK, StatInv, AllListInv
<1>9. FdInv' BY DEF TypeOK, FdInv
<1> QED BY <1>1, <1>2, <1>3, <1>4, <1>5, <1>6, <1>7, <1>8, <1>9

\* ReleaseClear keeps the invariant: a thread about to be idle has no socket.
LEMMA ReleaseClearPreserves ==
    ASSUME NEW w \in Threads, IInv, ReleaseClear(w)
    PROVE  IInv'
<1> USE DEF IInv, ReleaseClear, kernel, lists, all, acc, worker, stat, Threads
<1>1. TypeOK' BY DEF TypeOK, Ref, Sock, Stats
<1>2. IdleLockInv' BY DEF TypeOK, IdleLockInv, Ref
<1>3. AllListInv' BY DEF TypeOK, AllListInv, Ref
<1>4. LifeInv' BY DEF TypeOK, LifeInv, Ref, Sock
<1>5. IdleListOK' BY DEF TypeOK, IdleListOK, IdleLockInv, Ref
<1>6. IdleThreadsParked' BY DEF TypeOK, IdleThreadsParked, LifeInv, Ref
<1>7. ConnectionsAccountedFor' BY DEF TypeOK, ConnectionsAccountedFor, LifeInv, AcceptorHolds, ThreadHolds, Sock
<1>8. StatInv' BY DEF TypeOK, StatInv, AllListInv
<1>9. FdInv' BY DEF TypeOK, FdInv
<1> QED BY <1>1, <1>2, <1>3, <1>4, <1>5, <1>6, <1>7, <1>8, <1>9

\* ReleaseLink keeps the invariant: the thread links to the head it read under the mutex.
LEMMA ReleaseLinkPreserves ==
    ASSUME NEW w \in Threads, IInv, ReleaseLink(w)
    PROVE  IInv'
<1> USE DEF IInv, ReleaseLink, kernel, lists, all, acc, worker, stat, Threads
<1>1. TypeOK' BY DEF TypeOK, Ref, Sock, Stats
<1>2. IdleLockInv' BY DEF TypeOK, IdleLockInv, Ref
<1>3. AllListInv' BY DEF TypeOK, AllListInv, Ref
<1>4. LifeInv' BY DEF TypeOK, LifeInv, Ref, Sock
<1>5. IdleListOK' BY DEF TypeOK, IdleListOK, IdleLockInv, Ref
<1>6. IdleThreadsParked' BY DEF TypeOK, IdleThreadsParked, LifeInv, Ref
<1>7. ConnectionsAccountedFor' BY DEF TypeOK, ConnectionsAccountedFor, LifeInv, AcceptorHolds, ThreadHolds, Sock
<1>8. StatInv' BY DEF TypeOK, StatInv, AllListInv
<1>9. FdInv' BY DEF TypeOK, FdInv
<1> QED BY <1>1, <1>2, <1>3, <1>4, <1>5, <1>6, <1>7, <1>8, <1>9

\* ReleasePublish keeps the invariant: the thread becomes the head of the list and is parked.
LEMMA ReleasePublishPreserves ==
    ASSUME NEW w \in Threads, IInv, ReleasePublish(w)
    PROVE  IInv'
<1> USE DEF IInv, ReleasePublish, kernel, lists, all, acc, worker, stat, Threads
<1>1. TypeOK' BY DEF TypeOK, Ref, Sock, Stats
<1>2. IdleLockInv' BY DEF TypeOK, IdleLockInv, Ref
<1>3. AllListInv' BY DEF TypeOK, AllListInv, Ref
<1>4. LifeInv' BY DEF TypeOK, LifeInv, Ref, Sock
<1>5. IdleListOK' BY DEF TypeOK, IdleListOK, IdleLockInv, Ref
<1>6. IdleThreadsParked'
  <2>1. /\ Len(idle_stack') = Len(idle_stack) + 1
        /\ idle_stack'[Len(idle_stack')] = w
        /\ \A i \in 1 .. Len(idle_stack) : idle_stack'[i] = idle_stack[i]
        /\ \A i \in 1 .. Len(idle_stack) : idle_stack[i] # w
    <3>1. idle_stack \in Seq(Threads) /\ idle_stack' = Append(idle_stack, w)
      BY DEF TypeOK
    <3>2. \A i \in 1 .. Len(idle_stack) : pc[idle_stack[i]] = "sigwait"
      BY DEF IdleThreadsParked
    <3>3. pc[w] = "publish" /\ Len(idle_stack) \in Nat
      BY <3>1, LenProperties
    <3> HIDE DEF ReleasePublish, Threads
    <3> QED BY <3>1, <3>2, <3>3, AppendProperties
  <2>2. \A i, j \in 1 .. Len(idle_stack') : idle_stack'[i] = idle_stack'[j] => i = j
    BY <2>1, SMTT(60) DEF TypeOK, IdleThreadsParked
  <2>3. /\ pc'[w] = "sigwait" /\ ~ sig[w] /\ client_sock[w] = NoSock
        /\ acc_pc \in {"assign", "kill"} => acc_ti # w
    BY DEF TypeOK, LifeInv
  <2>4. ASSUME NEW i \in 1 .. Len(idle_stack')
        PROVE  /\ pc'[idle_stack'[i]] = "sigwait"
               /\ ~ sig[idle_stack'[i]]
               /\ client_sock[idle_stack'[i]] = NoSock
               /\ acc_pc \in {"assign", "kill"} => acc_ti # idle_stack'[i]
    BY <2>1, <2>3 DEF TypeOK, IdleThreadsParked
  <2> QED BY <2>2, <2>4 DEF IdleThreadsParked
<1>7. ConnectionsAccountedFor' BY DEF TypeOK, ConnectionsAccountedFor, LifeInv, AcceptorHolds, ThreadHolds, Sock
<1>8. StatInv' BY DEF TypeOK, StatInv, AllListInv
<1>9. FdInv' BY DEF TypeOK, FdInv
<1> QED BY <1>1, <1>2, <1>3, <1>4, <1>5, <1>6, <1>7, <1>8, <1>9

\* WorkerWake keeps the invariant: the woken thread is not on the list.
LEMMA WorkerWakePreserves ==
    ASSUME NEW w \in Threads, IInv, WorkerWake(w)
    PROVE  IInv'
<1> USE DEF IInv, WorkerWake, kernel, lists, all, acc, worker, stat, Threads
<1>1. TypeOK' BY DEF TypeOK, Ref, Sock, Stats
<1>2. IdleLockInv' BY DEF TypeOK, IdleLockInv, Ref
<1>3. AllListInv' BY DEF TypeOK, AllListInv, Ref
<1>4. LifeInv' BY DEF TypeOK, LifeInv, Ref, Sock
<1>5. IdleListOK' BY DEF TypeOK, IdleListOK, IdleLockInv, Ref
<1>6. IdleThreadsParked' BY DEF TypeOK, IdleThreadsParked, LifeInv, Ref
<1>7. ConnectionsAccountedFor' BY DEF TypeOK, ConnectionsAccountedFor, LifeInv, AcceptorHolds, ThreadHolds, Sock
<1>8. StatInv' BY DEF TypeOK, StatInv, AllListInv
<1>9. FdInv' BY DEF TypeOK, FdInv
<1> QED BY <1>1, <1>2, <1>3, <1>4, <1>5, <1>6, <1>7, <1>8, <1>9

\* StatBegin keeps the invariant: the walk starts at the newest object and the last slot.
LEMMA StatBeginPreserves ==
    ASSUME IInv, StatBegin
    PROVE  IInv'
<1> USE DEF IInv, StatBegin, kernel, lists, all, acc, worker, stat, Threads
<1>1. TypeOK' BY DEF TypeOK, Ref, Sock, Stats
<1>2. IdleLockInv' BY DEF TypeOK, IdleLockInv, Ref
<1>3. AllListInv' BY DEF TypeOK, AllListInv, Ref
<1>4. LifeInv' BY DEF TypeOK, LifeInv, Ref, Sock
<1>5. IdleListOK' BY DEF TypeOK, IdleListOK, IdleLockInv, Ref
<1>6. IdleThreadsParked' BY DEF TypeOK, IdleThreadsParked, LifeInv, Ref
<1>7. ConnectionsAccountedFor' BY DEF TypeOK, ConnectionsAccountedFor, LifeInv, AcceptorHolds, ThreadHolds, Sock
<1>8. StatInv' BY DEF TypeOK, StatInv, AllListInv
<1>9. FdInv' BY DEF TypeOK, FdInv
<1> QED BY <1>1, <1>2, <1>3, <1>4, <1>5, <1>6, <1>7, <1>8, <1>9

\* StatLoad keeps the invariant: cursor and slot move down together.
LEMMA StatLoadPreserves ==
    ASSUME IInv, StatLoad
    PROVE  IInv'
<1> USE DEF IInv, StatLoad, kernel, lists, all, acc, worker, stat, Threads
<1>a. st_cur \in Threads /\ st_slot = st_cur /\ st_cur < thread_nb
  BY DEF TypeOK, StatInv, Ref
<1>b. /\ ThreadStat(st_cur) \in Stats
      /\ ThreadStat(st_cur).conns \in 1 .. nb_connections[st_cur]
  BY <1>a DEF TypeOK, LifeInv, ThreadStat, Stats
<1>1. TypeOK' BY <1>a, <1>b, SMTT(60) DEF TypeOK, Ref, Sock, Stats
<1>2. IdleLockInv' BY DEF TypeOK, IdleLockInv, Ref
<1>3. AllListInv' BY DEF TypeOK, AllListInv, Ref
<1>4. LifeInv' BY DEF TypeOK, LifeInv, Ref, Sock
<1>5. IdleListOK' BY DEF TypeOK, IdleListOK, IdleLockInv, Ref
<1>6. IdleThreadsParked' BY DEF TypeOK, IdleThreadsParked, LifeInv, Ref
<1>7. ConnectionsAccountedFor' BY DEF TypeOK, ConnectionsAccountedFor, LifeInv, AcceptorHolds, ThreadHolds, Sock
<1>8. StatInv' BY <1>a, <1>b DEF TypeOK, StatInv, AllListInv, Stats
<1>9. FdInv' BY DEF TypeOK, FdInv
<1> QED BY <1>1, <1>2, <1>3, <1>4, <1>5, <1>6, <1>7, <1>8, <1>9

\* StatEnd keeps the invariant: the mutex is given back.
LEMMA StatEndPreserves ==
    ASSUME IInv, StatEnd
    PROVE  IInv'
<1> USE DEF IInv, StatEnd, kernel, lists, all, acc, worker, stat, Threads
<1>1. TypeOK' BY DEF TypeOK, Ref, Sock, Stats
<1>2. IdleLockInv' BY DEF TypeOK, IdleLockInv, Ref
<1>3. AllListInv' BY DEF TypeOK, AllListInv, Ref
<1>4. LifeInv' BY DEF TypeOK, LifeInv, Ref, Sock
<1>5. IdleListOK' BY DEF TypeOK, IdleListOK, IdleLockInv, Ref
<1>6. IdleThreadsParked' BY DEF TypeOK, IdleThreadsParked, LifeInv, Ref
<1>7. ConnectionsAccountedFor' BY DEF TypeOK, ConnectionsAccountedFor, LifeInv, AcceptorHolds, ThreadHolds, Sock
<1>8. StatInv' BY DEF TypeOK, StatInv, AllListInv
<1>9. FdInv' BY DEF TypeOK, FdInv
<1> QED BY <1>1, <1>2, <1>3, <1>4, <1>5, <1>6, <1>7, <1>8, <1>9

-----------------------------------------------------------------------------
\* The state main() starts in satisfies the invariant.
LEMMA InitIInv == Init => IInv
<1> SUFFICES ASSUME Init PROVE IInv
  OBVIOUS
<1> USE DEF Init, Threads
<1>1. TypeOK BY DEF TypeOK, Ref, Sock, Stats
<1>2. IdleLockInv BY DEF IdleLockInv
<1>3. AllListInv BY DEF AllListInv
<1>4. LifeInv BY DEF LifeInv
<1>5. IdleListOK /\ IdleThreadsParked BY DEF IdleListOK, IdleThreadsParked
<1>6. ConnectionsAccountedFor
  BY DEF ConnectionsAccountedFor, AcceptorHolds, ThreadHolds
<1>7. StatInv /\ FdInv BY DEF StatInv, FdInv
<1> QED BY <1>1, <1>2, <1>3, <1>4, <1>5, <1>6, <1>7 DEF IInv

\* So does every step of the acceptor, the workers and the admin thread.
LEMMA NextIInv == IInv /\ [Next]_vars => IInv'
<1> SUFFICES ASSUME IInv, [Next]_vars PROVE IInv'
  OBVIOUS
<1>1. CASE \E f \in Fds : Accept(f)
  BY <1>1, AcceptPreserves
<1>2. CASE AcceptFail
  BY <1>2, AcceptFailPreserves
<1>3. CASE AcceptorStep
  BY <1>3, ReuseCheckPreserves, ReusePopPreserves, ReuseUnlinkPreserves,
     ReuseAssignPreserves, ReuseKillPreserves, NewLinkPreserves,
     NewPublishPreserves, NewSpawnPreserves DEF AcceptorStep
<1>4. CASE \E w \in Threads : WorkerStep(w)
  BY <1>4, WorkerStartPreserves, WorkerClosePreserves, ReleaseClearPreserves,
     ReleaseLinkPreserves, ReleasePublishPreserves, WorkerWakePreserves
     DEF WorkerStep
<1>5. CASE StatBegin \/ StatLoad \/ StatEnd
  BY <1>5, StatBeginPreserves, StatLoadPreserves, StatEndPreserves
<1>6. CASE UNCHANGED vars
  BY <1>6 DEF IInv, vars, kernel, lists, all, acc, worker, stat, TypeOK,
     IdleLockInv, AllListInv, LifeInv, IdleListOK, IdleThreadsParked,
     ConnectionsAccountedFor, AcceptorHolds, ThreadHolds, StatInv, FdInv
<1> QED BY <1>1, <1>2, <1>3, <1>4, <1>5, <1>6 DEF Next

\* The invariant holds in every reachable state of the pool.
THEOREM Invariance == Spec => []IInv
<1> QED BY InitIInv, NextIInv, PTL DEF Spec

\* thread_pool.cpp accesses only the objects newThread created, and the
\* statistics walk only the slots it allocated.
THEOREM TypeCorrect == Spec => []TypeOK
<1>1. IInv => TypeOK BY DEF IInv
<1> QED BY <1>1, Invariance, PTL

\* reuseThread never dereferences a null pointer although it tests
\* idle_threads without the mutex.
THEOREM PopIsSafe == Spec => []NoNullPop
<1>1. IInv => NoNullPop BY DEF IInv, IdleLockInv, NoNullPop
<1> QED BY <1>1, Invariance, PTL

\* idle_threads is always the stack of the released threads.
THEOREM IdleListCorrect == Spec => []IdleListOK
<1>1. IInv => IdleListOK BY DEF IInv
<1> QED BY <1>1, Invariance, PTL

\* Every thread on the idle list is there once, parked and without a socket.
THEOREM IdleThreadsAreParked == Spec => []IdleThreadsParked
<1>1. IInv => IdleThreadsParked BY DEF IInv
<1> QED BY <1>1, Invariance, PTL

\* pthread_kill always wakes its thread: no signal is absorbed.
THEOREM WakeupsAreNotLost == Spec => []NoLostWakeup
<1>1. IInv => NoLostWakeup BY DEF IInv, LifeInv, NoLostWakeup
<1> QED BY <1>1, Invariance, PTL

\* Every open descriptor has exactly one party that will close it.
THEOREM NoConnectionLeaked == Spec => []ConnectionsAccountedFor
<1>1. IInv => ConnectionsAccountedFor BY DEF IInv
<1> QED BY <1>1, Invariance, PTL

\* The buffer getThreadStatistics returns has one filled slot per thread.
THEOREM StatisticsExact == Spec => []StatBufferExact
<1>1. ASSUME IInv PROVE StatBufferExact
  BY <1>1 DEF IInv, StatInv, StatBufferExact, Threads, TypeOK, Ref
<1> QED BY <1>1, Invariance, PTL

-----------------------------------------------------------------------------
(***************************************************************************)
(* The thread pool implements the Dispatcher: under the mapping of         *)
(* ThreadPool!D, Accept is an accept, WorkerStart takes a connection,      *)
(* WorkerClose closes it, and every other step stutters.                   *)
(***************************************************************************)
Waiting == Open \ {Served(w) : w \in Threads}
Closed == (1 .. accepted) \ Open

\* A worker with a descriptor serves an open connection; no two workers serve
\* the same one, and nobody serves what the acceptor still holds.
LEMMA ServedFacts ==
    ASSUME IInv
    PROVE  /\ \A w \in Threads : Served(w) \in 0 .. accepted
           /\ \A w \in Threads : Served(w) # 0 <=> pc[w] = "read" /\ socket_fd[w] # NoSock
           /\ \A w \in Threads : Served(w) # 0 => Served(w) \in Open
           /\ \A v, w \in Threads : Served(v) = Served(w) /\ Served(v) # 0 => v = w
           /\ \A w \in Threads : Served(w) # 0 =>
                /\ socket_fd[w] \in Fds
                /\ ThreadHolds(w, socket_fd[w])
                /\ Served(w) = fd_table[socket_fd[w]]
<1> USE DEF IInv
<1>1. accepted \in Nat /\ \A f \in Fds : fd_table[f] \in 0 .. accepted
  BY DEF TypeOK, FdInv
<1>2. ASSUME NEW w \in Threads, pc[w] = "read", socket_fd[w] # NoSock
      PROVE  socket_fd[w] \in Fds /\ ThreadHolds(w, socket_fd[w]) /\ fd_table[socket_fd[w]] # 0
  <2>1. socket_fd[w] \in Fds /\ socket_fd[w] = client_sock[w]
    BY <1>2 DEF TypeOK, Sock, LifeInv
  <2>2. ThreadHolds(w, socket_fd[w])
    BY <1>2, <2>1 DEF ThreadHolds
  <2> QED BY <2>1, <2>2 DEF ConnectionsAccountedFor
<1>3. \A w \in Threads : Served(w) \in 0 .. accepted
  BY <1>1, <1>2 DEF Served
<1>4. \A w \in Threads : Served(w) # 0 <=> pc[w] = "read" /\ socket_fd[w] # NoSock
  BY <1>2 DEF Served
<1>5. \A w \in Threads : Served(w) # 0 => Served(w) \in Open
  BY <1>2, <1>4 DEF Served, Open
<1>6. ASSUME NEW v \in Threads, NEW w \in Threads, Served(v) = Served(w), Served(v) # 0
      PROVE  v = w
  <2>1. /\ socket_fd[v] \in Fds /\ ThreadHolds(v, socket_fd[v])
        /\ socket_fd[w] \in Fds /\ ThreadHolds(w, socket_fd[w])
        /\ fd_table[socket_fd[v]] = fd_table[socket_fd[w]]
        /\ fd_table[socket_fd[v]] # 0
    BY <1>2, <1>4, <1>6 DEF Served
  <2>2. socket_fd[v] = socket_fd[w]
    BY <2>1 DEF FdInv
  <2> QED BY <2>1, <2>2 DEF ConnectionsAccountedFor
<1>7. \A w \in Threads : Served(w) # 0 =>
        /\ socket_fd[w] \in Fds
        /\ ThreadHolds(w, socket_fd[w])
        /\ Served(w) = fd_table[socket_fd[w]]
  BY <1>2, <1>4 DEF Served
<1> QED BY <1>3, <1>4, <1>5, <1>6, <1>7

\* A step that opens and closes nothing and changes what nobody reads is a
\* stutter of the Dispatcher.
LEMMA Stutter ==
    ASSUME UNCHANGED <<accepted, fd_table>>,
           \A w \in Threads : Served(w)' = Served(w)
    PROVE  UNCHANGED D!dvars
<1>1. Open' = Open BY DEF Open
<1>2. {Served(w) : w \in Threads}' = {Served(w) : w \in Threads}
  OBVIOUS
<1>3. [w \in Threads |-> Served(w)]' = [w \in Threads |-> Served(w)]
  OBVIOUS
<1> QED BY <1>1, <1>2, <1>3 DEF D!dvars

\* accept() maps to the Dispatcher's Accept of a connection never seen before.
LEMMA AcceptRefines ==
    ASSUME IInv, NEW f \in Fds, Accept(f)
    PROVE  D!Next
<1> DEFINE c == accepted + 1
<1>1. accepted \in Nat /\ c \in Conns /\ \A g \in Fds : fd_table[g] \in 0 .. accepted
  BY BoundsAssumption DEF IInv, TypeOK, FdInv, Accept, Conns
<1>2. /\ accepted' = c /\ fd_table[f] = 0 /\ UNCHANGED <<pc, socket_fd>>
      /\ fd_table \in [Fds -> Nat]
      /\ fd_table' = [fd_table EXCEPT ![f] = c]
  BY DEF Accept, worker, IInv, TypeOK
<1>3. Open' = Open \cup {c}
  BY <1>1, <1>2 DEF Open
<1>4. c \notin Open /\ \A w \in Threads : Served(w) # c
  BY <1>1, ServedFacts DEF Open
<1>5. \A w \in Threads : Served(w)' = Served(w)
  <2> SUFFICES ASSUME NEW w \in Threads PROVE Served(w)' = Served(w)
    OBVIOUS
  <2>1. pc[w] = "read" /\ socket_fd[w] # NoSock =>
          socket_fd[w] \in Fds /\ fd_table[socket_fd[w]] # 0
    BY ServedFacts DEF Served, IInv, TypeOK, Sock
  <2> QED BY <1>2, <2>1 DEF Served
<1>6. {Served(w) : w \in Threads}' = {Served(w) : w \in Threads}
  BY <1>5
<1>7. [w \in Threads |-> Served(w)]' = [w \in Threads |-> Served(w)]
  BY <1>5
<1>8. Waiting' = Waiting \cup {c}
  BY <1>3, <1>4, <1>6 DEF Waiting
<1>9. Closed' = Closed /\ c \notin Closed
  BY <1>1, <1>2, <1>3, <1>4 DEF Closed
<1>10. D!Accept(c)
  <2>1. \A w \in Threads : [v \in Threads |-> Served(v)][w] # c
    BY <1>4
  <2>2. c \notin Waiting \cup Closed
    BY <1>4, <1>9 DEF Waiting
  <2> HIDE DEF c
  <2> QED BY <1>7, <1>8, <1>9, <2>1, <2>2 DEF D!Accept, Waiting, Closed
<1> QED BY <1>1, <1>10 DEF D!Next

\* readData takes the thread's connection: the Dispatcher's Serve, or a stutter
\* if accept() had failed.
LEMMA WorkerStartRefines ==
    ASSUME IInv, NEW w \in Threads, WorkerStart(w)
    PROVE  [D!Next]_(D!dvars)
<1>1. /\ UNCHANGED <<accepted, fd_table, client_sock>>
      /\ pc[w] = "start" /\ pc'[w] = "read"
      /\ socket_fd'[w] = client_sock[w]
      /\ \A v \in Threads \ {w} : pc'[v] = pc[v] /\ socket_fd'[v] = socket_fd[v]
  BY DEF WorkerStart, kernel, IInv, TypeOK
<1>2. \A v \in Threads \ {w} : Served(v)' = Served(v)
  BY <1>1 DEF Served
<1>3. Served(w) = 0
  BY <1>1, ServedFacts
<1>4. Open' = Open
  BY <1>1 DEF Open
<1>5. CASE client_sock[w] = NoSock
  <2>1. Served(w)' = 0
    BY <1>1, <1>5 DEF Served
  <2> QED BY <1>1, <1>2, <1>3, <2>1, Stutter
<1>6. CASE client_sock[w] # NoSock
  <2> DEFINE c == fd_table[client_sock[w]]
  <2>1. client_sock[w] \in Fds /\ ThreadHolds(w, client_sock[w])
    BY <1>1, <1>6 DEF ThreadHolds, IInv, TypeOK, Sock
  <2>2. c # 0 /\ c \in Open
    BY <2>1 DEF IInv, ConnectionsAccountedFor, Open
  <2>3. c \in Conns
    BY <2>1, <2>2 DEF IInv, TypeOK, Conns
  <2>4. Served(w)' = c
    BY <1>1, <1>6 DEF Served
  <2>5. \A v \in Threads : Served(v) # c
    <3> SUFFICES ASSUME NEW v \in Threads, Served(v) = c PROVE FALSE
      OBVIOUS
    <3>1. socket_fd[v] \in Fds /\ ThreadHolds(v, socket_fd[v]) /\ c = fd_table[socket_fd[v]]
      BY <2>2, ServedFacts
    <3>2. socket_fd[v] = client_sock[w]
      BY <2>1, <2>2, <3>1 DEF IInv, FdInv
    <3>3. v = w
      BY <2>1, <3>1, <3>2 DEF IInv, ConnectionsAccountedFor
    <3> QED BY <1>3, <2>2, <3>3
  <2>6. {Served(v) : v \in Threads}' = ({Served(v) : v \in Threads} \ {0}) \cup {c}
             \/ {Served(v) : v \in Threads}' = {Served(v) : v \in Threads} \cup {c}
    BY <1>2, <1>3, <2>4
  <2>7. Waiting' = Waiting \ {c} /\ c \in Waiting
    BY <1>4, <2>2, <2>5, <2>6 DEF Waiting, Open
  <2>8. [v \in Threads |-> Served(v)]' = [[v \in Threads |-> Served(v)] EXCEPT ![w] = c]
    BY <1>2, <2>4
  <2>9. [v \in Threads |-> Served(v)][w] = 0
    BY <1>3
  <2>10. Closed' = Closed
    BY <1>1, <1>4 DEF Closed
  <2>11. D!Serve(w, c)
    <3> HIDE DEF c
    <3> QED BY <2>7, <2>8, <2>9, <2>10 DEF D!Serve, Waiting, Closed
  <2> QED BY <2>3, <2>11 DEF D!Next
<1> QED BY <1>5, <1>6

\* close() by connection_handler is the Dispatcher's Close of the connection
\* the worker served, or a stutter if it had none.
LEMMA WorkerCloseRefines ==
    ASSUME IInv, NEW w \in Threads, WorkerClose(w)
    PROVE  [D!Next]_(D!dvars)
<1>1. /\ accepted' = accepted /\ socket_fd' = socket_fd
      /\ pc[w] = "read" /\ pc'[w] = "clear"
      /\ \A v \in Threads \ {w} : pc'[v] = pc[v]
      /\ fd_table \in [Fds -> Nat]
      /\ fd_table' = [f \in Fds |-> IF f = client_sock[w] THEN 0 ELSE fd_table[f]]
      /\ socket_fd[w] = client_sock[w]
  BY DEF WorkerClose, IInv, TypeOK, LifeInv
<1>2. Served(w)' = 0
  BY <1>1 DEF Served
<1>3. \A v \in Threads \ {w} : Served(v)' = Served(v)
  <2> SUFFICES ASSUME NEW v \in Threads \ {w} PROVE Served(v)' = Served(v)
    OBVIOUS
  <2>1. CASE Served(v) = 0
    BY <1>1, <2>1, ServedFacts DEF Served
  <2>2. CASE Served(v) # 0
    <3>1. socket_fd[v] \in Fds /\ ThreadHolds(v, socket_fd[v]) /\ pc[v] = "read"
          /\ socket_fd[v] # NoSock
      BY <2>2, ServedFacts
    <3>2. socket_fd[v] # client_sock[w]
      <4> SUFFICES ASSUME socket_fd[v] = client_sock[w] PROVE FALSE
        OBVIOUS
      <4>1. ThreadHolds(w, socket_fd[v])
        BY <1>1 DEF ThreadHolds
      <4> QED BY <3>1, <4>1 DEF IInv, ConnectionsAccountedFor
    <3> QED BY <1>1, <3>1, <3>2 DEF Served
  <2> QED BY <2>1, <2>2
<1>4. CASE socket_fd[w] = NoSock
  <2>1. fd_table' = fd_table
    BY <1>1, <1>4, NamesAssumption
  <2>2. Served(w) = 0
    BY <1>4 DEF Served
  <2> QED BY <1>1, <1>2, <1>3, <2>1, <2>2, Stutter
<1>5. CASE socket_fd[w] # NoSock
  <2> DEFINE c == Served(w)
  <2>1. c # 0 /\ c \in Open /\ c \in 1 .. accepted
        /\ socket_fd[w] \in Fds /\ c = fd_table[socket_fd[w]]
    BY <1>1, <1>5, ServedFacts DEF IInv, TypeOK
  <2>2. \A f \in Fds : fd_table[f] = c => f = client_sock[w]
    BY <1>1, <2>1 DEF IInv, FdInv
  <2>3. Open' = Open \ {c}
    <3> HIDE DEF c
    <3> QED BY <1>1, <2>1, <2>2 DEF Open
  <2>4. \A v \in Threads \ {w} : Served(v) # c
    BY <2>1, ServedFacts
  <2>5. Waiting' = Waiting
    <3>1. \A x : x # 0 /\ x # c =>
            (x \in {Served(v) : v \in Threads}' <=> x \in {Served(v) : v \in Threads})
      BY <1>2, <1>3
    <3>2. 0 \notin Open /\ c \in {Served(v) : v \in Threads}
      BY DEF Open
    <3>3. \A x : x \in Waiting' <=> x \in Waiting
      BY <2>3, <3>1, <3>2 DEF Waiting
    <3> QED BY <3>3 DEF Waiting
  <2>6. Closed' = Closed \cup {c}
    BY <1>1, <2>1, <2>3 DEF Closed
  <2>7. [v \in Threads |-> Served(v)]' = [[v \in Threads |-> Served(v)] EXCEPT ![w] = 0]
    BY <1>2, <1>3
  <2>8. [v \in Threads |-> Served(v)][w] = c
    OBVIOUS
  <2>9. D!Close(w)
    <3> HIDE DEF c
    <3> QED BY <2>1, <2>5, <2>6, <2>7, <2>8 DEF D!Close, Waiting, Closed
  <2> QED BY <2>9 DEF D!Next
<1> QED BY <1>4, <1>5

\* The other steps of the workers, the acceptor and the admin thread neither
\* open nor close a descriptor and start or end no readData.
LEMMA OtherStepsStutter ==
    ASSUME IInv, Next,
           ~ \E f \in Fds : Accept(f),
           ~ \E w \in Threads : WorkerStart(w) \/ WorkerClose(w)
    PROVE  UNCHANGED D!dvars
<1>1. /\ UNCHANGED <<accepted, fd_table, socket_fd>>
      /\ \A v \in Threads : pc'[v] # pc[v] => pc[v] # "read" /\ pc'[v] # "read"
  <2> USE DEF kernel, worker, IInv, TypeOK
  <2>1. CASE AcceptFail
    BY <2>1 DEF AcceptFail
  <2>2. CASE AcceptorStep
    <3>1. CASE NewSpawn
      <4>1. acc_ti \in Threads /\ pc[acc_ti] = "none"
        BY <3>1, BoundsAssumption, NamesAssumption
           DEF NewSpawn, AllListInv, LifeInv, Ref, Threads
      <4> QED BY <3>1, <4>1 DEF NewSpawn
    <3>2. CASE ~ NewSpawn
      BY <2>2, <3>2 DEF AcceptorStep, ReuseCheck, ReusePop, ReuseUnlink,
         ReuseAssign, ReuseKill, NewLink, NewPublish
    <3> QED BY <3>1, <3>2
  <2>3. CASE \E w \in Threads : WorkerStep(w)
    BY <2>3 DEF WorkerStep, ReleaseClear, ReleaseLink, ReleasePublish, WorkerWake
  <2>4. CASE StatBegin \/ StatLoad \/ StatEnd
    BY <2>4 DEF StatBegin, StatLoad, StatEnd
  <2> QED BY <2>1, <2>2, <2>3, <2>4 DEF Next
<1>2. \A v \in Threads : Served(v)' = Served(v)
  BY <1>1 DEF Served
<1> QED BY <1>1, <1>2, Stutter

\* The initial state maps to the initial state of the Dispatcher.
LEMMA InitRefines == Init => D!Init
<1> SUFFICES ASSUME Init PROVE D!Init
  OBVIOUS
<1>1. Open = {}
  BY DEF Init, Open
<1>2. \A w \in Threads : Served(w) = 0
  BY DEF Init, Served
<1>3. 1 .. accepted = {}
  BY DEF Init
<1> QED BY <1>1, <1>2, <1>3 DEF D!Init

\* The thread pool implements the Dispatcher: every accepted connection waits,
\* is served by one worker alone, and leaves through it.
THEOREM PoolImplementsDispatcher == Spec => DispatcherSpec
<1>1. IInv /\ [Next]_vars => [D!Next]_(D!dvars)
  <2> SUFFICES ASSUME IInv, [Next]_vars PROVE [D!Next]_(D!dvars)
    OBVIOUS
  <2>1. CASE \E f \in Fds : Accept(f)
    BY <2>1, AcceptRefines
  <2>2. CASE \E w \in Threads : WorkerStart(w) \/ WorkerClose(w)
    BY <2>2, WorkerStartRefines, WorkerCloseRefines
  <2>3. CASE Next /\ ~ (\E f \in Fds : Accept(f))
             /\ ~ (\E w \in Threads : WorkerStart(w) \/ WorkerClose(w))
    BY <2>3, OtherStepsStutter
  <2>4. CASE UNCHANGED vars
    <3>1. \A v \in Threads : Served(v)' = Served(v)
      BY <2>4 DEF vars, kernel, worker, Served
    <3> QED BY <2>4, <3>1, Stutter DEF vars, kernel
  <2> QED BY <2>1, <2>2, <2>3, <2>4
<1> QED BY <1>1, InitRefines, Invariance, PTL DEF Spec, DispatcherSpec, D!Spec
=============================================================================
