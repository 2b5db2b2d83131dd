------------------------------- MODULE Sawad --------------------------------
(***************************************************************************)
(* The life of a sawad process: main (sawad.cpp), the Server object and    *)
(* its accept loop (server.cpp), the admin thread (sawa_admin.cpp), the    *)
(* display (display.cpp) and the stop sequence, which is run by the admin  *)
(* thread for a STOP command and by the main thread, as a signal handler,  *)
(* for SIGINT.  ThreadPool has the details of the pool; here a worker only *)
(* serves, draws and becomes idle.                                         *)
(*                                                                         *)
(* What matters is when an object exists: screen, server, pool and fd_log  *)
(* are globals that several threads use without a lock while main creates  *)
(* them and the stop sequence deletes them.  Using a null object crashes;  *)
(* using a deleted one may crash or go on.  Both are recorded in bad.      *)
(***************************************************************************)
EXTENDS Integers

CONSTANTS
    Workers,     \* the threads of the pool
    Main, Admin, \* the two other threads
    Nobody,      \* no owner of a lock
    Options,     \* the command lines: records of daemon, debug, quiet
    MaxFds,      \* descriptors the process may use for admin connections
    Commands,    \* bound: the sets of commands admin clients send
    MayFail      \* can socket, bind and fopen fail?

ASSUME ThreadsAssumption ==
    /\ Main \notin Workers \cup {Admin, Nobody}
    /\ Admin \notin Workers \cup {Nobody}
    /\ Nobody \notin Workers
    /\ MaxFds \in Nat

VARIABLES
    opt,                 \* the options of this process
    main, adm, wk,       \* control states
    screen, srv, pool, admin,  \* the objects: "null", "live", "freed"
    log,                 \* fd_log: "null", "live" once opened, "freed"
    curses,              \* is the terminal in curses mode?
    sock, asock,         \* the sockets: "none", "bound", "listen", "shut"
    fp,                  \* the filesystem file: "none", "open", "closed"
    heap, display_lock,  \* who is in malloc or free; who has the display
    drawing,             \* the threads inside a curses function
    cmds, sigint,        \* commands not sent yet; has SIGINT been sent?
    cur,                 \* the command the admin thread works on
    afds,                \* admin connections that were never closed
    end,                 \* "no", or how the process ended
    \* History.
    bad,                 \* an object that is not there was used
    early,               \* a command or a signal came before main was ready
    stopped,             \* the stop sequence was started
    served               \* a worker was created

objects == <<screen, srv, pool, admin, log, curses, fp>>
sockets == <<sock, asock>>
locks == <<heap, display_lock, drawing>>
input == <<cmds, sigint, cur, afds>>
hist == <<early, stopped, served>>
vars == <<opt, main, adm, wk, objects, sockets, locks, input, end, bad, hist>>

Init ==
    /\ opt \in Options
    /\ main = "display" /\ adm = "none" /\ wk = [w \in Workers |-> "none"]
    /\ screen = "null" /\ srv = "null" /\ pool = "null" /\ admin = "null"
    /\ log = "null" /\ curses = FALSE /\ fp = "none"
    /\ sock = "none" /\ asock = "none"
    /\ heap = Nobody /\ display_lock = Nobody /\ drawing = {}
    /\ cmds \in Commands /\ sigint = FALSE /\ cur = "none" /\ afds = 0
    /\ end = "no" /\ bad = FALSE /\ early = FALSE /\ stopped = FALSE /\ served = FALSE

\* main, select_display: the choice of the display.
Default == ~ opt.daemon /\ ~ opt.debug /\ ~ opt.quiet

Running == end = "no"
Ready == main \in {"accept", "alloc", "spawn", "new", "update", "draw"}

\* A step that uses objects in the states os: a null pointer is fatal, a deleted
\* object may be.
Use(os) ==
    /\ bad' = (bad \/ os # {"live"})
    /\ end' \in IF "null" \in os THEN {"crash"}
               ELSE {end} \cup IF "freed" \in os THEN {"crash"} ELSE {}

\* What screen->error uses, and screen->debug: only DisplayDaemon writes to
\* fd_log, which is null until init has opened it.
Error == {screen} \cup IF opt.daemon THEN {log} ELSE {}
Debug == {screen} \cup IF opt.daemon /\ opt.debug THEN {log} ELSE {}

-----------------------------------------------------------------------------
(***************************************************************************)
(* main: display, server (socket, admin thread, file), pool, accept loop.  *)
(***************************************************************************)
Start(from, to) == Running /\ main = from /\ main' = to
Fails == MayFail /\ main' = "done" /\ end' = "fail"

SelectDisplay ==
    /\ Start("display", "server")
    /\ screen' = "live"
    /\ UNCHANGED <<opt, adm, wk, srv, pool, admin, log, curses, fp, sockets, locks, input, end,
                   bad, hist>>

\* Server::Server: the socket and bind; a failure is thrown to main, which
\* displays it and returns.
ServerBind ==
    /\ Running /\ main = "server"
    /\ \/ main' = "admin" /\ sock' = "bound" /\ UNCHANGED end
       \/ Fails /\ UNCHANGED sock
    /\ UNCHANGED <<opt, adm, wk, objects, asock, locks, input, bad, hist>>

\* AdminInterface::AdminInterface starts the admin thread.
NewAdmin ==
    /\ Start("admin", "file")
    /\ admin' = "live" /\ adm' = "start"
    /\ UNCHANGED <<opt, wk, screen, srv, pool, log, curses, fp, sockets, locks, input, end, bad, hist>>

\* SawaServer::SawaServer opens the file, which may fail too.
OpenFile ==
    /\ Running /\ main = "file"
    /\ \/ main' = "assign" /\ fp' = "open" /\ UNCHANGED end
       \/ Fails /\ UNCHANGED fp
    /\ UNCHANGED <<opt, adm, wk, screen, srv, pool, admin, log, curses, sockets, locks, input, bad, hist>>

\* The global server is assigned when its constructor has returned.
AssignServer ==
    /\ Start("assign", "pool")
    /\ srv' = "live"
    /\ UNCHANGED <<opt, adm, wk, screen, pool, admin, log, curses, fp, sockets, locks, input, end,
                   bad, hist>>

NewPool ==
    /\ Start("pool", IF opt.daemon THEN "fork" ELSE "listen")
    /\ pool' = "live"
    /\ UNCHANGED <<opt, adm, wk, screen, srv, admin, log, curses, fp, sockets, locks, input, end,
                   bad, hist>>

\* start_as_daemon: the parent exits; only the thread that forked goes on in
\* the child.  fork and setsid may fail.
StartAsDaemon ==
    /\ Running /\ main = "fork"
    /\ \/ main' = "listen" /\ adm' = "lost" /\ UNCHANGED end
       \/ Fails /\ UNCHANGED adm
    /\ UNCHANGED <<opt, wk, objects, sockets, locks, input, bad, hist>>

\* Faulty variant: the display is not initialised.
Listen_NoInit ==
    /\ Start("listen", "init")
    /\ sock' = IF sock = "bound" THEN "listen" ELSE sock
    /\ UNCHANGED <<opt, adm, wk, objects, asock, locks, input, end, bad, hist>>

\* Server::start: listen, then screen->init, which for DisplayDefault draws the
\* first screen without the lock.
Listen ==
    /\ Start("listen", "init")
    /\ sock' = IF sock = "bound" THEN "listen" ELSE sock
    /\ log' = IF opt.daemon THEN "live" ELSE log
    /\ curses' = Default
    /\ drawing' = IF Default THEN drawing \cup {Main} ELSE drawing
    /\ Use({screen, srv})
    /\ UNCHANGED <<opt, adm, wk, screen, srv, pool, admin, fp, asock, heap, display_lock, input, hist>>

EndInit ==
    /\ Start("init", "accept")
    /\ drawing' = drawing \ {Main}
    /\ UNCHANGED <<opt, adm, wk, objects, sockets, heap, display_lock, input, end, bad, hist>>

(***************************************************************************)
(* The accept loop.  Once the socket is shut down accept fails at once,    *)
(* again and again, and each failure goes on to handleNewConnection.  The  *)
(* bound is the set of threads.                                            *)
(***************************************************************************)
Accept ==
    /\ Running /\ main = "accept"
    /\ sock \in {"listen", "shut"}
    /\ \E w \in Workers : wk[w] \in {"none", "idle"}
    /\ Use(Debug \cup {pool})
    /\ main' = IF \E w \in Workers : wk[w] = "idle" THEN "update" ELSE "alloc"
    /\ UNCHANGED <<opt, adm, wk, objects, sockets, locks, input, hist>>

\* newThread: the object is allocated, its thread is created and then shown.
Allocate ==
    /\ Start("alloc", "spawn")
    /\ heap = Nobody /\ heap' = Main
    /\ UNCHANGED <<opt, adm, wk, objects, sockets, display_lock, drawing, input, end, bad, hist>>

Spawn(w) ==
    /\ Start("spawn", "new")
    /\ wk[w] = "none" /\ wk' = [wk EXCEPT ![w] = "serve"]
    /\ heap' = Nobody
    /\ served' = TRUE
    /\ Use({pool})
    /\ UNCHANGED <<opt, adm, objects, sockets, display_lock, drawing, input, early, stopped>>

\* DisplayDefault::new_thread draws the number of the thread without the
\* lock, then goes on to thread_update and status.
DrawNew ==
    /\ Running /\ main = "new"
    /\ Use({screen})
    /\ IF Default /\ Main \notin drawing
         THEN drawing' = drawing \cup {Main} /\ UNCHANGED main
         ELSE drawing' = drawing \ {Main} /\ main' = "update"
    /\ UNCHANGED <<opt, adm, wk, objects, sockets, heap, display_lock, input, hist>>

\* Faulty variant: the lock is not taken.
Lock_None(t) == Default /\ drawing' = drawing \cup {t} /\ UNCHANGED display_lock

\* The drawing methods of DisplayDefault take display_lock, draw and release
\* it; those of the other displays do not draw.
Lock(t) ==
    /\ Default
    /\ display_lock = Nobody /\ display_lock' = t
    /\ drawing' = drawing \cup {t}

Unlock(t) ==
    /\ display_lock' = IF display_lock = t THEN Nobody ELSE display_lock
    /\ drawing' = drawing \ {t}

\* reuseThread: thread_update, then the wake-up; also the end of newThread.
Update ==
    /\ Running /\ main = "update"
    /\ Use({screen})
    /\ IF Default THEN Lock(Main) /\ main' = "draw" /\ UNCHANGED wk
       ELSE /\ main' = "accept"
            /\ wk' \in {wk} \cup {[wk EXCEPT ![w] = "serve"] : w \in {x \in Workers : wk[x] = "idle"}}
            /\ UNCHANGED <<display_lock, drawing>>
    /\ UNCHANGED <<opt, adm, objects, sockets, heap, input, hist>>

EndUpdate ==
    /\ Start("draw", "accept")
    /\ Unlock(Main)
    /\ wk' \in {wk} \cup {[wk EXCEPT ![w] = "serve"] : w \in {x \in Workers : wk[x] = "idle"}}
    /\ UNCHANGED <<opt, adm, objects, sockets, heap, input, end, bad, hist>>

-----------------------------------------------------------------------------
(***************************************************************************)
(* The workers: a request is served and shown (updateScreen), and in the   *)
(* end releaseThread shows the thread as idle.                             *)
(***************************************************************************)
Serve(w) ==
    /\ Running /\ wk[w] = "serve"
    /\ Use({srv, screen})
    /\ IF Default THEN Lock(w) /\ wk' = [wk EXCEPT ![w] = "draw"]
       ELSE wk' \in {wk, [wk EXCEPT ![w] = "idle"]} /\ UNCHANGED <<display_lock, drawing>>
    /\ UNCHANGED <<opt, main, adm, objects, sockets, heap, input, hist>>

EndServe(w) ==
    /\ Running /\ wk[w] = "draw"
    /\ Unlock(w)
    /\ wk' \in {[wk EXCEPT ![w] = s] : s \in {"serve", "idle"}}
    /\ UNCHANGED <<opt, main, adm, objects, sockets, heap, input, end, bad, hist>>

-----------------------------------------------------------------------------
(***************************************************************************)
(* The admin thread.                                                       *)
(***************************************************************************)
\* connectionHandler: socket, bind and listen; if bind fails the thread shows
\* it and ends.
AdminStart ==
    /\ Running /\ adm = "start"
    /\ adm' = "accept" /\ asock' = "listen"
    /\ UNCHANGED <<opt, main, wk, objects, sock, locks, input, end, bad, hist>>

AdminFails ==
    /\ Running /\ adm = "start" /\ MayFail
    /\ Use(Error)
    /\ IF Default THEN Lock(Admin) /\ adm' = "draw"
       ELSE adm' = "over" /\ UNCHANGED <<display_lock, drawing>>
    /\ UNCHANGED <<opt, main, wk, objects, sockets, heap, input, hist>>

EndAdminFails ==
    /\ Running /\ adm = "draw" /\ adm' = "over"
    /\ Unlock(Admin)
    /\ UNCHANGED <<opt, main, wk, objects, sockets, heap, input, end, bad, hist>>

\* A client connects.  Without a free descriptor accept and read fail, again
\* and again.
AdminAccept ==
    /\ Running /\ adm = "accept" /\ asock = "listen"
    /\ cmds # {} /\ afds < MaxFds
    /\ afds' = afds + 1
    /\ adm' = "read"
    /\ early' = (early \/ ~ Ready)
    /\ Use(Debug)
    /\ UNCHANGED <<opt, main, wk, objects, sockets, locks, cmds, sigint, cur, stopped, served>>

\* readCommand: the client sends one more command, or is gone.  The socket is
\* never closed.
AdminRead(c) ==
    /\ Running /\ adm = "read"
    /\ c \in cmds /\ cmds' = cmds \ {c}
    /\ cur' = c /\ adm' = "command"
    /\ early' = (early \/ ~ Ready)
    /\ UNCHANGED <<opt, main, wk, objects, sockets, locks, sigint, afds, end, bad, stopped, served>>

AdminDone ==
    /\ Running /\ adm = "read" /\ adm' = "accept"
    /\ UNCHANGED <<opt, main, wk, objects, sockets, locks, input, end, bad, hist>>

\* Faulty variant: a STOP is read and dropped.
AdminCommand_Drop ==
    /\ Running /\ adm = "command" /\ adm' = "read"
    /\ UNCHANGED <<opt, main, wk, objects, sockets, locks, input, end, bad, hist>>

\* processCommand and statCommand.
AdminCommand ==
    /\ Running /\ adm = "command"
    /\ \/ cur = "stop" /\ adm' = "stop" /\ UNCHANGED <<bad, end>>
       \/ cur = "stat" /\ adm' = "read" /\ Use({pool})
       \/ cur = "other" /\ adm' = "read" /\ UNCHANGED <<bad, end>>
    /\ stopped' = (stopped \/ cur = "stop")
    /\ UNCHANGED <<opt, main, wk, objects, sockets, locks, input, early, served>>

\* SIGINT: the kernel runs ctrl_c_handler on the main thread, wherever it is.
Interrupt ==
    /\ Running /\ ~ sigint
    /\ sigint' = TRUE /\ stopped' = TRUE
    /\ early' = (early \/ ~ Ready)
    /\ main' = "stop"
    /\ UNCHANGED <<opt, adm, wk, objects, sockets, locks, cmds, cur, afds, end, bad, served>>

-----------------------------------------------------------------------------
(***************************************************************************)
(* ctrl_c_handler and Server::stop, run by thread t.                       *)
(***************************************************************************)
At(t, l) == Running /\ ((t = Main /\ main = l) \/ (t = Admin /\ adm = l))
Goto(t, l) ==
    /\ main' = IF t = Main THEN l ELSE main
    /\ adm' = IF t = Admin THEN l ELSE adm

\* shutdown(socket_desc): server may not be assigned yet, or be deleted.
StopSocket(t) ==
    /\ At(t, "stop") /\ Goto(t, "stop admin")
    /\ sock' = "shut"
    /\ Use({srv})
    /\ UNCHANGED <<opt, wk, objects, asock, locks, input, hist>>

\* Faulty variant: the admin thread is waited for.
StopAdmin_Join(t) ==
    /\ At(t, "stop admin") /\ Goto(t, "stop pool")
    /\ heap = Nobody /\ adm \in {"over", "lost"}
    /\ asock' = "shut" /\ admin' = "freed"
    /\ Use(Debug \cup {admin})
    /\ UNCHANGED <<opt, wk, screen, srv, pool, log, curses, fp, sock, locks, input, hist>>

\* AdminInterface::~AdminInterface.
StopAdmin(t) ==
    /\ At(t, "stop admin") /\ Goto(t, "stop pool")
    /\ heap = Nobody
    /\ asock' = "shut" /\ admin' = "freed"
    /\ Use(Debug \cup {admin})
    /\ UNCHANGED <<opt, wk, screen, srv, pool, log, curses, fp, sock, locks, input, hist>>

\* ThreadPool::~ThreadPool sends SIGALRM to the threads of all_threads.  Nobody
\* handles or blocks that signal: the first one kills the process, and the walk
\* over the list goes no further.
StopPool(t) ==
    /\ At(t, "stop pool") /\ Goto(t, "stop screen")
    /\ heap = Nobody
    /\ pool' = IF pool = "null" THEN pool ELSE "freed"
    /\ IF pool = "live" /\ \E w \in Workers : wk[w] # "none"
         THEN end' = "alarm" /\ UNCHANGED bad
         ELSE IF pool = "null" THEN UNCHANGED <<bad, end>> ELSE Use(Debug \cup {pool})
    /\ UNCHANGED <<opt, wk, screen, srv, admin, log, curses, fp, sockets, locks, input, hist>>

\* screen->cleanup() and delete screen.
StopScreen(t) ==
    /\ At(t, "stop screen") /\ Goto(t, "stop server")
    /\ heap = Nobody
    /\ curses' = FALSE
    /\ log' = IF log = "live" THEN "freed" ELSE log
    /\ screen' = "freed"
    /\ Use(Error)
    /\ UNCHANGED <<opt, wk, srv, pool, admin, fp, sockets, locks, input, hist>>

\* Faulty variant: the file is left open.
StopServer_Open(t) ==
    /\ At(t, "stop server") /\ Goto(t, "exit")
    /\ heap = Nobody
    /\ srv' = "freed"
    /\ Use({srv})
    /\ UNCHANGED <<opt, wk, screen, pool, admin, log, curses, fp, sockets, locks, input, hist>>

\* delete server closes the file; then exit(0).
StopServer(t) ==
    /\ At(t, "stop server") /\ Goto(t, "exit")
    /\ heap = Nobody
    /\ srv' = "freed"
    /\ fp' = IF fp = "open" THEN "closed" ELSE fp
    /\ Use({srv})
    /\ UNCHANGED <<opt, wk, screen, pool, admin, log, curses, sockets, locks, input, hist>>

Exit(t) ==
    /\ At(t, "exit")
    /\ end' = "exit"
    /\ UNCHANGED <<opt, main, adm, wk, objects, sockets, locks, input, bad, hist>>

-----------------------------------------------------------------------------
MainStep ==
    \/ SelectDisplay \/ ServerBind \/ NewAdmin \/ OpenFile \/ AssignServer \/ NewPool
    \/ StartAsDaemon \/ Listen \/ EndInit \/ Allocate \/ (\E w \in Workers : Spawn(w))
    \/ DrawNew \/ Update \/ EndUpdate
AdminStep == AdminStart \/ AdminFails \/ EndAdminFails \/ AdminCommand
StopStep(t) ==
    \/ StopSocket(t) \/ StopAdmin(t) \/ StopPool(t) \/ StopScreen(t) \/ StopServer(t) \/ Exit(t)

Next ==
    \/ MainStep \/ Accept \/ StopStep(Main) \/ StopStep(Admin)
    \/ \E w \in Workers : Serve(w) \/ EndServe(w)
    \/ AdminStep \/ AdminAccept \/ AdminDone \/ Interrupt
    \/ \E c \in cmds : AdminRead(c)

Spec == Init /\ [][Next]_vars

(***************************************************************************)
(* Fairness: a runnable thread runs (a delete that has to wait for malloc  *)
(* gets its turn), and admin clients do what sawa-client does: connect,    *)
(* send the command and leave.  No connection has to come to the main      *)
(* port, and no request has to end.                                        *)
(***************************************************************************)
FairSpec ==
    /\ Spec
    /\ SF_vars(MainStep)
    /\ \A t \in {Main, Admin} : SF_vars(StopStep(t))
    /\ \A w \in Workers : WF_vars(EndServe(w))
    /\ WF_vars(AdminStep) /\ WF_vars(AdminAccept) /\ WF_vars(AdminDone)
    /\ SF_vars(AdminRead("stop"))

-----------------------------------------------------------------------------
(***************************************************************************)
(* Properties.                                                             *)
(***************************************************************************)
States == {"null", "live", "freed"}

\* Every variable has its type.
TypeOK ==
    /\ opt \in Options
    /\ {screen, srv, pool, admin, log} \subseteq States
    /\ fp \in {"none", "open", "closed"} /\ {curses, bad, early, stopped, served} \subseteq BOOLEAN
    /\ {sock, asock} \subseteq {"none", "bound", "listen", "shut"}
    /\ heap \in {Nobody, Main}
    /\ display_lock \in Workers \cup {Main, Admin, Nobody}
    /\ drawing \subseteq Workers \cup {Main, Admin}
    /\ afds \in 0 .. MaxFds
    /\ end \in {"no", "exit", "fail", "alarm", "crash"}

\* Once main is in its accept loop, and until somebody stops the server, no
\* thread uses an object that is not there.  Outside of that it can happen: a
\* STAT before pool is assigned, a SIGINT before server is, a log that is not
\* open when the admin port is taken, an accept loop that goes on while the pool
\* is deleted.
ObjectsThere == bad => early \/ stopped \/ adm \in {"over", "draw"}

\* The lock keeps the threads that draw apart, but not the main thread while it
\* is in init or in new_thread (or was interrupted there), which draw without.
CursesShared ==
    /\ \A t, u \in drawing \ {Main} : t = u
    /\ drawing # {} /\ main \in {"draw", "accept"} => drawing = {display_lock}

\* A stop of a server that was ready, run to its end without a misuse, has put
\* everything in order: the terminal, the log, the pool and the file.  That takes
\* a server nobody ever connected to: with one thread in the pool, SIGALRM ends
\* the process before the file is closed.
OrderlyExit ==
    end = "exit" /\ ~ bad /\ ~ early =>
      ~ served /\ ~ curses /\ fp = "closed" /\ log # "live" /\ pool = "freed"

\* SIGINT ends the process, unless it interrupts main inside malloc, where the
\* handler's delete waits for ever.
InterruptEnds == sigint ~> ~ Running \/ heap = Main

\* A server that is not a daemon obeys STOP once its admin port is open, as long
\* as it has a descriptor left and no SIGINT comes in between.
StopEnds ==
    ("stop" \in cmds /\ asock = "listen" /\ ~ opt.daemon)
      ~> ~ Running \/ afds = MaxFds \/ sigint

\* "This command is useful when the server started as a daemon": a daemon whose
\* admin port is open obeys STOP.
DaemonObeysStop ==
    ("stop" \in cmds /\ asock = "listen" /\ opt.daemon)
      ~> ~ Running \/ afds = MaxFds \/ sigint
=============================================================================
