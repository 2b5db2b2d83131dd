----------------------------- MODULE SawadProofs ----------------------------
(***************************************************************************)
(* The safety properties of Sawad, for any number of workers, any command  *)
(* lines and any commands.  The invariant says what main has created by    *)
(* the time it is at a label, what a command or a worker that is under way *)
(* tells about main, and how far each of the two stop sequences has come.  *)
(***************************************************************************)
EXTENDS Sawad, TLAPS

StartLabels == {"display", "server", "admin", "file", "assign", "pool", "fork", "listen", "init", "done"}
ReadyLabels == {"accept", "alloc", "spawn", "new", "update", "draw"}
StopLabels == {"stop", "stop admin", "stop pool", "stop screen", "stop server", "exit"}

\* The control states.
LabelInv ==
    /\ main \in StartLabels \cup ReadyLabels \cup StopLabels
    /\ adm \in {"none", "start", "accept", "draw", "over", "lost", "read", "command"} \cup StopLabels
    /\ wk \in [Workers -> {"none", "serve", "draw", "idle"}]

\* What exists once main is ready.
Created ==
    /\ screen # "null" /\ srv # "null" /\ pool # "null" /\ fp # "none"
    /\ opt.daemon => log # "null"

\* What main has created on its way, and that only a stop deletes.
BornInv ==
    /\ main \in ReadyLabels \cup {"init"} => Created
    /\ main \in {"fork", "listen"} => screen # "null" /\ srv # "null" /\ pool # "null" /\ fp # "none"
    /\ main = "pool" => screen # "null" /\ srv # "null" /\ fp # "none"
    /\ main = "assign" => screen # "null" /\ fp # "none"
    /\ main \in {"server", "admin", "file"} => screen # "null"
    /\ ~ stopped => "freed" \notin {screen, srv, pool, admin, log}
    /\ main = "done" => end # "no"
    /\ main \in StopLabels \/ adm \in StopLabels => stopped

\* A command, a worker or a stop that did not come too early found main ready.
AfterInv ==
    /\ ~ early /\ adm \in {"read", "command"} => main \in ReadyLabels \/ stopped
    /\ served <=> \E w \in Workers : wk[w] # "none"
    /\ served => main \in ReadyLabels \/ stopped
    /\ stopped /\ ~ early => Created /\ main \in ReadyLabels \cup StopLabels
    /\ adm # "none" => screen # "null"

\* The one misuse that needs neither: a daemon shows an error in a log that is
\* not open, and crashes.
BadInv == bad => early \/ stopped \/ (end = "crash" /\ adm \in {"over", "draw"})

Stopping(ls) == main \in ls \/ adm \in ls

\* How far a stop has come.
StopInv ==
    ~ bad /\ ~ early /\ end \in {"no", "exit"} =>
      /\ Stopping({"stop screen", "stop server", "exit"}) => pool = "freed"
      /\ Stopping({"stop server", "exit"}) => ~ curses /\ log # "live"
      /\ Stopping({"exit"}) => fp = "closed"
      /\ pool = "freed" => ~ served /\ stopped
      /\ end = "exit" => Stopping({"exit"})

\* Who draws with the lock, and where main draws without it.
DrawInv ==
    /\ \A t \in drawing \ {Main} : display_lock = t
    /\ Main \in drawing => main \in {"init", "new", "draw"} \cup StopLabels
    /\ main = "draw" => display_lock = Main /\ Main \in drawing

IInv ==
    /\ TypeOK /\ LabelInv /\ BornInv /\ AfterInv /\ BadInv /\ StopInv /\ DrawInv

USE ThreadsAssumption

\* The display is there before anybody can use it.
LEMMA SelectDisplayKeeps ==
    ASSUME IInv, SelectDisplay
    PROVE  IInv'
<1> USE DEF IInv, SelectDisplay, Start, Running, Use, Ready, Created, StartLabels, ReadyLabels, StopLabels,
           objects, sockets, locks, input, hist
<1>1. TypeOK' BY DEF TypeOK, States
<1>2. LabelInv' BY DEF LabelInv
<1>3. BornInv' BY DEF TypeOK, LabelInv, BornInv, AfterInv
<1>4. AfterInv' BY DEF TypeOK, LabelInv, BornInv, AfterInv
<1>5. BadInv' BY DEF TypeOK, LabelInv, BornInv, AfterInv, BadInv, Error, Debug
<1>6. StopInv' BY DEF TypeOK, LabelInv, BornInv, AfterInv, StopInv, Stopping, Error, Debug
<1>7. DrawInv' BY DEF TypeOK, LabelInv, DrawInv
<1> QED BY <1>1, <1>2, <1>3, <1>4, <1>5, <1>6, <1>7

\* A server that cannot bind ends the process.
LEMMA ServerBindKeeps ==
    ASSUME IInv, ServerBind
    PROVE  IInv'
<1> USE DEF IInv, ServerBind, Start, Running, Use, Fails, Ready, Created, StartLabels, ReadyLabels, StopLabels,
           objects, sockets, locks, input, hist
<1>1. TypeOK' BY DEF TypeOK, States
<1>2. LabelInv' BY DEF LabelInv
<1>3. BornInv' BY DEF TypeOK, LabelInv, BornInv, AfterInv
<1>4. AfterInv' BY DEF TypeOK, LabelInv, BornInv, AfterInv
<1>5. BadInv' BY DEF TypeOK, LabelInv, BornInv, AfterInv, BadInv, Error, Debug
<1>6. StopInv' BY DEF TypeOK, LabelInv, BornInv, AfterInv, StopInv, Stopping, Error, Debug
<1>7. DrawInv' BY DEF TypeOK, LabelInv, DrawInv
<1> QED BY <1>1, <1>2, <1>3, <1>4, <1>5, <1>6, <1>7

\* The admin thread finds a display.
LEMMA NewAdminKeeps ==
    ASSUME IInv, NewAdmin
    PROVE  IInv'
<1> USE DEF IInv, NewAdmin, Start, Running, Use, Ready, Created, StartLabels, ReadyLabels, StopLabels,
           objects, sockets, locks, input, hist
<1>1. TypeOK' BY DEF TypeOK, States
<1>2. LabelInv' BY DEF LabelInv
<1>3. BornInv' BY DEF TypeOK, LabelInv, BornInv, AfterInv
<1>4. AfterInv' BY DEF TypeOK, LabelInv, BornInv, AfterInv
<1>5. BadInv' BY DEF TypeOK, LabelInv, BornInv, AfterInv, BadInv, Error, Debug
<1>6. StopInv' BY DEF TypeOK, LabelInv, BornInv, AfterInv, StopInv, Stopping, Error, Debug
<1>7. DrawInv' BY DEF TypeOK, LabelInv, DrawInv
<1> QED BY <1>1, <1>2, <1>3, <1>4, <1>5, <1>6, <1>7

\* The file is open before the server is assigned.
LEMMA OpenFileKeeps ==
    ASSUME IInv, OpenFile
    PROVE  IInv'
<1> USE DEF IInv, OpenFile, Start, Running, Use, Fails, Ready, Created, StartLabels, ReadyLabels, StopLabels,
           objects, sockets, locks, input, hist
<1>1. TypeOK' BY DEF TypeOK, States
<1>2. LabelInv' BY DEF LabelInv
<1>3. BornInv' BY DEF TypeOK, LabelInv, BornInv, AfterInv
<1>4. AfterInv' BY DEF TypeOK, LabelInv, BornInv, AfterInv
<1>5. BadInv' BY DEF TypeOK, LabelInv, BornInv, AfterInv, BadInv, Error, Debug
<1>6. StopInv' BY DEF TypeOK, LabelInv, BornInv, AfterInv, StopInv, Stopping, Error, Debug
<1>7. DrawInv' BY DEF TypeOK, LabelInv, DrawInv
<1> QED BY <1>1, <1>2, <1>3, <1>4, <1>5, <1>6, <1>7

\* The server is there before the pool.
LEMMA AssignServerKeeps ==
    ASSUME IInv, AssignServer
    PROVE  IInv'
<1> USE DEF IInv, AssignServer, Start, Running, Use, Ready, Created, StartLabels, ReadyLabels, StopLabels,
           objects, sockets, locks, input, hist
<1>1. TypeOK' BY DEF TypeOK, States
<1>2. LabelInv' BY DEF LabelInv
<1>3. BornInv' BY DEF TypeOK, LabelInv, BornInv, AfterInv
<1>4. AfterInv' BY DEF TypeOK, LabelInv, BornInv, AfterInv
<1>5. BadInv' BY DEF TypeOK, LabelInv, BornInv, AfterInv, BadInv, Error, Debug
<1>6. StopInv' BY DEF TypeOK, LabelInv, BornInv, AfterInv, StopInv, Stopping, Error, Debug
<1>7. DrawInv' BY DEF TypeOK, LabelInv, DrawInv
<1> QED BY <1>1, <1>2, <1>3, <1>4, <1>5, <1>6, <1>7

\* With the pool all is there but the log.
LEMMA NewPoolKeeps ==
    ASSUME IInv, NewPool
    PROVE  IInv'
<1> USE DEF IInv, NewPool, Start, Running, Use, Ready, Created, StartLabels, ReadyLabels, StopLabels,
           objects, sockets, locks, input, hist
<1>1. TypeOK' BY DEF TypeOK, States
<1>2. LabelInv' BY DEF LabelInv
<1>3. BornInv' BY DEF TypeOK, LabelInv, BornInv, AfterInv
<1>4. AfterInv' BY DEF TypeOK, LabelInv, BornInv, AfterInv
<1>5. BadInv' BY DEF TypeOK, LabelInv, BornInv, AfterInv, BadInv, Error, Debug
<1>6. StopInv' BY DEF TypeOK, LabelInv, BornInv, AfterInv, StopInv, Stopping, Error, Debug
<1>7. DrawInv' BY DEF TypeOK, LabelInv, DrawInv
<1> QED BY <1>1, <1>2, <1>3, <1>4, <1>5, <1>6, <1>7

\* The fork loses the admin thread and no object.
LEMMA StartAsDaemonKeeps ==
    ASSUME IInv, StartAsDaemon
    PROVE  IInv'
<1> USE DEF IInv, StartAsDaemon, Start, Running, Use, Fails, Ready, Created, StartLabels, ReadyLabels, StopLabels,
           objects, sockets, locks, input, hist
<1>1. TypeOK' BY DEF TypeOK, States
<1>2. LabelInv' BY DEF LabelInv
<1>3. BornInv' BY DEF TypeOK, LabelInv, BornInv, AfterInv
<1>4. AfterInv' BY DEF TypeOK, LabelInv, BornInv, AfterInv
<1>5. BadInv' BY DEF TypeOK, LabelInv, BornInv, AfterInv, BadInv, Error, Debug
<1>6. StopInv' BY DEF TypeOK, LabelInv, BornInv, AfterInv, StopInv, Stopping, Error, Debug
<1>7. DrawInv' BY DEF TypeOK, LabelInv, DrawInv
<1> QED BY <1>1, <1>2, <1>3, <1>4, <1>5, <1>6, <1>7

\* init opens the log, so that all is there; main draws without the lock.
LEMMA ListenKeeps ==
    ASSUME IInv, Listen
    PROVE  IInv'
<1> USE DEF IInv, Listen, Start, Running, Use, Ready, Created, StartLabels, ReadyLabels, StopLabels,
           objects, sockets, locks, input, hist
<1>1. TypeOK'
  <2>1. Default \in BOOLEAN BY DEF Default
  <2>2. {curses, bad, early, stopped, served}' \subseteq BOOLEAN BY <2>1 DEF TypeOK
  <2>3. {sock, asock}' \subseteq {"none", "bound", "listen", "shut"} BY DEF TypeOK
  <2> QED BY <2>2, <2>3 DEF TypeOK, States
<1>2. LabelInv' BY DEF LabelInv
<1>3. BornInv' BY DEF TypeOK, LabelInv, BornInv, AfterInv
<1>4. AfterInv' BY DEF TypeOK, LabelInv, BornInv, AfterInv
<1>5. BadInv'
  <2> SUFFICES ASSUME bad', ~ early', ~ stopped' PROVE FALSE
    BY DEF BadInv
  <2>1. ~ bad /\ ~ early /\ ~ stopped BY DEF TypeOK, BadInv
  <2>2. screen = "live" /\ srv = "live" BY <2>1 DEF TypeOK, States, LabelInv, BornInv, AfterInv
  <2>3. {screen, srv} = {"live"} BY <2>2 DEF Error, Debug
  <2> QED BY <2>1, <2>3
<1>6. StopInv' BY DEF TypeOK, LabelInv, BornInv, AfterInv, StopInv, Stopping, Error, Debug
<1>7. DrawInv' BY DEF TypeOK, LabelInv, DrawInv
<1> QED BY <1>1, <1>2, <1>3, <1>4, <1>5, <1>6, <1>7

\* main stops drawing before it accepts.
LEMMA EndInitKeeps ==
    ASSUME IInv, EndInit
    PROVE  IInv'
<1> USE DEF IInv, EndInit, Start, Running, Use, Ready, Created, StartLabels, ReadyLabels, StopLabels,
           objects, sockets, locks, input, hist
<1>1. TypeOK' BY DEF TypeOK, States
<1>2. LabelInv' BY DEF LabelInv
<1>3. BornInv' BY DEF TypeOK, LabelInv, BornInv, AfterInv
<1>4. AfterInv' BY DEF TypeOK, LabelInv, BornInv, AfterInv
<1>5. BadInv' BY DEF TypeOK, LabelInv, BornInv, AfterInv, BadInv, Error, Debug
<1>6. StopInv' BY DEF TypeOK, LabelInv, BornInv, AfterInv, StopInv, Stopping, Error, Debug
<1>7. DrawInv' BY DEF TypeOK, LabelInv, DrawInv
<1> QED BY <1>1, <1>2, <1>3, <1>4, <1>5, <1>6, <1>7

\* An accept after the pool is deleted is a misuse.
LEMMA AcceptKeeps ==
    ASSUME IInv, Accept
    PROVE  IInv'
<1> USE DEF IInv, Accept, Start, Running, Use, Ready, Created, StartLabels, ReadyLabels, StopLabels,
           objects, sockets, locks, input, hist
<1>1. TypeOK' BY DEF TypeOK, States
<1>2. LabelInv' BY DEF LabelInv
<1>3. BornInv' BY DEF TypeOK, LabelInv, BornInv, AfterInv
<1>4. AfterInv' BY DEF TypeOK, LabelInv, BornInv, AfterInv
<1>5. BadInv'
  <2> SUFFICES ASSUME bad', ~ early', ~ stopped' PROVE FALSE
    BY DEF BadInv
  <2>1. ~ bad /\ ~ early /\ ~ stopped BY DEF TypeOK, BadInv
  <2>2. screen = "live" /\ pool = "live" /\ (opt.daemon => log = "live") BY <2>1 DEF TypeOK, States, LabelInv, BornInv, AfterInv
  <2>3. Debug \cup {pool} = {"live"} BY <2>2 DEF Error, Debug
  <2> QED BY <2>1, <2>3
<1>6. StopInv' BY DEF TypeOK, LabelInv, BornInv, AfterInv, StopInv, Stopping, Error, Debug
<1>7. DrawInv' BY DEF TypeOK, LabelInv, DrawInv
<1> QED BY <1>1, <1>2, <1>3, <1>4, <1>5, <1>6, <1>7

\* malloc changes no object.
LEMMA AllocateKeeps ==
    ASSUME IInv, Allocate
    PROVE  IInv'
<1> USE DEF IInv, Allocate, Start, Running, Use, Ready, Created, StartLabels, ReadyLabels, StopLabels,
           objects, sockets, locks, input, hist
<1>1. TypeOK' BY DEF TypeOK, States
<1>2. LabelInv' BY DEF LabelInv
<1>3. BornInv' BY DEF TypeOK, LabelInv, BornInv, AfterInv
<1>4. AfterInv' BY DEF TypeOK, LabelInv, BornInv, AfterInv
<1>5. BadInv' BY DEF TypeOK, LabelInv, BornInv, AfterInv, BadInv, Error, Debug
<1>6. StopInv' BY DEF TypeOK, LabelInv, BornInv, AfterInv, StopInv, Stopping, Error, Debug
<1>7. DrawInv' BY DEF TypeOK, LabelInv, DrawInv
<1> QED BY <1>1, <1>2, <1>3, <1>4, <1>5, <1>6, <1>7

\* The first worker comes when main is ready, and never to a deleted pool without a misuse.
LEMMA SpawnKeeps ==
    ASSUME NEW w \in Workers, IInv, Spawn(w)
    PROVE  IInv'
<1> USE DEF IInv, Spawn, Start, Running, Use, Ready, Created, StartLabels, ReadyLabels, StopLabels,
           objects, sockets, locks, input, hist
<1>1. TypeOK' BY DEF TypeOK, States
<1>2. LabelInv' BY DEF LabelInv
<1>3. BornInv' BY DEF TypeOK, LabelInv, BornInv, AfterInv
<1>4. AfterInv' BY DEF TypeOK, LabelInv, BornInv, AfterInv
<1>5. BadInv'
  <2> SUFFICES ASSUME bad', ~ early', ~ stopped' PROVE FALSE
    BY DEF BadInv
  <2>1. ~ bad /\ ~ early /\ ~ stopped BY DEF TypeOK, BadInv
  <2>2. pool = "live" BY <2>1 DEF TypeOK, States, LabelInv, BornInv, AfterInv
  <2>3. {pool} = {"live"} BY <2>2 DEF Error, Debug
  <2> QED BY <2>1, <2>3
<1>6. StopInv' BY DEF TypeOK, LabelInv, BornInv, AfterInv, StopInv, Stopping, Error, Debug
<1>7. DrawInv' BY DEF TypeOK, LabelInv, DrawInv
<1> QED BY <1>1, <1>2, <1>3, <1>4, <1>5, <1>6, <1>7

\* new_thread draws without the lock.
LEMMA DrawNewKeeps ==
    ASSUME IInv, DrawNew
    PROVE  IInv'
<1> USE DEF IInv, DrawNew, Start, Running, Use, Ready, Created, StartLabels, ReadyLabels, StopLabels,
           objects, sockets, locks, input, hist
<1>1. TypeOK' BY DEF TypeOK, States
<1>2. LabelInv' BY DEF LabelInv
<1>3. BornInv' BY DEF TypeOK, LabelInv, BornInv, AfterInv
<1>4. AfterInv' BY DEF TypeOK, LabelInv, BornInv, AfterInv
<1>5. BadInv'
  <2> SUFFICES ASSUME bad', ~ early', ~ stopped' PROVE FALSE
    BY DEF BadInv
  <2>1. ~ bad /\ ~ early /\ ~ stopped BY DEF TypeOK, BadInv
  <2>2. screen = "live" BY <2>1 DEF TypeOK, States, LabelInv, BornInv, AfterInv
  <2>3. {screen} = {"live"} BY <2>2 DEF Error, Debug
  <2> QED BY <2>1, <2>3
<1>6. StopInv' BY DEF TypeOK, LabelInv, BornInv, AfterInv, StopInv, Stopping, Error, Debug
<1>7. DrawInv' BY DEF TypeOK, LabelInv, DrawInv
<1> QED BY <1>1, <1>2, <1>3, <1>4, <1>5, <1>6, <1>7

\* thread_update draws with the lock.
LEMMA UpdateKeeps ==
    ASSUME IInv, Update
    PROVE  IInv'
<1> USE DEF IInv, Update, Start, Running, Use, Lock, Ready, Created, StartLabels, ReadyLabels, StopLabels,
           objects, sockets, locks, input, hist
<1>1. TypeOK' BY DEF TypeOK, States
<1>2. LabelInv' BY DEF LabelInv
<1>3. BornInv' BY DEF TypeOK, LabelInv, BornInv, AfterInv
<1>4. AfterInv'
  <2>1. served' <=> \E w \in Workers : wk'[w] # "none" BY DEF LabelInv, AfterInv
  <2> QED BY <2>1 DEF TypeOK, LabelInv, BornInv, AfterInv
<1>5. BadInv'
  <2> SUFFICES ASSUME bad', ~ early', ~ stopped' PROVE FALSE
    BY DEF BadInv
  <2>1. ~ bad /\ ~ early /\ ~ stopped BY DEF TypeOK, BadInv
  <2>2. screen = "live" BY <2>1 DEF TypeOK, States, LabelInv, BornInv, AfterInv
  <2>3. {screen} = {"live"} BY <2>2 DEF Error, Debug
  <2> QED BY <2>1, <2>3
<1>6. StopInv' BY DEF TypeOK, LabelInv, BornInv, AfterInv, StopInv, Stopping, Error, Debug
<1>7. DrawInv'
  <2>1. CASE Default
    <3>1. drawing \ {Main} = {} BY <2>1 DEF TypeOK, DrawInv
    <3>2. drawing' \ {Main} \subseteq {Main} /\ display_lock' = Main BY <2>1, <3>1
    <3>3. main # "draw" BY <2>1 DEF DrawInv
    <3>4. Main \in drawing' => Main = Main \/ Main \in drawing BY <2>1
    <3> QED BY <2>1, <3>2, <3>3, <3>4 DEF LabelInv, DrawInv
  <2>2. CASE ~ Default BY <2>2 DEF TypeOK, LabelInv, DrawInv
  <2> QED BY <2>1, <2>2
<1> QED BY <1>1, <1>2, <1>3, <1>4, <1>5, <1>6, <1>7

\* The lock is given back.
LEMMA EndUpdateKeeps ==
    ASSUME IInv, EndUpdate
    PROVE  IInv'
<1> USE DEF IInv, EndUpdate, Start, Running, Use, Unlock, Ready, Created, StartLabels, ReadyLabels, StopLabels,
           objects, sockets, locks, input, hist
<1>1. TypeOK' BY DEF TypeOK, States
<1>2. LabelInv' BY DEF LabelInv
<1>3. BornInv' BY DEF TypeOK, LabelInv, BornInv, AfterInv
<1>4. AfterInv' BY DEF TypeOK, LabelInv, BornInv, AfterInv
<1>5. BadInv' BY DEF TypeOK, LabelInv, BornInv, AfterInv, BadInv, Error, Debug
<1>6. StopInv' BY DEF TypeOK, LabelInv, BornInv, AfterInv, StopInv, Stopping, Error, Debug
<1>7. DrawInv' BY DEF TypeOK, LabelInv, DrawInv
<1> QED BY <1>1, <1>2, <1>3, <1>4, <1>5, <1>6, <1>7

\* A worker finds the server and the display, and draws with the lock.
LEMMA ServeKeeps ==
    ASSUME NEW w \in Workers, IInv, Serve(w)
    PROVE  IInv'
<1> USE DEF IInv, Serve, Start, Running, Use, Lock, Ready, Created, StartLabels, ReadyLabels, StopLabels,
           objects, sockets, locks, input, hist
<1>1. TypeOK' BY DEF TypeOK, States
<1>2. LabelInv' BY DEF LabelInv
<1>3. BornInv' BY DEF TypeOK, LabelInv, BornInv, AfterInv
<1>4. AfterInv' BY DEF TypeOK, LabelInv, BornInv, AfterInv
<1>5. BadInv'
  <2> SUFFICES ASSUME bad', ~ early', ~ stopped' PROVE FALSE
    BY DEF BadInv
  <2>1. ~ bad /\ ~ early /\ ~ stopped BY DEF TypeOK, BadInv
  <2>2. srv = "live" /\ screen = "live" BY <2>1 DEF TypeOK, States, LabelInv, BornInv, AfterInv
  <2>3. {srv, screen} = {"live"} BY <2>2 DEF Error, Debug
  <2> QED BY <2>1, <2>3
<1>6. StopInv' BY DEF TypeOK, LabelInv, BornInv, AfterInv, StopInv, Stopping, Error, Debug
<1>7. DrawInv'
  <2>1. CASE Default
    <3>1. drawing \ {Main} = {} BY <2>1 DEF TypeOK, DrawInv
    <3>2. drawing' \ {Main} \subseteq {w} /\ display_lock' = w BY <2>1, <3>1
    <3>3. main # "draw" BY <2>1 DEF DrawInv
    <3>4. Main \in drawing' => w = Main \/ Main \in drawing BY <2>1
    <3> QED BY <2>1, <3>2, <3>3, <3>4 DEF LabelInv, DrawInv
  <2>2. CASE ~ Default BY <2>2 DEF TypeOK, LabelInv, DrawInv
  <2> QED BY <2>1, <2>2
<1> QED BY <1>1, <1>2, <1>3, <1>4, <1>5, <1>6, <1>7

\* The worker gives the lock back.
LEMMA EndServeKeeps ==
    ASSUME NEW w \in Workers, IInv, EndServe(w)
    PROVE  IInv'
<1> USE DEF IInv, EndServe, Start, Running, Use, Unlock, Ready, Created, StartLabels, ReadyLabels, StopLabels,
           objects, sockets, locks, input, hist
<1>1. TypeOK' BY DEF TypeOK, States
<1>2. LabelInv' BY DEF LabelInv
<1>3. BornInv' BY DEF TypeOK, LabelInv, BornInv, AfterInv
<1>4. AfterInv' BY DEF TypeOK, LabelInv, BornInv, AfterInv
<1>5. BadInv' BY DEF TypeOK, LabelInv, BornInv, AfterInv, BadInv, Error, Debug
<1>6. StopInv' BY DEF TypeOK, LabelInv, BornInv, AfterInv, StopInv, Stopping, Error, Debug
<1>7. DrawInv' BY DEF TypeOK, LabelInv, DrawInv
<1> QED BY <1>1, <1>2, <1>3, <1>4, <1>5, <1>6, <1>7

\* The admin port opens.
LEMMA AdminStartKeeps ==
    ASSUME IInv, AdminStart
    PROVE  IInv'
<1> USE DEF IInv, AdminStart, Start, Running, Use, Ready, Created, StartLabels, ReadyLabels, StopLabels,
           objects, sockets, locks, input, hist
<1>1. TypeOK' BY DEF TypeOK, States
<1>2. LabelInv' BY DEF LabelInv
<1>3. BornInv' BY DEF TypeOK, LabelInv, BornInv, AfterInv
<1>4. AfterInv' BY DEF TypeOK, LabelInv, BornInv, AfterInv
<1>5. BadInv' BY DEF TypeOK, LabelInv, BornInv, AfterInv, BadInv, Error, Debug
<1>6. StopInv' BY DEF TypeOK, LabelInv, BornInv, AfterInv, StopInv, Stopping, Error, Debug
<1>7. DrawInv' BY DEF TypeOK, LabelInv, DrawInv
<1> QED BY <1>1, <1>2, <1>3, <1>4, <1>5, <1>6, <1>7

\* Only a daemon without a log goes wrong here, and it crashes.
LEMMA AdminFailsKeeps ==
    ASSUME IInv, AdminFails
    PROVE  IInv'
<1> USE DEF IInv, AdminFails, Start, Running, Use, Lock, Ready, Created, StartLabels, ReadyLabels, StopLabels,
           objects, sockets, locks, input, hist
<1>1. TypeOK' BY DEF TypeOK, States
<1>2. LabelInv' BY DEF LabelInv
<1>3. BornInv' BY DEF TypeOK, LabelInv, BornInv, AfterInv
<1>4. AfterInv' BY DEF TypeOK, LabelInv, BornInv, AfterInv
<1>5. BadInv'
  <2> SUFFICES ASSUME bad', ~ early', ~ stopped' PROVE end' = "crash"
    BY DEF BadInv, LabelInv
  <2>1. ~ bad /\ ~ early /\ ~ stopped BY DEF TypeOK, BadInv
  <2>2. screen = "live" /\ log \in {"null", "live"} BY <2>1 DEF TypeOK, States, LabelInv, BornInv, AfterInv
  <2>3. Error = {"live"} \/ "null" \in Error BY <2>2 DEF Error
  <2>4. CASE Error = {"live"} BY <2>1, <2>4
  <2>5. CASE "null" \in Error
    <3>1. end' \in {"crash"} BY <2>5
    <3> QED BY <3>1
  <2> QED BY <2>3, <2>4, <2>5
<1>6. StopInv' BY DEF TypeOK, LabelInv, BornInv, AfterInv, StopInv, Stopping, Error, Debug
<1>7. DrawInv'
  <2>1. CASE Default
    <3>1. drawing \ {Main} = {} BY <2>1 DEF TypeOK, DrawInv
    <3>2. drawing' \ {Main} \subseteq {Admin} /\ display_lock' = Admin BY <2>1, <3>1
    <3>3. main # "draw" BY <2>1 DEF DrawInv
    <3>4. Main \in drawing' => Admin = Main \/ Main \in drawing BY <2>1
    <3> QED BY <2>1, <3>2, <3>3, <3>4 DEF LabelInv, DrawInv
  <2>2. CASE ~ Default BY <2>2 DEF TypeOK, LabelInv, DrawInv
  <2> QED BY <2>1, <2>2
<1> QED BY <1>1, <1>2, <1>3, <1>4, <1>5, <1>6, <1>7

\* The admin thread gives the lock back.
LEMMA EndAdminFailsKeeps ==
    ASSUME IInv, EndAdminFails
    PROVE  IInv'
<1> USE DEF IInv, EndAdminFails, Start, Running, Use, Unlock, Ready, Created, StartLabels, ReadyLabels, StopLabels,
           objects, sockets, locks, input, hist
<1>1. TypeOK' BY DEF TypeOK, States
<1>2. LabelInv' BY DEF LabelInv
<1>3. BornInv' BY DEF TypeOK, LabelInv, BornInv, AfterInv
<1>4. AfterInv' BY DEF TypeOK, LabelInv, BornInv, AfterInv
<1>5. BadInv' BY DEF TypeOK, LabelInv, BornInv, AfterInv, BadInv, Error, Debug
<1>6. StopInv' BY DEF TypeOK, LabelInv, BornInv, AfterInv, StopInv, Stopping, Error, Debug
<1>7. DrawInv' BY DEF TypeOK, LabelInv, DrawInv
<1> QED BY <1>1, <1>2, <1>3, <1>4, <1>5, <1>6, <1>7

\* A connection before main is ready is an early one.
LEMMA AdminAcceptKeeps ==
    ASSUME IInv, AdminAccept
    PROVE  IInv'
<1> USE DEF IInv, AdminAccept, Start, Running, Use, Ready, Created, StartLabels, ReadyLabels, StopLabels,
           objects, sockets, locks, input, hist
<1>1. TypeOK' BY DEF TypeOK, States
<1>2. LabelInv' BY DEF LabelInv
<1>3. BornInv' BY DEF TypeOK, LabelInv, BornInv, AfterInv
<1>4. AfterInv' BY DEF TypeOK, LabelInv, BornInv, AfterInv
<1>5. BadInv'
  <2> SUFFICES ASSUME bad', ~ early', ~ stopped' PROVE FALSE
    BY DEF BadInv
  <2>1. ~ bad /\ ~ early /\ ~ stopped BY DEF TypeOK, BadInv
  <2>2. screen = "live" /\ (opt.daemon => log = "live") BY <2>1 DEF TypeOK, States, LabelInv, BornInv, AfterInv
  <2>3. Debug = {"live"} BY <2>2 DEF Error, Debug
  <2> QED BY <2>1, <2>3
<1>6. StopInv' BY DEF TypeOK, LabelInv, BornInv, AfterInv, StopInv, Stopping, Error, Debug
<1>7. DrawInv' BY DEF TypeOK, LabelInv, DrawInv
<1> QED BY <1>1, <1>2, <1>3, <1>4, <1>5, <1>6, <1>7

\* A command read before main is ready is an early one.
LEMMA AdminReadKeeps ==
    ASSUME NEW c \in cmds, IInv, AdminRead(c)
    PROVE  IInv'
<1> USE DEF IInv, AdminRead, Start, Running, Use, Ready, Created, StartLabels, ReadyLabels, StopLabels,
           objects, sockets, locks, input, hist
<1>1. TypeOK' BY DEF TypeOK, States
<1>2. LabelInv' BY DEF LabelInv
<1>3. BornInv' BY DEF TypeOK, LabelInv, BornInv, AfterInv
<1>4. AfterInv' BY DEF TypeOK, LabelInv, BornInv, AfterInv
<1>5. BadInv' BY DEF TypeOK, LabelInv, BornInv, AfterInv, BadInv, Error, Debug
<1>6. StopInv' BY DEF TypeOK, LabelInv, BornInv, AfterInv, StopInv, Stopping, Error, Debug
<1>7. DrawInv' BY DEF TypeOK, LabelInv, DrawInv
<1> QED BY <1>1, <1>2, <1>3, <1>4, <1>5, <1>6, <1>7

\* The client leaves.
LEMMA AdminDoneKeeps ==
    ASSUME IInv, AdminDone
    PROVE  IInv'
<1> USE DEF IInv, AdminDone, Start, Running, Use, Ready, Created, StartLabels, ReadyLabels, StopLabels,
           objects, sockets, locks, input, hist
<1>1. TypeOK' BY DEF TypeOK, States
<1>2. LabelInv' BY DEF LabelInv
<1>3. BornInv' BY DEF TypeOK, LabelInv, BornInv, AfterInv
<1>4. AfterInv' BY DEF TypeOK, LabelInv, BornInv, AfterInv
<1>5. BadInv' BY DEF TypeOK, LabelInv, BornInv, AfterInv, BadInv, Error, Debug
<1>6. StopInv' BY DEF TypeOK, LabelInv, BornInv, AfterInv, StopInv, Stopping, Error, Debug
<1>7. DrawInv' BY DEF TypeOK, LabelInv, DrawInv
<1> QED BY <1>1, <1>2, <1>3, <1>4, <1>5, <1>6, <1>7

\* A STAT that is not early finds the pool; a STOP starts the stop sequence.
LEMMA AdminCommandKeeps ==
    ASSUME IInv, AdminCommand
    PROVE  IInv'
<1> USE DEF IInv, AdminCommand, Start, Running, Use, Ready, Created, StartLabels, ReadyLabels, StopLabels,
           objects, sockets, locks, input, hist
<1>1. TypeOK' BY DEF TypeOK, States
<1>2. LabelInv' BY DEF LabelInv
<1>3. BornInv' BY DEF TypeOK, LabelInv, BornInv, AfterInv
<1>4. AfterInv' BY DEF TypeOK, LabelInv, BornInv, AfterInv
<1>5. BadInv'
  <2> SUFFICES ASSUME bad', ~ early', ~ stopped' PROVE FALSE
    BY DEF BadInv
  <2>1. ~ bad /\ ~ early /\ ~ stopped BY DEF TypeOK, BadInv
  <2>2. pool = "live" BY <2>1 DEF TypeOK, States, LabelInv, BornInv, AfterInv
  <2>3. {pool} = {"live"} BY <2>2
  <2> QED BY <2>1, <2>3
<1>6. StopInv' BY DEF TypeOK, LabelInv, BornInv, AfterInv, StopInv, Stopping, Error, Debug
<1>7. DrawInv' BY DEF TypeOK, LabelInv, DrawInv
<1> QED BY <1>1, <1>2, <1>3, <1>4, <1>5, <1>6, <1>7

\* SIGINT takes main to the stop sequence, early if main is not ready.
LEMMA InterruptKeeps ==
    ASSUME IInv, Interrupt
    PROVE  IInv'
<1> USE DEF IInv, Interrupt, Start, Running, Use, Ready, Created, StartLabels, ReadyLabels, StopLabels,
           objects, sockets, locks, input, hist
<1>1. TypeOK' BY DEF TypeOK, States
<1>2. LabelInv' BY DEF LabelInv
<1>3. BornInv' BY DEF TypeOK, LabelInv, BornInv, AfterInv
<1>4. AfterInv' BY DEF TypeOK, LabelInv, BornInv, AfterInv
<1>5. BadInv' BY DEF TypeOK, LabelInv, BornInv, AfterInv, BadInv, Error, Debug
<1>6. StopInv' BY DEF TypeOK, LabelInv, BornInv, AfterInv, StopInv, Stopping, Error, Debug
<1>7. DrawInv' BY DEF TypeOK, LabelInv, DrawInv
<1> QED BY <1>1, <1>2, <1>3, <1>4, <1>5, <1>6, <1>7

\* The stop sequence: the socket.
LEMMA StopSocketKeeps ==
    ASSUME NEW t \in {Main, Admin}, IInv, StopSocket(t)
    PROVE  IInv'
<1> USE DEF IInv, StopSocket, Start, Running, Use, At, Goto, Ready, Created, StartLabels, ReadyLabels, StopLabels,
           objects, sockets, locks, input, hist
<1>1. TypeOK' BY DEF TypeOK, States
<1>2. LabelInv' BY DEF LabelInv
<1>3. BornInv' BY DEF TypeOK, LabelInv, BornInv, AfterInv
<1>4. AfterInv' BY DEF TypeOK, LabelInv, BornInv, AfterInv
<1>5. BadInv' BY DEF TypeOK, LabelInv, BornInv, AfterInv, BadInv, Error, Debug
<1>6. StopInv' BY DEF TypeOK, LabelInv, BornInv, AfterInv, StopInv, Stopping, Error, Debug
<1>7. DrawInv' BY DEF TypeOK, LabelInv, DrawInv
<1> QED BY <1>1, <1>2, <1>3, <1>4, <1>5, <1>6, <1>7

\* The stop sequence: the admin interface.
LEMMA StopAdminKeeps ==
    ASSUME NEW t \in {Main, Admin}, IInv, StopAdmin(t)
    PROVE  IInv'
<1> USE DEF IInv, StopAdmin, Start, Running, Use, At, Goto, Ready, Created, StartLabels, ReadyLabels, StopLabels,
           objects, sockets, locks, input, hist
<1>1. TypeOK' BY DEF TypeOK, States
<1>2. LabelInv' BY DEF LabelInv
<1>3. BornInv' BY DEF TypeOK, LabelInv, BornInv, AfterInv
<1>4. AfterInv' BY DEF TypeOK, LabelInv, BornInv, AfterInv
<1>5. BadInv' BY DEF TypeOK, LabelInv, BornInv, AfterInv, BadInv, Error, Debug
<1>6. StopInv' BY DEF TypeOK, LabelInv, BornInv, AfterInv, StopInv, Stopping, Error, Debug
<1>7. DrawInv' BY DEF TypeOK, LabelInv, DrawInv
<1> QED BY <1>1, <1>2, <1>3, <1>4, <1>5, <1>6, <1>7

\* The stop sequence: the pool, where workers end the process.
LEMMA StopPoolKeeps ==
    ASSUME NEW t \in {Main, Admin}, IInv, StopPool(t)
    PROVE  IInv'
<1> USE DEF IInv, StopPool, Start, Running, Use, At, Goto, Ready, Created, StartLabels, ReadyLabels, StopLabels,
           objects, sockets, locks, input, hist
<1>1. TypeOK' BY DEF TypeOK, States
<1>2. LabelInv' BY DEF LabelInv
<1>3. BornInv' BY DEF TypeOK, LabelInv, BornInv, AfterInv
<1>4. AfterInv' BY DEF TypeOK, LabelInv, BornInv, AfterInv
<1>5. BadInv' BY DEF TypeOK, LabelInv, BornInv, AfterInv, BadInv, Error, Debug
<1>6. StopInv'
  <2> SUFFICES ASSUME ~ bad', ~ early', end' \in {"no", "exit"}
             PROVE  /\ pool' = "freed" /\ ~ served' /\ stopped'
                    /\ Stopping({"stop server", "exit"})' => ~ curses' /\ log' # "live"
                    /\ Stopping({"exit"})' => fp' = "closed"
                    /\ end' = "exit" => Stopping({"exit"})'
    BY DEF StopInv
  <2>1. ~ early /\ stopped BY DEF BornInv
  <2>2. ~ bad BY DEF TypeOK
  <2>3. pool # "null" BY <2>1 DEF AfterInv
  <2>4. ~ (pool = "live" /\ \E w \in Workers : wk[w] # "none") OBVIOUS
  <2>5. Use(Debug \cup {pool}) BY <2>3, <2>4
  <2>6. pool = "live" BY <2>2, <2>5
  <2>7. ~ served BY <2>4, <2>6 DEF AfterInv
  <2>8. pool' = "freed" /\ ~ served' /\ stopped' BY <2>1, <2>3, <2>7
  <2>9. end' = "no" BY <2>5, <2>6 DEF Debug
  <2> QED BY <2>1, <2>2, <2>8, <2>9 DEF TypeOK, LabelInv, StopInv, Stopping
<1>7. DrawInv' BY DEF TypeOK, LabelInv, DrawInv
<1> QED BY <1>1, <1>2, <1>3, <1>4, <1>5, <1>6, <1>7

\* The stop sequence: the terminal and the log.
LEMMA StopScreenKeeps ==
    ASSUME NEW t \in {Main, Admin}, IInv, StopScreen(t)
    PROVE  IInv'
<1> USE DEF IInv, StopScreen, Start, Running, Use, At, Goto, Ready, Created, StartLabels, ReadyLabels, StopLabels,
           objects, sockets, locks, input, hist
<1>1. TypeOK' BY DEF TypeOK, States
<1>2. LabelInv' BY DEF LabelInv
<1>3. BornInv' BY DEF TypeOK, LabelInv, BornInv, AfterInv
<1>4. AfterInv' BY DEF TypeOK, LabelInv, BornInv, AfterInv
<1>5. BadInv' BY DEF TypeOK, LabelInv, BornInv, AfterInv, BadInv, Error, Debug
<1>6. StopInv' BY DEF TypeOK, LabelInv, BornInv, AfterInv, StopInv, Stopping, Error, Debug
<1>7. DrawInv' BY DEF TypeOK, LabelInv, DrawInv
<1> QED BY <1>1, <1>2, <1>3, <1>4, <1>5, <1>6, <1>7

\* The stop sequence: the file.
LEMMA StopServerKeeps ==
    ASSUME NEW t \in {Main, Admin}, IInv, StopServer(t)
    PROVE  IInv'
<1> USE DEF IInv, StopServer, Start, Running, Use, At, Goto, Ready, Created, StartLabels, ReadyLabels, StopLabels,
           objects, sockets, locks, input, hist
<1>1. TypeOK' BY DEF TypeOK, States
<1>2. LabelInv' BY DEF LabelInv
<1>3. BornInv' BY DEF TypeOK, LabelInv, BornInv, AfterInv
<1>4. AfterInv' BY DEF TypeOK, LabelInv, BornInv, AfterInv
<1>5. BadInv' BY DEF TypeOK, LabelInv, BornInv, AfterInv, BadInv, Error, Debug
<1>6. StopInv' BY DEF TypeOK, LabelInv, BornInv, AfterInv, StopInv, Stopping, Error, Debug
<1>7. DrawInv' BY DEF TypeOK, LabelInv, DrawInv
<1> QED BY <1>1, <1>2, <1>3, <1>4, <1>5, <1>6, <1>7

\* The end of the stop sequence.
LEMMA ExitKeeps ==
    ASSUME NEW t \in {Main, Admin}, IInv, Exit(t)
    PROVE  IInv'
<1> USE DEF IInv, Exit, Start, Running, Use, At, Goto, Ready, Created, StartLabels, ReadyLabels, StopLabels,
           objects, sockets, locks, input, hist
<1>1. TypeOK' BY DEF TypeOK, States
<1>2. LabelInv' BY DEF LabelInv
<1>3. BornInv' BY DEF TypeOK, LabelInv, BornInv, AfterInv
<1>4. AfterInv' BY DEF TypeOK, LabelInv, BornInv, AfterInv
<1>5. BadInv' BY DEF TypeOK, LabelInv, BornInv, AfterInv, BadInv, Error, Debug
<1>6. StopInv' BY DEF TypeOK, LabelInv, BornInv, AfterInv, StopInv, Stopping, Error, Debug
<1>7. DrawInv' BY DEF TypeOK, LabelInv, DrawInv
<1> QED BY <1>1, <1>2, <1>3, <1>4, <1>5, <1>6, <1>7


\* Nothing exists yet and nobody has asked for anything.
LEMMA InitIInv == Init => IInv
<1> SUFFICES ASSUME Init PROVE IInv
  OBVIOUS
<1> USE DEF Init, StartLabels, ReadyLabels, StopLabels
<1>1. TypeOK
  <2>1. {curses, bad, early, stopped, served} \subseteq BOOLEAN OBVIOUS
  <2>2. {screen, srv, pool, admin, log} \subseteq States BY DEF States
  <2>3. afds \in 0 .. MaxFds OBVIOUS
  <2> QED BY <2>1, <2>2, <2>3 DEF TypeOK
<1>2. LabelInv BY DEF LabelInv
<1>3. BornInv BY DEF BornInv, Created
<1>4. AfterInv BY DEF AfterInv, Created
<1>5. BadInv BY DEF BadInv
<1>6. StopInv BY DEF StopInv, Stopping
<1>7. DrawInv BY DEF DrawInv
<1> QED BY <1>1, <1>2, <1>3, <1>4, <1>5, <1>6, <1>7 DEF IInv

\* A step that changes nothing.
LEMMA StutterKeeps ==
    ASSUME IInv, UNCHANGED vars
    PROVE  IInv'
<1> USE DEF IInv, vars, objects, sockets, locks, input, hist
<1>1. TypeOK' BY DEF TypeOK
<1>2. LabelInv' BY DEF LabelInv
<1>3. BornInv' BY DEF BornInv, Created
<1>4. AfterInv' BY DEF AfterInv, Created
<1>5. BadInv' BY DEF BadInv
<1>6. StopInv' BY DEF StopInv, Stopping
<1>7. DrawInv' BY DEF DrawInv
<1> QED BY <1>1, <1>2, <1>3, <1>4, <1>5, <1>6, <1>7

\* Every step keeps the invariant.
LEMMA NextIInv == IInv /\ [Next]_vars => IInv'
<1> SUFFICES ASSUME IInv, [Next]_vars PROVE IInv'
  OBVIOUS
<1>1. CASE MainStep
  BY <1>1, SelectDisplayKeeps, ServerBindKeeps, NewAdminKeeps, OpenFileKeeps, AssignServerKeeps,
     NewPoolKeeps, StartAsDaemonKeeps, ListenKeeps, EndInitKeeps, AllocateKeeps, SpawnKeeps,
     DrawNewKeeps, UpdateKeeps, EndUpdateKeeps DEF MainStep
<1>2. ASSUME NEW t \in {Main, Admin}, StopStep(t) PROVE IInv'
  BY <1>2, StopSocketKeeps, StopAdminKeeps, StopPoolKeeps, StopScreenKeeps, StopServerKeeps,
     ExitKeeps DEF StopStep
<1>3. CASE AdminStep
  BY <1>3, AdminStartKeeps, AdminFailsKeeps, EndAdminFailsKeeps, AdminCommandKeeps DEF AdminStep
<1>4. CASE \E w \in Workers : Serve(w) \/ EndServe(w)
  BY <1>4, ServeKeeps, EndServeKeeps
<1>5. CASE \E c \in cmds : AdminRead(c)
  BY <1>5, AdminReadKeeps
<1>6. CASE Accept \/ AdminAccept \/ AdminDone \/ Interrupt
  BY <1>6, AcceptKeeps, AdminAcceptKeeps, AdminDoneKeeps, InterruptKeeps
<1>7. CASE UNCHANGED vars
  BY <1>7, StutterKeeps
<1> QED BY <1>1, <1>2, <1>3, <1>4, <1>5, <1>6, <1>7 DEF Next

\* The invariant holds in every state of every sawad process.
THEOREM Invariance == Spec => []IInv
<1> QED BY InitIInv, NextIInv, PTL DEF Spec

\* Every variable of Sawad keeps its type; in particular admin connections never
\* use more descriptors than there are.
THEOREM TypeCorrect == Spec => []TypeOK
<1>1. IInv => TypeOK BY DEF IInv
<1> QED BY <1>1, Invariance, PTL

\* Between the moment main is in its accept loop and the first stop, no thread
\* uses a display, server, pool or log that is not there.
THEOREM ObjectsAreThere == Spec => []ObjectsThere
<1>1. IInv => ObjectsThere BY DEF IInv, BadInv, ObjectsThere
<1> QED BY <1>1, Invariance, PTL

\* display_lock keeps the workers and the admin thread apart inside curses, and
\* keeps main apart from them in thread_update and in the accept loop.
THEOREM CursesAreShared == Spec => []CursesShared
<1>1. ASSUME IInv PROVE CursesShared
  <2>1. \A t, u \in drawing \ {Main} : t = u BY <1>1 DEF IInv, DrawInv
  <2>2. ASSUME drawing # {}, main \in {"draw", "accept"} PROVE drawing = {display_lock}
    <3>1. \A t \in drawing : display_lock = t
      BY <1>1, <2>2 DEF IInv, DrawInv, StopLabels
    <3> QED BY <2>2, <3>1
  <2> QED BY <2>1, <2>2 DEF CursesShared
<1> QED BY <1>1, Invariance, PTL

\* A stop of a ready server that ends with exit, without a misuse, has restored
\* the terminal and closed the log and the file; and no worker ever existed.
THEOREM OrderlyStop == Spec => []OrderlyExit
<1>1. IInv => OrderlyExit
  BY DEF IInv, StopInv, Stopping, OrderlyExit
<1> QED BY <1>1, Invariance, PTL

=============================================================================
