-------------------------------- MODULE Towa --------------------------------
(***************************************************************************)
(* ToWa: the manager inside sawad (towa_mgr.cpp), the two named pipes      *)
(* (towa_ipc.cpp) and the application pool process (towa.cpp,              *)
(* towa_app_pool.cpp).  The threads of the web server call                 *)
(* TowaMgr::sendMsg: they check that the towa process is there, launch it  *)
(* if not, write the request to towa_ping and read the answer from         *)
(* towa_pong.  No lock protects the manager, the pid or the two FILE       *)
(* pointers, which are members that every call overwrites.                 *)
(*                                                                         *)
(* A FILE is named by the thread that opened it.  open() on a FIFO waits   *)
(* for the other end; a FIFO that nobody has open loses its bytes; writing *)
(* to one without a reader is SIGPIPE, reading one without a writer is end *)
(* of file.  stdio reads all there is: what follows the first message is   *)
(* thrown away by fclose.                                                  *)
(***************************************************************************)
EXTENDS Integers, Sequences, FiniteSets

CONSTANTS
    Threads,     \* the threads of the web server
    Main,        \* its main thread, which runs the constructors
    Towas,       \* bound: the processes that can be launched
    None,        \* no thread, no process, no answer
    Faults       \* can towa and the JVM inside it die?

VARIABLES
    tw,                  \* where each thread is in TowaMgr::sendMsg
    tmsg, tans,          \* its request and its answer
    pid,                 \* TowaMgr::pid
    proc, job,           \* the towa processes; what each works on
    ping, pong,          \* bytes in the two FIFOs: sequences of messages
    fp_ping, fp_pong,    \* TowaPipe::fp_ping and fp_pong of the server
    wfiles, rfiles,      \* the FILEs open on towa_ping, on towa_pong
    war,                 \* the web application: "packed", "unpacking", "dir"
    down,                \* how the server ended, "no" if it did not
    \* History.
    overlap,             \* two threads were inside sendMsg together
    died                 \* a towa process died

pipes == <<ping, pong, fp_ping, fp_pong, wfiles, rfiles>>
twvars == <<tw, tmsg, tans, pid, proc, job, pipes, war, down, overlap, died>>

Callers == Threads \cup {Main}
Up == down = "no"

\* A request asks for a class; an answer has the request it was computed for.
TowaInit(flag) ==
    /\ tw = [t \in Callers |-> IF t = Main /\ flag THEN "start" ELSE "out"]
    /\ tmsg = [t \in Callers |-> None] /\ tans = [t \in Callers |-> None]
    /\ pid = None
    /\ proc = [p \in Towas |-> "none"] /\ job = [p \in Towas |-> None]
    /\ ping = <<>> /\ pong = <<>>
    /\ fp_ping = None /\ fp_pong = None /\ wfiles = {} /\ rfiles = {}
    /\ war \in IF flag THEN {"packed", "dir"} ELSE {"dir"}
    /\ down = "no" /\ overlap = FALSE /\ died = FALSE

InSend == {t \in Threads : tw[t] # "out"}
Alive(p) == proc[p] \in {"boot", "ping", "reading", "serve", "pong", "writing"}
PingReaders == {p \in Towas : proc[p] = "reading"}
PongWriters == {p \in Towas : proc[p] = "writing"}
Step(t, from, to) == Up /\ tw[t] = from /\ tw' = [tw EXCEPT ![t] = to]

-----------------------------------------------------------------------------
(***************************************************************************)
(* TowaMgr.                                                                *)
(***************************************************************************)
\* TowaMgr::sendMsg is called.
SendMsg(t, m) ==
    /\ Step(t, "out", "check")
    /\ tmsg' = [tmsg EXCEPT ![t] = m] /\ tans' = [tans EXCEPT ![t] = None]
    /\ overlap' = (overlap \/ InSend # {})
    /\ UNCHANGED <<pid, proc, job, pipes, war, down, died>>

\* Faulty variant: check takes 0 for an error.
Check_Zero(t) ==
    /\ Step(t, "check", "start")
    /\ proc' = [proc EXCEPT ![pid] = IF @ = "zombie" THEN "gone" ELSE @]
    /\ UNCHANGED <<tmsg, tans, pid, job, pipes, war, down, overlap, died>>

\* check: waitpid(pid, WNOHANG) is 0 for a live child, the pid for a dead one,
\* which it reaps, and -1 for one reaped before: the last two launch again.
Check(t) ==
    /\ Step(t, "check", IF Alive(pid) THEN "ping" ELSE "start")
    /\ proc' = [proc EXCEPT ![pid] = IF @ = "zombie" THEN "gone" ELSE @]
    /\ UNCHANGED <<tmsg, tans, pid, job, pipes, war, down, overlap, died>>

\* start, scanClasspath: a war without a directory is given to unzip.
Scan(t) ==
    /\ Step(t, "start", "xml")
    /\ war' = IF war = "packed" THEN "unpacking" ELSE war
    /\ UNCHANGED <<tmsg, tans, pid, proc, job, pipes, down, overlap, died>>

\* unzip was started with popen and nobody waits for it.
Unzip ==
    /\ Up /\ war = "unpacking" /\ war' = "dir"
    /\ UNCHANGED <<tw, tmsg, tans, pid, proc, job, pipes, down, overlap, died>>

\* readWebXML: without web.xml, FirstChildElement returns null and is used.
ReadWebXML(t) ==
    /\ Step(t, "xml", "launch")
    /\ down' = IF war = "dir" THEN down ELSE "web.xml"
    /\ UNCHANGED <<tmsg, tans, pid, proc, job, pipes, war, overlap, died>>

\* launchAppPool: fork and execv.
Launch(t) ==
    /\ Step(t, "launch", "wait")
    /\ \E p \in Towas : proc[p] = "none"
    /\ pid' = CHOOSE p \in Towas : proc[p] = "none"
    /\ proc' = [proc EXCEPT ![pid'] = "boot"]
    /\ UNCHANGED <<tmsg, tans, job, pipes, war, down, overlap, died>>

\* Faulty variant: a child that runs is taken for one that failed.
LaunchWait_Zero(t) ==
    /\ Step(t, "wait", IF t = Main THEN "out" ELSE "ping")
    /\ down' = IF Alive(pid) THEN "spawn" ELSE down
    /\ UNCHANGED <<tmsg, tans, pid, proc, job, pipes, war, overlap, died>>

\* Its waitpid: a child that is already dead is an exception.  main catches
\* it in the constructor; nobody catches it in a thread.
LaunchWait(t) ==
    /\ Step(t, "wait", IF t = Main THEN "out" ELSE "ping")
    /\ proc' = [proc EXCEPT ![pid] = IF @ = "zombie" THEN "gone" ELSE @]
    /\ down' = IF Alive(pid) THEN down ELSE "spawn"
    /\ UNCHANGED <<tmsg, tans, pid, job, pipes, war, overlap, died>>

-----------------------------------------------------------------------------
(***************************************************************************)
(* TowaPipe::sendMsg.                                                      *)
(***************************************************************************)
\* The bytes of a FIFO that nobody has open are gone.
Keep(open, bytes) == IF open THEN bytes ELSE <<>>

\* fopen(towa_ping, "w") waits for a reader, and a reader for it.
OpenPing(t) ==
    /\ Step(t, "ping", "write")
    /\ \E p \in Towas : proc[p] \in {"ping", "reading"}
    /\ proc' = [p \in Towas |-> IF proc[p] = "ping" THEN "reading" ELSE proc[p]]
    /\ wfiles' = wfiles \cup {t} /\ fp_ping' = t
    /\ UNCHANGED <<tmsg, tans, pid, job, ping, pong, fp_pong, rfiles, war, down, overlap, died>>

\* Faulty variant: fclose is forgotten, and with it the bytes.
WritePing_NoClose(t) ==
    /\ Step(t, "write", "pong")
    /\ UNCHANGED <<tmsg, tans, pid, proc, job, pipes, war, down, overlap, died>>

\* sendTo and fclose: the bytes go out with fclose, through the FILE that
\* fp_ping names by then.  A FILE closed before is undefined behaviour.
WritePing(t) ==
    /\ Step(t, "write", "pong")
    /\ \/ /\ fp_ping \in wfiles /\ PingReaders # {}
          /\ ping' = Append(ping, tmsg[t]) /\ wfiles' = wfiles \ {fp_ping}
          /\ UNCHANGED down
       \/ /\ fp_ping \in wfiles /\ PingReaders = {}
          /\ down' = "sigpipe" /\ UNCHANGED <<ping, wfiles>>
       \/ /\ fp_ping \notin wfiles
          /\ down' \in {"no", "fclose"} /\ UNCHANGED <<ping, wfiles>>
    /\ UNCHANGED <<tmsg, tans, pid, proc, job, pong, fp_ping, fp_pong, rfiles, war, overlap, died>>

\* fopen(towa_pong, "r") waits for a writer.
OpenPong(t) ==
    /\ Step(t, "pong", "read")
    /\ \E p \in Towas : proc[p] \in {"pong", "writing"}
    /\ proc' = [p \in Towas |-> IF proc[p] = "pong" THEN "writing" ELSE proc[p]]
    /\ rfiles' = rfiles \cup {t} /\ fp_pong' = t
    /\ UNCHANGED <<tmsg, tans, pid, job, ping, pong, fp_ping, wfiles, war, down, overlap, died>>

\* Faulty variant: the answer stays in the pipe.
ReadPong_Keep(t) ==
    /\ Step(t, "read", "out")
    /\ fp_pong \in rfiles /\ pong # <<>>
    /\ tans' = [tans EXCEPT ![t] = Head(pong)] /\ tmsg' = [tmsg EXCEPT ![t] = None]
    /\ rfiles' = rfiles \ {fp_pong}
    /\ UNCHANGED <<pid, proc, job, ping, pong, fp_ping, fp_pong, wfiles, war, down, overlap, died>>

\* Message(fp_pong, true) and fclose.  At end of file size is 0, then -1, and
\* the allocation throws in a thread that does not catch.
ReadPong(t) ==
    /\ Step(t, "read", "out")
    /\ \/ /\ fp_pong \in rfiles /\ pong # <<>>
          /\ tans' = [tans EXCEPT ![t] = Head(pong)] /\ tmsg' = [tmsg EXCEPT ![t] = None]
          /\ pong' = <<>> /\ rfiles' = rfiles \ {fp_pong}
          /\ UNCHANGED down
       \/ /\ fp_pong \in rfiles /\ pong = <<>> /\ PongWriters = {}
          /\ down' = "bad_alloc" /\ UNCHANGED <<tmsg, tans, pong, rfiles>>
       \/ /\ fp_pong \notin rfiles
          /\ down' = "fclose" /\ UNCHANGED <<tmsg, tans, pong, rfiles>>
    /\ UNCHANGED <<pid, proc, job, ping, fp_ping, fp_pong, wfiles, war, overlap, died>>

-----------------------------------------------------------------------------
(***************************************************************************)
(* The towa process: TowaAppPool, then listenToMsg for ever.               *)
(***************************************************************************)
Goes(p, from, to) == Up /\ proc[p] = from /\ proc' = [proc EXCEPT ![p] = to]

Boot(p) ==
    /\ Goes(p, "boot", "ping")
    /\ UNCHANGED <<tw, tmsg, tans, pid, job, pipes, war, down, overlap, died>>

\* The process ends: its ends of the pipes are closed.
Dies(p) == proc' = [proc EXCEPT ![p] = "zombie"] /\ died' = TRUE

Die(p) ==
    /\ Up /\ Faults /\ Alive(p)
    /\ Dies(p)
    /\ ping' = Keep(wfiles # {} \/ PingReaders \ {p} # {}, ping)
    /\ pong' = Keep(rfiles # {} \/ PongWriters \ {p} # {}, pong)
    /\ UNCHANGED <<tw, tmsg, tans, pid, job, fp_ping, fp_pong, wfiles, rfiles, war, down, overlap>>

\* Message(fp_ping) and fclose; an empty message at end of file.
ReadPing(p) ==
    /\ Goes(p, "reading", "serve")
    /\ ping # <<>> \/ wfiles = {}
    /\ job' = [job EXCEPT ![p] = IF ping = <<>> THEN None ELSE Head(ping)]
    /\ ping' = <<>>
    /\ UNCHANGED <<tw, tmsg, tans, pid, pong, fp_ping, fp_pong, wfiles, rfiles, war, down, overlap, died>>

(***************************************************************************)
(* TowaAppPool::processRequest.  A servlet answers 200, or 500 when it     *)
(* throws; without any output the answer is a null pointer, as it is for   *)
(* an empty message.  For a class that is not there FindClass returns      *)
(* NULL, and its use is a SIGSEGV whose handler throws: undefined, with    *)
(* 404 or 500 if one of the catch clauses gets it.                         *)
(***************************************************************************)
Outcomes(m) ==
    {None} \cup (IF m = None THEN {} ELSE
                  [for : {m}, code : IF m.path = "missing" THEN {404, 500} ELSE {200, 500}])

Serve(p) ==
    /\ Goes(p, "serve", "pong")
    /\ \E a \in Outcomes(job[p]) : job' = [job EXCEPT ![p] = a]
    /\ UNCHANGED <<tw, tmsg, tans, pid, pipes, war, down, overlap, died>>

\* fopen(towa_pong, "w") is OpenPong's other half.  sendTo on a null pointer is
\* a SIGSEGV, and a FIFO without a reader is SIGPIPE: towa ends.
WritePong(p) ==
    /\ Up
    /\ IF job[p] = None \/ rfiles = {}
         THEN /\ proc[p] = "writing" /\ Dies(p)
              /\ UNCHANGED pong
         ELSE /\ Goes(p, "writing", "ping") /\ UNCHANGED died
              /\ pong' = Append(pong, job[p])
    /\ job' = [job EXCEPT ![p] = None]
    /\ UNCHANGED <<tw, tmsg, tans, pid, ping, fp_ping, fp_pong, wfiles, rfiles, war, down, overlap>>

\* A FIFO open that was waiting when the other side already had the pipe open.
JoinPing(p) ==
    /\ Goes(p, "ping", "reading") /\ wfiles # {}
    /\ UNCHANGED <<tw, tmsg, tans, pid, job, pipes, war, down, overlap, died>>

JoinPong(p) ==
    /\ Goes(p, "pong", "writing") /\ rfiles # {}
    /\ UNCHANGED <<tw, tmsg, tans, pid, job, pipes, war, down, overlap, died>>

MgrStep(t) ==
    \/ Check(t) \/ Scan(t) \/ ReadWebXML(t) \/ Launch(t) \/ LaunchWait(t)
    \/ OpenPing(t) \/ WritePing(t) \/ OpenPong(t) \/ ReadPong(t)
TowaStep(p) ==
    \/ Boot(p) \/ ReadPing(p) \/ Serve(p) \/ WritePong(p) \/ JoinPing(p) \/ JoinPong(p)
TowaNext ==
    \/ \E t \in Callers : MgrStep(t)
    \/ \E p \in Towas : TowaStep(p) \/ Die(p)
    \/ Unzip

-----------------------------------------------------------------------------
\* As long as one thread at a time is in sendMsg, at most one towa process runs:
\* check launches one only when the last one was found dead.
OneTowa == ~ overlap => Cardinality({p \in Towas : Alive(p)}) <= 1
=============================================================================
