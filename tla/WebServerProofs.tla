--------------------------- MODULE WebServerProofs --------------------------
(***************************************************************************)
(* The safety properties of WebServer and Towa, for any threads, scripts,  *)
(* files and buffer length, and any number of towa processes.              *)
(*                                                                         *)
(* WebInv is about the connections and the files and does not look at      *)
(* Towa; TowaInv is about sendMsg, the two pipes and the towa processes.   *)
(* What ties them is where a thread is.                                    *)
(***************************************************************************)
EXTENDS WebServer, FiniteSetTheorems, SequenceTheorems, TLAPS

FileLabels == {"found?", "stat", "load", "store", "send"}
Working == {"lookup", "call", "answer"} \cup FileLabels
Labels == {"accept", "read", "parse", "closed"} \cup Working

Units == [req : Nat, unit : Nat]
Messages == [path : STRING, from : Threads, of : Nat]
Results == [for : Messages, code : Nat]
Parseds == [path : STRING, of : Nat, keep : BOOLEAN]
Keys == STRING \cup {Index(p) : p \in STRING}
Looks == [key : Keys, file : {None} \cup Contents, stat : {None} \cup FileStates]
Replies == [of : Nat, code : Nat, body : {None} \cup Contents \cup Results]

-----------------------------------------------------------------------------
(***************************************************************************)
(* The invariant.                                                          *)
(***************************************************************************)
ConnType ==
    /\ towa_flag \in BOOLEAN
    /\ th \in [Threads -> Labels]
    /\ todo \in [Threads -> Seq(Requests)] /\ asked \in [Threads -> Seq(Requests)]
    /\ wire \in [Threads -> Seq(Units)] /\ top \in [Threads -> Seq(Units)]
    /\ parts \in [Threads -> Nat]
    /\ req \in [Threads -> {None} \cup Parseds]
    /\ out \in [Threads -> Seq(Replies)]
    /\ cut \subseteq Threads /\ lost \subseteq Threads

FileType ==
    /\ cache \in [DOMAIN cache -> Contents]
    /\ look \in [Threads -> {None} \cup Looks]
    /\ fs \in [DOMAIN Files -> FileStates]
    /\ was \in [DOMAIN Files -> SUBSET Contents]
    /\ changes \in Nat

\* Where a thread can be in each mode, and what it has there.
PlaceOK(t) ==
    /\ towa_flag => th[t] \notin {"lookup"} \cup FileLabels
    /\ ~ towa_flag => th[t] \notin {"call", "answer"}
    /\ th[t] = "read" => parts[t] >= 1
    /\ th[t] = "parse" \/ (th[t] = "read" /\ parts[t] # 1) => top[t] # <<>>
    /\ th[t] \in Working => req[t] \in Parseds
    /\ th[t] \in FileLabels => look[t] \in Looks

\* Units, parsed requests and answers belong to requests the client has sent.
SentOK(t) ==
    /\ \A i \in 1 .. Len(wire[t]) : wire[t][i].req \in 1 .. Len(asked[t])
    /\ \A i \in 1 .. Len(top[t]) : top[t][i].req \in 1 .. Len(asked[t])
    /\ \A i \in 1 .. Len(out[t]) : out[t][i].of \in 1 .. Len(asked[t])
    /\ th[t] \in Working =>
         req[t].of \in 1 .. Len(asked[t]) /\ req[t].path = asked[t][req[t].of].path

\* On a connection that was not cut, the wire holds the one request that is not
\* answered yet, as a whole, or the thread has it.
OrderOK(t) ==
    t \notin cut =>
      /\ \A i \in 1 .. Len(out[t]) : out[t][i].of = i
      /\ Len(out[t]) <= Len(asked[t]) /\ Len(asked[t]) <= Len(out[t]) + 1
      /\ wire[t] # <<>> =>
           /\ th[t] = "read" /\ parts[t] = 1 /\ Len(asked[t]) = Len(out[t]) + 1
           /\ Len(wire[t]) = asked[t][Len(asked[t])].len
           /\ \A i \in 1 .. Len(wire[t]) : wire[t][i] = [req |-> Len(asked[t]), unit |-> i]
      /\ Len(asked[t]) = Len(out[t]) =>
           th[t] \in {"accept", "read", "closed"} /\ (th[t] = "read" => parts[t] = 1)
      /\ th[t] = "accept" => Len(asked[t]) = 0
      /\ th[t] = "parse" => top[t][1].req = Len(asked[t])
      /\ th[t] \in Working => req[t].of = Len(asked[t])

\* A second buffer is there only for a request that fills the first.
BufferOK(t) == parts[t] > 1 \/ t \in lost => FillsBuffer(t)

\* c is something that file k has contained, or was read while k changed.
Held(c, k) == c \in was[k] \/ (changes > 0 /\ c = "garbage")
\* There is no file to answer with.
Absent(p) == p \notin Paths \/ (fs[p].ox /\ Index(p) \notin Paths)

\* What getFile holds.
LookOK(t) ==
    /\ th[t] \in {"found?", "stat"} => look[t].key = req[t].path /\ look[t].file = None
    /\ th[t] \in {"load", "store"} => look[t].key \in {req[t].path, Index(req[t].path)} \cap Paths
    /\ th[t] = "load" /\ changes = 0 => look[t].stat = fs[look[t].key]
    /\ th[t] = "load" => look[t].stat \in FileStates /\ look[t].stat.kind # "none"
    /\ th[t] = "store" => look[t].file # None /\ Held(look[t].file, look[t].key)
    /\ th[t] = "send" /\ look[t].file # None =>
         \E k \in {req[t].path, Index(req[t].path)} \cap Paths : Held(look[t].file, k)
    /\ th[t] = "send" /\ look[t].file = None /\ changes = 0 => Absent(req[t].path)

\* FilesServed, for one connection.
ServedOK(t) ==
    \A i \in 1 .. Len(out[t]) : LET p == asked[t][out[t][i].of].path IN
      /\ ~ towa_flag /\ out[t][i].code = 200 =>
           \E k \in {p, Index(p)} \cap Paths : Held(out[t][i].body, k)
      /\ out[t][i].code = 404 /\ changes = 0 => Absent(p)

ThreadOK(t) ==
    PlaceOK(t) /\ SentOK(t) /\ OrderOK(t) /\ BufferOK(t) /\ LookOK(t) /\ ServedOK(t)

\* The cache and the history of the files.
CacheInv ==
    /\ \A k \in DOMAIN cache : k \in Paths /\ Held(cache[k], k)
    /\ \A p \in Paths : Content(fs[p]) \in was[p]
    /\ changes = 0 => fs = Files

WebInv == ConnType /\ FileType /\ CacheInv /\ \A t \in Threads : ThreadOK(t)

-----------------------------------------------------------------------------
Launching == {"start", "xml", "launch"}
MgrLabels == {"check", "wait", "ping", "write", "pong", "read"} \cup Launching
Dead == {"none", "zombie", "gone"}
ProcLabels == Dead \cup {"boot", "ping", "reading", "serve", "pong", "writing"}

TowaType ==
    /\ tw \in [Callers -> MgrLabels \cup {"out"}]
    /\ tmsg \in [Callers -> {None} \cup Messages] /\ tans \in [Callers -> {None} \cup Results]
    /\ proc \in [Towas -> ProcLabels]
    /\ job \in [Towas -> {None} \cup Messages \cup Results]
    /\ ping \in Seq(Messages) /\ pong \in Seq(Results)
    /\ wfiles \subseteq Callers /\ rfiles \subseteq Callers
    /\ overlap \in BOOLEAN /\ died \in BOOLEAN
    /\ \A p \in Towas : proc[p] \in {"serve"} => job[p] \in {None} \cup Messages
    /\ \A p \in Towas : proc[p] \in {"pong", "writing"} => job[p] \in {None} \cup Results

\* A thread is in sendMsg exactly between its call and its answer; main is done
\* with its launch before the first connection.
CallerInv ==
    /\ tw[Main] \in Launching \cup {"wait", "out"}
    /\ tw[Main] # "out" => \A t \in Threads : th[t] = "accept"
    /\ \A t \in Threads :
         /\ tw[t] # "out" => th[t] = "answer" /\ tmsg[t] \in Messages
                             /\ tmsg[t].from = t /\ tmsg[t].of = req[t].of
         /\ th[t] = "answer" /\ tw[t] = "out" /\ Up => tans[t] \in Results
    /\ (towa_flag /\ tw[Main] = "out") \/ tw[Main] = "wait" => pid \in Towas

\* A process ends only by dying.
DeathInv == \A p \in Towas : proc[p] \in {"zombie", "gone"} => died

\* Without overlap there is one caller, and one process: the one pid names.
SingleInv ==
    ~ overlap =>
      /\ \A t, u \in Callers : tw[t] # "out" /\ tw[u] # "out" => t = u
      /\ \A p \in Towas : Alive(p) => p = pid
      /\ \A t \in Callers : tw[t] \in Launching => \A p \in Towas : ~ Alive(p)

Quiet == ping = <<>> /\ pong = <<>> /\ wfiles = {} /\ rfiles = {}
AnswerFor(j, t) == j = None \/ (j \in Results /\ j.for = tmsg[t])

\* Where the process and the pipes are when the caller t is at a label.
Between == {"boot", "ping", "zombie", "gone"}
Exchange(t) ==
    LET q == proc[pid] IN
    /\ tw[t] \in {"check", "wait", "ping"} => Quiet /\ q \in Between
    /\ tw[t] \in Launching => Quiet
    /\ tw[t] = "write" =>
         /\ ping = <<>> /\ pong = <<>> /\ rfiles = {}
         /\ wfiles = {t} /\ fp_ping = t
         /\ q \in {"reading", "zombie"}
    /\ tw[t] = "pong" =>
         /\ pong = <<>> /\ wfiles = {} /\ rfiles = {}
         /\ q \in {"reading", "serve", "pong", "zombie"}
         /\ ping = IF q = "reading" THEN <<tmsg[t]>> ELSE <<>>
         /\ q = "serve" => job[pid] = tmsg[t]
         /\ q = "pong" => AnswerFor(job[pid], t)
    /\ tw[t] = "read" =>
         /\ ping = <<>> /\ wfiles = {} /\ rfiles = {t} /\ fp_pong = t
         /\ q \in {"writing", "ping", "zombie"}
         /\ q = "writing" => pong = <<>> /\ AnswerFor(job[pid], t)
         /\ q = "ping" => pong # <<>>
         /\ pong # <<>> => Head(pong).for = tmsg[t]

\* Nobody is in sendMsg.
Idle == Quiet /\ (pid \in Towas => proc[pid] \in Between)

\* The thread t has its answer.
HasAnswer(t) == tans[t].for.from = t /\ tans[t].for.of = req[t].of

\* The exchange of one caller with one process, as long as nothing overlaps.
ExchangeInv ==
    ~ overlap /\ Up =>
      /\ \A t \in Callers : Exchange(t)
      /\ (\A t \in Callers : tw[t] = "out") => Idle
      /\ \A t \in Threads : th[t] = "answer" /\ tw[t] = "out" => HasAnswer(t)

TowaInv ==
    /\ TowaType /\ CallerInv /\ DeathInv /\ SingleInv /\ ExchangeInv /\ OwnAnswer /\ Survives

IInv == WebInv /\ TowaInv

-----------------------------------------------------------------------------
(***************************************************************************)
(* Lemmas.                                                                 *)
(***************************************************************************)

\* A function on 1 .. n is a sequence.
LEMMA FunctionIsSeq ==
    ASSUME NEW S, NEW n \in Nat, NEW f \in [1 .. n -> S]
    PROVE  f \in Seq(S) /\ Len(f) = n
  BY SeqDef

\* What a step leaves alone for the thread u.
Same(u) ==
    /\ th'[u] = th[u] /\ asked'[u] = asked[u] /\ wire'[u] = wire[u] /\ top'[u] = top[u]
    /\ parts'[u] = parts[u] /\ req'[u] = req[u] /\ out'[u] = out[u] /\ look'[u] = look[u]
    /\ (u \in cut' <=> u \in cut) /\ (u \in lost' <=> u \in lost)

\* A thread that a step leaves alone keeps its part of the invariant, if no file
\* changes.
LEMMA OthersKeep ==
    ASSUME NEW u \in Threads, ThreadOK(u), Same(u), UNCHANGED <<towa_flag, fs, was, changes>>
    PROVE  ThreadOK(u)'
<1> USE DEF Same
<1>1. PlaceOK(u)' BY DEF ThreadOK, PlaceOK
<1>2. SentOK(u)' BY DEF ThreadOK, SentOK
<1>3. OrderOK(u)' BY DEF ThreadOK, OrderOK
<1>4. BufferOK(u)' BY DEF ThreadOK, BufferOK, FillsBuffer
<1>5. LookOK(u)' BY DEF ThreadOK, LookOK, Held, Absent, Paths
<1>6. ServedOK(u)' BY DEF ThreadOK, ServedOK, Held, Absent, Paths
<1> QED BY <1>1, <1>2, <1>3, <1>4, <1>5, <1>6 DEF ThreadOK

\* A step of the thread t.
LEMMA StepKeeps ==
    ASSUME WebInv, NEW t \in Threads, ConnType', FileType', CacheInv', ThreadOK(t)',
           \A u \in Threads \ {t} : Same(u), UNCHANGED <<towa_flag, fs, was, changes>>
    PROVE  WebInv'
<1>1. \A u \in Threads \ {t} : ThreadOK(u)'
  BY OthersKeep DEF WebInv
<1> QED BY <1>1 DEF WebInv

\* The client sends a request only when everything is answered, so that the wire
\* then holds this one.
LEMMA AskKeeps ==
    ASSUME WebInv, NEW t \in Threads, Ask(t)
    PROVE  WebInv'
<1> DEFINE r == Head(todo[t])
           more == [u \in 1 .. r.len |-> [req |-> Len(asked[t]) + 1, unit |-> u]]
<1>a. ConnType /\ FileType /\ CacheInv /\ \A u \in Threads : ThreadOK(u)
  BY DEF WebInv
<1>b. /\ Open(t) /\ todo[t] # <<>> /\ Answered(t)
      /\ asked' = [asked EXCEPT ![t] = Append(@, r)]
      /\ todo' = [todo EXCEPT ![t] = Tail(@)]
      /\ wire' = [wire EXCEPT ![t] = @ \o [u \in 1 .. r.len |-> [req |-> Len(asked'[t]), unit |-> u]]]
  BY DEF Ask
<1>c. /\ UNCHANGED <<towa_flag, th, top, parts, req, out, files, hist>>
      /\ UNCHANGED <<cache, look, inmap, fs, changes, race, cut, was, lost>>
  BY DEF Ask, files, hist
<1>1. /\ r \in Requests /\ r.len \in Nat \ {0} /\ Tail(todo[t]) \in Seq(Requests)
      /\ asked[t] \in Seq(Requests) /\ wire[t] \in Seq(Units) /\ out[t] \in Seq(Replies)
  <2>1. /\ todo[t] \in Seq(Requests) /\ asked[t] \in Seq(Requests) /\ wire[t] \in Seq(Units)
        /\ out[t] \in Seq(Replies)
    BY <1>a DEF ConnType
  <2>2. r \in Requests /\ Tail(todo[t]) \in Seq(Requests)
    BY <1>b, <2>1, HeadTailProperties
  <2> QED BY <2>1, <2>2 DEF Requests
<1>2. /\ asked' = [asked EXCEPT ![t] = Append(asked[t], r)]
      /\ asked'[t] = Append(asked[t], r)
      /\ \A u \in Threads \ {t} : asked'[u] = asked[u]
      /\ Len(asked'[t]) = Len(asked[t]) + 1
      /\ \A i \in 1 .. Len(asked[t]) : asked'[t][i] = asked[t][i]
      /\ asked'[t][Len(asked[t]) + 1] = r
  BY <1>a, <1>b, <1>1 DEF ConnType
<1>3. /\ more \in Seq(Units) /\ Len(more) = r.len
      /\ \A i \in 1 .. r.len : more[i] = [req |-> Len(asked[t]) + 1, unit |-> i]
  <2>1. more \in [1 .. r.len -> Units]
    BY <1>1 DEF Units
  <2> QED BY <1>1, <2>1, FunctionIsSeq
<1>4. /\ wire' = [wire EXCEPT ![t] = wire[t] \o more]
      /\ wire'[t] = wire[t] \o more
      /\ \A u \in Threads \ {t} : wire'[u] = wire[u]
  BY <1>a, <1>b, <1>2, Zenon DEF ConnType
<1> HIDE DEF more, r
<1>5. /\ wire'[t] \in Seq(Units) /\ Len(wire'[t]) = Len(wire[t]) + r.len
      /\ \A i \in 1 .. Len(wire'[t]) : wire'[t][i] =
           IF i <= Len(wire[t]) THEN wire[t][i] ELSE more[i - Len(wire[t])]
  <2>1. /\ wire[t] \o more \in Seq(Units) /\ Len(wire[t] \o more) = Len(wire[t]) + Len(more)
        /\ \A i \in 1 .. Len(wire[t]) + Len(more) : (wire[t] \o more)[i] =
             IF i <= Len(wire[t]) THEN wire[t][i] ELSE more[i - Len(wire[t])]
    <3>1. wire[t] \in Seq(Units) /\ more \in Seq(Units) BY <1>1, <1>3
    <3> QED BY ONLY <3>1, ConcatProperties, Zenon
  <2> QED BY <1>3, <1>4, <2>1
<1>6. ConnType'
  <2>1. todo' \in [Threads -> Seq(Requests)] BY <1>a, <1>b, <1>1 DEF ConnType
  <2>2. asked' \in [Threads -> Seq(Requests)] BY <1>a, <1>1, <1>2, AppendProperties DEF ConnType
  <2>3. wire' \in [Threads -> Seq(Units)] BY <1>a, <1>4, <1>5 DEF ConnType
  <2> QED BY <1>a, <1>c, <2>1, <2>2, <2>3 DEF ConnType
<1>7. FileType' /\ CacheInv'
  BY <1>a, <1>c DEF FileType, CacheInv, Held, Paths
<1>8. ThreadOK(t)'
  <2>a. PlaceOK(t) /\ SentOK(t) /\ OrderOK(t) /\ BufferOK(t) /\ LookOK(t) /\ ServedOK(t)
    BY <1>a DEF ThreadOK
  <2>1. Len(asked[t]) \in Nat /\ Len(out[t]) \in Nat /\ Len(wire[t]) \in Nat
    BY <1>1, LenProperties
  <2>2. PlaceOK(t)' BY <1>c, <2>a DEF PlaceOK
  <2>3. SentOK(t)'
    <3>1. ASSUME NEW i \in 1 .. Len(wire'[t])
          PROVE  wire'[t][i].req \in 1 .. Len(asked'[t])
      <4>1. CASE i <= Len(wire[t]) BY <2>a, <1>2, <1>5, <2>1, <4>1 DEF SentOK
      <4>2. CASE i > Len(wire[t])
        <5>1. i - Len(wire[t]) \in 1 .. r.len BY <1>1, <1>5, <2>1, <4>2
        <5>2. wire'[t][i] = [req |-> Len(asked[t]) + 1, unit |-> i - Len(wire[t])]
          <6>1. wire'[t][i] = more[i - Len(wire[t])] BY <1>5, <2>1, <4>2
          <6> QED BY <1>3, <5>1, <6>1
        <5>3. wire'[t][i].req = Len(asked[t]) + 1 BY <5>2
        <5> QED BY <1>2, <2>1, <5>3
      <4> QED BY <4>1, <4>2, <1>5, <2>1
    <3>2. /\ \A i \in 1 .. Len(top[t]) : top[t][i].req \in 1 .. Len(asked'[t])
          /\ \A i \in 1 .. Len(out[t]) : out[t][i].of \in 1 .. Len(asked'[t])
          /\ th[t] \in Working => req[t].of \in 1 .. Len(asked'[t])
      BY <1>2, <2>1, <2>a DEF SentOK
    <3>3. th[t] \in Working => req[t].path = asked'[t][req[t].of].path
      BY <1>2, <2>1, <2>a DEF SentOK
    <3> QED BY <3>1, <3>2, <3>3, <1>c DEF SentOK
  <2>4. OrderOK(t)'
    <3> SUFFICES ASSUME t \notin cut PROVE OrderOK(t)' BY <1>c DEF OrderOK
    <3>1. /\ Len(asked[t]) = Len(out[t]) /\ wire[t] = <<>> /\ Len(wire[t]) = 0
          /\ th[t] = "read" /\ parts[t] = 1
      BY <1>b, <2>a, <2>1, <1>1, EmptySeq DEF OrderOK, Answered, Open
    <3> QED BY <1>c, <2>a, <1>1, <1>2, <1>3, <1>5, <2>1, <3>1 DEF OrderOK, Working, FileLabels
  <2>5. BufferOK(t)' BY <1>c, <2>a, <1>2, <2>1 DEF BufferOK, FillsBuffer
  <2>6. LookOK(t)' BY <1>c, <2>a DEF LookOK, Held, Absent, Paths
  <2>7. ServedOK(t)'
    <3>1. \A i \in 1 .. Len(out[t]) : asked'[t][out[t][i].of] = asked[t][out[t][i].of]
      BY <1>2, <2>1, <2>a DEF SentOK
    <3> QED BY <1>c, <2>a, <3>1 DEF ServedOK, Held, Absent, Paths
  <2> QED BY <2>2, <2>3, <2>4, <2>5, <2>6, <2>7 DEF ThreadOK
<1>9. \A u \in Threads \ {t} : Same(u)
  BY <1>c, <1>2, <1>4 DEF Same
<1> QED BY <1>c, <1>6, <1>7, <1>8, <1>9, StepKeeps

\* A thread takes a connection on which nothing was sent.
LEMMA AcceptKeeps ==
    ASSUME WebInv, NEW t \in Threads, Accept(t)
    PROVE  WebInv'
<1>a. ConnType /\ FileType /\ CacheInv /\ ThreadOK(t)
  BY DEF WebInv
<1>b. /\ th[t] = "accept" /\ th' = [th EXCEPT ![t] = "read"] /\ parts' = [parts EXCEPT ![t] = 1]
  BY DEF Accept, At, Goto
<1>c. UNCHANGED <<towa_flag, todo, asked, wire, top, req, out, cache, look, fs, changes, cut, was, lost>>
  BY DEF Accept, files, hist
<1>d. th'[t] = "read" /\ parts'[t] = 1
  BY <1>a, <1>b DEF ConnType
<1>1. ConnType' BY <1>a, <1>b, <1>c DEF ConnType, Labels
<1>2. FileType' /\ CacheInv' BY <1>a, <1>c DEF FileType, CacheInv, Held, Paths
<1>3. ThreadOK(t)'
  <2>a. PlaceOK(t) /\ SentOK(t) /\ OrderOK(t) /\ BufferOK(t) /\ LookOK(t) /\ ServedOK(t)
    BY <1>a DEF ThreadOK
  <2> USE DEF Working, FileLabels
  <2>1. PlaceOK(t)' BY <1>c, <1>d, <2>a DEF PlaceOK
  <2>2. SentOK(t)' BY <1>c, <1>d, <2>a DEF SentOK
  <2>3. OrderOK(t)' BY <1>b, <1>c, <1>d, <2>a DEF OrderOK
  <2>4. BufferOK(t)' BY <1>c, <1>d, <2>a DEF BufferOK, FillsBuffer
  <2>5. LookOK(t)' BY <1>d DEF LookOK
  <2>6. ServedOK(t)' BY <1>c, <2>a DEF ServedOK, Held, Absent, Paths
  <2> QED BY <2>1, <2>2, <2>3, <2>4, <2>5, <2>6 DEF ThreadOK
<1>4. \A u \in Threads \ {t} : Same(u)
  BY <1>a, <1>b, <1>c DEF Same, ConnType
<1> QED BY <1>c, <1>1, <1>2, <1>3, <1>4, StepKeeps

\* The client closes: the second buffer, if there is one, is lost.
LEMMA HangupKeeps ==
    ASSUME WebInv, NEW t \in Threads, Hangup(t)
    PROVE  WebInv'
<1>a. ConnType /\ FileType /\ CacheInv /\ ThreadOK(t)
  BY DEF WebInv
<1>b. /\ th[t] = "read" /\ wire[t] = <<>>
      /\ th' = [th EXCEPT ![t] = "closed"] /\ parts' = [parts EXCEPT ![t] = 0]
      /\ lost' = IF parts[t] > 1 THEN lost \cup {t} ELSE lost
  BY DEF Hangup, At, Goto
<1>c. UNCHANGED <<towa_flag, todo, asked, wire, top, req, out, cache, look, fs, changes, cut, was>>
  BY DEF Hangup, files
<1>d. th'[t] = "closed" /\ parts'[t] = 0
  BY <1>a, <1>b DEF ConnType
<1>1. ConnType' BY <1>a, <1>b, <1>c DEF ConnType, Labels
<1>2. FileType' /\ CacheInv' BY <1>a, <1>c DEF FileType, CacheInv, Held, Paths
<1>3. ThreadOK(t)'
  <2>a. PlaceOK(t) /\ SentOK(t) /\ OrderOK(t) /\ BufferOK(t) /\ LookOK(t) /\ ServedOK(t)
    BY <1>a DEF ThreadOK
  <2> USE DEF Working, FileLabels
  <2>1. PlaceOK(t)' BY <1>c, <1>d, <2>a DEF PlaceOK
  <2>2. SentOK(t)' BY <1>c, <1>d, <2>a DEF SentOK
  <2>3. OrderOK(t)' BY <1>b, <1>c, <1>d, <2>a DEF OrderOK
  <2>4. BufferOK(t)' BY <1>b, <1>c, <1>d, <2>a DEF BufferOK, FillsBuffer
  <2>5. LookOK(t)' BY <1>d DEF LookOK
  <2>6. ServedOK(t)' BY <1>c, <2>a DEF ServedOK, Held, Absent, Paths
  <2> QED BY <2>1, <2>2, <2>3, <2>4, <2>5, <2>6 DEF ThreadOK
<1>4. \A u \in Threads \ {t} : Same(u)
  BY <1>a, <1>b, <1>c DEF Same, ConnType
<1> QED BY <1>c, <1>1, <1>2, <1>3, <1>4, StepKeeps

\* A read takes the whole request, or the connection is cut.
LEMMA ReadKeeps ==
    ASSUME WebInv, NEW t \in Threads, NEW n, Read(t, n)
    PROVE  WebInv'
<1> DEFINE b == SubSeq(wire[t], 1, n)
<1>a. ConnType /\ FileType /\ CacheInv /\ ThreadOK(t)
  BY DEF WebInv
<1>b. /\ th[t] = "read" /\ wire[t] # <<>> /\ n \in Sizes(t)
      /\ wire' = [wire EXCEPT ![t] = SubSeq(wire[t], n + 1, Len(wire[t]))]
      /\ top' = IF parts[t] = 1 THEN [top EXCEPT ![t] = b] ELSE top
      /\ IF Whole(t, b)
           THEN th' = [th EXCEPT ![t] = "parse"] /\ parts' = parts
           ELSE parts' = [parts EXCEPT ![t] = parts[t] + 1] /\ th' = th
      /\ cut' = IF b[1].unit = 1 /\ b[n].unit = asked[t][b[n].req].len THEN cut ELSE cut \cup {t}
  BY DEF Read, At, Goto
<1>c. UNCHANGED <<towa_flag, todo, asked, req, out, cache, look, fs, changes, was, lost>>
  BY DEF Read, files
<1>d. /\ wire[t] \in Seq(Units) /\ asked[t] \in Seq(Requests) /\ out[t] \in Seq(Replies)
      /\ top[t] \in Seq(Units) /\ parts[t] \in Nat
      /\ Len(wire[t]) \in Nat \ {0} /\ Len(asked[t]) \in Nat /\ Len(out[t]) \in Nat
  BY <1>a, <1>b, EmptySeq, LenProperties DEF ConnType
<1>e. n \in Nat /\ n >= 1 /\ n <= Len(wire[t]) /\ n <= request_message_len
  BY <1>b, <1>d, WebAssumption DEF Sizes
<1>f. /\ b \in Seq(Units) /\ Len(b) = n /\ b # <<>>
      /\ \A i \in 1 .. n : b[i] = wire[t][i] /\ b[i] \in Units
  <2>1. \A i \in 1 .. n : wire[t][i] \in Units BY <1>d, <1>e, ElementOfSeq
  <2>2. b \in Seq(Units) /\ Len(b) = n /\ \A i \in 1 .. n : b[i] = wire[t][i]
    BY <1>e, <2>1, SubSeqProperties
  <2> QED BY <1>e, <2>1, <2>2
<1> DEFINE w == SubSeq(wire[t], n + 1, Len(wire[t]))
<1>g. /\ w \in Seq(Units) /\ Len(w) = Len(wire[t]) - n
      /\ \A i \in 1 .. Len(w) : w[i] = wire[t][n + i]
  <2>1. \A i \in n + 1 .. Len(wire[t]) : wire[t][i] \in Units BY <1>d, <1>e, ElementOfSeq
  <2> QED BY <1>d, <1>e, <2>1, SubSeqProperties
<1> HIDE DEF b, w
<1>h. /\ wire'[t] = w
      /\ top'[t] = IF parts[t] = 1 THEN b ELSE top[t]
      /\ th'[t] = IF Whole(t, b) THEN "parse" ELSE "read"
      /\ parts'[t] = IF Whole(t, b) THEN parts[t] ELSE parts[t] + 1
      /\ (t \notin cut' => t \notin cut /\ b[1].unit = 1 /\ b[n].unit = asked[t][b[n].req].len)
  BY <1>a, <1>b DEF ConnType, w
<1>1. ConnType'
  <2>1. wire' \in [Threads -> Seq(Units)] /\ top' \in [Threads -> Seq(Units)]
    BY <1>a, <1>b, <1>f, <1>g DEF ConnType, w
  <2>2. th' \in [Threads -> Labels] /\ parts' \in [Threads -> Nat]
    <3>1. CASE Whole(t, b) BY <1>a, <1>b, <3>1 DEF ConnType, Labels
    <3>2. CASE ~ Whole(t, b)
      <4>1. parts[t] + 1 \in Nat /\ parts \in [Threads -> Nat] BY <1>a, <1>d DEF ConnType
      <4>2. parts' = [parts EXCEPT ![t] = parts[t] + 1] /\ th' = th BY <1>b, <3>2
      <4> QED BY <1>a, <4>1, <4>2 DEF ConnType
    <3> QED BY <3>1, <3>2
  <2>3. cut' \subseteq Threads BY <1>a, <1>b DEF ConnType
  <2> QED BY <1>a, <1>c, <2>1, <2>2, <2>3 DEF ConnType
<1>2. FileType' /\ CacheInv' BY <1>a, <1>c DEF FileType, CacheInv, Held, Paths
<1>3. ThreadOK(t)'
  <2>a. PlaceOK(t) /\ SentOK(t) /\ OrderOK(t) /\ BufferOK(t) /\ LookOK(t) /\ ServedOK(t)
    BY <1>a DEF ThreadOK
  <2> USE DEF Working, FileLabels
  <2>1. PlaceOK(t)'
    <3>1. top'[t] # <<>> /\ parts'[t] >= 1 BY <1>b, <1>d, <1>f, <1>h, <2>a DEF PlaceOK
    <3> QED BY <1>c, <1>b, <1>h, <2>a, <3>1 DEF PlaceOK
  <2>2. SentOK(t)'
    <3>1. \A i \in 1 .. Len(w) : w[i].req \in 1 .. Len(asked[t])
      <4> TAKE i \in 1 .. Len(w)
      <4>1. n + i \in 1 .. Len(wire[t]) BY <1>d, <1>e, <1>g
      <4> QED BY <1>g, <2>a, <4>1 DEF SentOK
    <3>2. \A i \in 1 .. Len(b) : b[i].req \in 1 .. Len(asked[t])
      <4> TAKE i \in 1 .. Len(b)
      <4>1. i \in 1 .. Len(wire[t]) /\ b[i] = wire[t][i] BY <1>d, <1>e, <1>f
      <4> QED BY <2>a, <4>1 DEF SentOK
    <3> QED BY <1>b, <1>c, <1>h, <2>a, <3>1, <3>2 DEF SentOK
  \* the facts of a read that is not cut: it takes everything
  <2>b. ASSUME t \notin cut'
        PROVE  /\ w = <<>> /\ parts[t] = 1 /\ Len(asked[t]) = Len(out[t]) + 1
               /\ b[1].req = Len(asked[t]) /\ n = asked[t][Len(asked[t])].len
               /\ ~ Whole(t, b) => n = request_message_len
    <3>1. /\ parts[t] = 1 /\ Len(asked[t]) = Len(out[t]) + 1
          /\ Len(wire[t]) = asked[t][Len(asked[t])].len
          /\ \A i \in 1 .. Len(wire[t]) : wire[t][i] = [req |-> Len(asked[t]), unit |-> i]
      BY <1>b, <1>h, <2>a, <2>b DEF OrderOK
    <3>2. b[1] = [req |-> Len(asked[t]), unit |-> 1] /\ b[n] = [req |-> Len(asked[t]), unit |-> n]
      <4>1. 1 \in 1 .. n /\ n \in 1 .. n /\ 1 \in 1 .. Len(wire[t]) /\ n \in 1 .. Len(wire[t])
        BY <1>d, <1>e
      <4>2. b[1] = wire[t][1] /\ b[n] = wire[t][n] BY <1>f, <4>1
      <4> QED BY <3>1, <4>1, <4>2
    <3>3. b[1].req = Len(asked[t]) /\ b[n].req = Len(asked[t]) /\ b[n].unit = n BY <3>2
    <3>4. n = Len(wire[t]) BY <1>h, <2>b, <3>1, <3>3
    <3>5. w = <<>> BY <1>g, <3>4, <1>d, EmptySeq
    <3> QED BY <1>f, <3>1, <3>3, <3>4, <3>5 DEF Whole, EndsHere
  <2>3. OrderOK(t)'
    <3> SUFFICES ASSUME t \notin cut' PROVE OrderOK(t)' BY DEF OrderOK
    <3>1. t \notin cut BY <1>h
    <3>2. wire'[t] = <<>> /\ Len(asked[t]) = Len(out[t]) + 1 /\ th'[t] \in {"parse", "read"}
      BY <1>h, <2>b
    <3>3. top'[t][1].req = Len(asked[t]) BY <1>h, <2>b
    <3>4. \A i \in 1 .. Len(out[t]) : out[t][i].of = i BY <2>a, <3>1 DEF OrderOK
    <3>5. Len(asked'[t]) = Len(asked[t]) /\ out'[t] = out[t] BY <1>c
    <3>6. /\ Len(out[t]) <= Len(asked'[t]) /\ Len(asked'[t]) <= Len(out[t]) + 1
          /\ Len(asked'[t]) # Len(out[t])
      BY <1>d, <3>2, <3>5
    <3> QED BY <3>2, <3>3, <3>4, <3>5, <3>6 DEF OrderOK
  <2>4. BufferOK(t)'
    <3>1. CASE t \in cut' BY <3>1 DEF BufferOK, FillsBuffer
    <3>2. CASE t \notin cut'
      <4>1. t \notin cut BY <1>h, <3>2
      <4>2. ~ Whole(t, b) => \E i \in 1 .. Len(asked[t]) : asked[t][i].len = request_message_len
        BY <1>d, <2>b, <3>2
      <4> QED BY <1>c, <1>h, <2>a, <2>b, <3>2, <4>1, <4>2 DEF BufferOK, FillsBuffer
    <3> QED BY <3>1, <3>2
  <2>5. LookOK(t)' BY <1>h DEF LookOK
  <2>6. ServedOK(t)' BY <1>c, <2>a DEF ServedOK, Held, Absent, Paths
  <2> QED BY <2>1, <2>2, <2>3, <2>4, <2>5, <2>6 DEF ThreadOK
<1>4. \A u \in Threads \ {t} : Same(u)
  BY <1>a, <1>b, <1>c DEF Same, ConnType
<1> QED BY <1>c, <1>1, <1>2, <1>3, <1>4, StepKeeps

\* The request that is parsed is the one its first unit belongs to.
LEMMA ParsedOK ==
    ASSUME WebInv, NEW t \in Threads, th[t] = "parse"
    PROVE  /\ top[t][1].req \in 1 .. Len(asked[t])
           /\ t \notin cut => top[t][1].req = Len(asked[t])
           /\ Parsed(t) # None =>
                /\ Parsed(t) \in Parseds /\ Parsed(t).of = top[t][1].req
                /\ Parsed(t).path = asked[t][Parsed(t).of].path
<1>a. ConnType /\ PlaceOK(t) /\ SentOK(t) /\ OrderOK(t)
  BY DEF WebInv, ThreadOK
<1>1. top[t] \in Seq(Units) /\ asked[t] \in Seq(Requests) /\ top[t] # <<>>
  BY <1>a DEF ConnType, PlaceOK
<1>2. 1 \in 1 .. Len(top[t]) BY <1>1, EmptySeq, LenProperties
<1>3. top[t][1].req \in 1 .. Len(asked[t]) BY <1>a, <1>2 DEF SentOK
<1>4. t \notin cut => top[t][1].req = Len(asked[t]) BY <1>a DEF OrderOK
<1>5. ASSUME Parsed(t) # None
      PROVE  /\ Parsed(t) \in Parseds /\ Parsed(t).of = top[t][1].req
             /\ Parsed(t).path = asked[t][Parsed(t).of].path
  <2> DEFINE o == top[t][1].req
             q == asked[t][o]
             k == \E i \in 1 .. Len(top[t]) : top[t][i].unit = q.keep
  <2>1. Parsed(t) = [path |-> q.path, of |-> o, keep |-> k]
    BY <1>5, Zenon DEF Parsed
  <2>2. q \in Requests BY <1>1, <1>3, ElementOfSeq
  <2>3. q.path \in STRING /\ o \in Nat /\ k \in BOOLEAN
    BY <1>1, <1>3, <2>2, LenProperties DEF Requests
  <2> HIDE DEF o, k
  <2> QED BY <2>1, <2>3 DEF Parseds, o
<1> QED BY <1>3, <1>4, <1>5

\* From the buffers to the parsed request.
LEMMA ParseKeeps ==
    ASSUME WebInv, NEW t \in Threads, Parse(t)
    PROVE  WebInv'
<1>a. ConnType /\ FileType /\ CacheInv /\ ThreadOK(t)
  BY DEF WebInv
<1>b. /\ th[t] = "parse" /\ Parsed(t) # None
      /\ th' = [th EXCEPT ![t] = IF towa_flag THEN "call" ELSE "lookup"]
      /\ req' = [req EXCEPT ![t] = Parsed(t)]
  BY DEF Parse, At, Goto
<1>c. UNCHANGED <<towa_flag, todo, asked, wire, top, parts, out, cache, look, fs, changes, cut, was, lost>>
  BY DEF Parse, files, hist
<1>d. /\ th'[t] = IF towa_flag THEN "call" ELSE "lookup"
      /\ req'[t] = Parsed(t)
  BY <1>a, <1>b DEF ConnType
<1>e. /\ Parsed(t) \in Parseds /\ Parsed(t).of = top[t][1].req
      /\ Parsed(t).path = asked[t][Parsed(t).of].path
      /\ top[t][1].req \in 1 .. Len(asked[t]) /\ (t \notin cut => top[t][1].req = Len(asked[t]))
  BY <1>b, ParsedOK
<1>1. ConnType' BY <1>a, <1>b, <1>c, <1>e DEF ConnType, Labels, Working
<1>2. FileType' /\ CacheInv' BY <1>a, <1>c DEF FileType, CacheInv, Held, Paths
<1>3. ThreadOK(t)'
  <2>a. PlaceOK(t) /\ SentOK(t) /\ OrderOK(t) /\ BufferOK(t) /\ LookOK(t) /\ ServedOK(t)
    BY <1>a DEF ThreadOK
  <2> USE DEF Working, FileLabels
  <2>1. PlaceOK(t)' BY <1>c, <1>d, <1>e, <2>a DEF PlaceOK
  <2>2. SentOK(t)' BY <1>c, <1>d, <1>e, <2>a DEF SentOK
  <2>3. OrderOK(t)' BY <1>b, <1>c, <1>d, <1>e, <2>a DEF OrderOK
  <2>4. BufferOK(t)' BY <1>c, <2>a DEF BufferOK, FillsBuffer
  <2>5. LookOK(t)' BY <1>d DEF LookOK
  <2>6. ServedOK(t)' BY <1>c, <2>a DEF ServedOK, Held, Absent, Paths
  <2> QED BY <2>1, <2>2, <2>3, <2>4, <2>5, <2>6 DEF ThreadOK
<1>4. \A u \in Threads \ {t} : Same(u)
  BY <1>a, <1>b, <1>c DEF Same, ConnType
<1> QED BY <1>c, <1>1, <1>2, <1>3, <1>4, StepKeeps

\* a is an answer to the request at hand.
Fits(t, a) ==
    /\ a \in Replies /\ a.of \in 1 .. Len(asked[t]) /\ (t \notin cut => a.of = Len(asked[t]))
    /\ LET p == asked[t][a.of].path IN
         /\ ~ towa_flag /\ a.code = 200 => \E k \in {p, Index(p)} \cap Paths : Held(a.body, k)
         /\ a.code = 404 /\ changes = 0 => Absent(p)

\* An answer: it fits the request, and frees the buffers or is on a connection
\* that may lose one.
LEMMA ReplyKeeps ==
    ASSUME WebInv, NEW t \in Threads, NEW a, Fits(t, a), NEW freed \in {1, parts[t]},
           NEW keep \in BOOLEAN, Reply(t, a, freed, keep),
           UNCHANGED <<towa_flag, todo, asked, wire, cache, inmap, fs, changes, race, cut, was>>,
           th[t] \in {"parse"} \cup Working
    PROVE  WebInv'
<1>a. ConnType /\ FileType /\ CacheInv /\ ThreadOK(t)
  BY DEF WebInv
<1>g. /\ a \in Replies /\ a.of \in 1 .. Len(asked[t]) /\ (t \notin cut => a.of = Len(asked[t]))
      /\ LET p == asked[t][a.of].path IN
           /\ ~ towa_flag /\ a.code = 200 => \E k \in {p, Index(p)} \cap Paths : Held(a.body, k)
           /\ a.code = 404 /\ changes = 0 => Absent(p)
  BY DEF Fits
<1>b. /\ out' = [out EXCEPT ![t] = Append(out[t], a)]
      /\ lost' = IF freed < parts[t] THEN lost \cup {t} ELSE lost
      /\ parts' = [parts EXCEPT ![t] = IF keep THEN 1 ELSE 0]
      /\ th' = [th EXCEPT ![t] = IF keep THEN "read" ELSE "closed"]
      /\ req' = [req EXCEPT ![t] = None] /\ top' = [top EXCEPT ![t] = <<>>]
      /\ look' = [look EXCEPT ![t] = None]
  BY DEF Reply, Goto
<1>c. UNCHANGED <<towa_flag, todo, asked, wire, cache, inmap, fs, changes, race, cut, was>>
  OBVIOUS
<1>d. /\ out[t] \in Seq(Replies) /\ asked[t] \in Seq(Requests) /\ parts[t] \in Nat
      /\ Len(out[t]) \in Nat /\ Len(asked[t]) \in Nat
  BY <1>a, LenProperties DEF ConnType
<1>e. /\ th'[t] = IF keep THEN "read" ELSE "closed"
      /\ parts'[t] = IF keep THEN 1 ELSE 0
      /\ top'[t] = <<>> /\ req'[t] = None /\ look'[t] = None /\ out'[t] = Append(out[t], a)
  BY <1>a, <1>b DEF ConnType, FileType
<1>f. /\ Len(out'[t]) = Len(out[t]) + 1 /\ out'[t] \in Seq(Replies)
      /\ \A i \in 1 .. Len(out[t]) : out'[t][i] = out[t][i]
      /\ out'[t][Len(out[t]) + 1] = a
  BY <1>d, <1>e, <1>g, AppendProperties
<1>1. ConnType'
  <2>1. out' \in [Threads -> Seq(Replies)] BY <1>a, <1>b, <1>f, <1>e DEF ConnType
  <2>2. top' \in [Threads -> Seq(Units)] BY <1>a, <1>b, EmptySeq DEF ConnType
  <2>3. th' \in [Threads -> Labels] /\ parts' \in [Threads -> Nat] BY <1>a, <1>b DEF ConnType, Labels
  <2>4. req' \in [Threads -> {None} \cup Parseds] BY <1>a, <1>b DEF ConnType
  <2>5. lost' \subseteq Threads BY <1>a, <1>b DEF ConnType
  <2> QED BY <1>a, <1>c, <2>1, <2>2, <2>3, <2>4, <2>5 DEF ConnType
<1>2. FileType' /\ CacheInv'
  <2>1. look' \in [Threads -> {None} \cup Looks] BY <1>a, <1>b DEF FileType
  <2> QED BY <1>a, <1>c, <2>1 DEF FileType, CacheInv, Held, Paths
<1>3. ThreadOK(t)'
  <2>a. PlaceOK(t) /\ SentOK(t) /\ OrderOK(t) /\ BufferOK(t) /\ LookOK(t) /\ ServedOK(t)
    BY <1>a DEF ThreadOK
  <2> USE DEF Working, FileLabels
  <2>1. PlaceOK(t)' BY <1>c, <1>e DEF PlaceOK
  <2>2. SentOK(t)'
    <3>1. \A i \in 1 .. Len(out'[t]) : out'[t][i].of \in 1 .. Len(asked[t])
      <4> TAKE i \in 1 .. Len(out'[t])
      <4>1. i \in 1 .. Len(out[t]) \/ i = Len(out[t]) + 1 BY <1>d, <1>f
      <4> QED BY <1>f, <1>g, <2>a, <4>1 DEF SentOK
    <3>2. Len(top'[t]) = 0 BY <1>e
    <3>3. \A i \in 1 .. Len(wire[t]) : wire[t][i].req \in 1 .. Len(asked[t]) BY <2>a DEF SentOK
    <3> QED BY <1>c, <1>e, <3>1, <3>2, <3>3 DEF SentOK
  <2>3. OrderOK(t)'
    <3> SUFFICES ASSUME t \notin cut PROVE OrderOK(t)' BY <1>c DEF OrderOK
    <3>1. Len(asked[t]) = Len(out[t]) + 1 /\ wire[t] = <<>>
      BY <1>d, <2>a DEF OrderOK
    <3>2. \A i \in 1 .. Len(out'[t]) : out'[t][i].of = i
      <4> TAKE i \in 1 .. Len(out'[t])
      <4>1. i \in 1 .. Len(out[t]) \/ i = Len(out[t]) + 1 BY <1>d, <1>f
      <4>2. \A j \in 1 .. Len(out[t]) : out[t][j].of = j BY <2>a DEF OrderOK
      <4> QED BY <1>f, <1>g, <3>1, <4>1, <4>2
    <3>3. /\ Len(out'[t]) = Len(asked'[t]) /\ wire'[t] = <<>>
          /\ Len(out'[t]) <= Len(asked'[t]) /\ Len(asked'[t]) <= Len(out'[t]) + 1
      BY <1>c, <1>d, <1>f, <3>1
    <3>4. th'[t] \in {"read", "closed"} /\ (th'[t] = "read" => parts'[t] = 1) BY <1>e
    <3> QED BY <3>2, <3>3, <3>4 DEF OrderOK
  <2>4. BufferOK(t)'
    <3>1. parts'[t] > 1 \/ t \in lost' => parts[t] > 1 \/ t \in lost BY <1>b, <1>d, <1>e
    <3> QED BY <1>c, <2>a, <3>1 DEF BufferOK, FillsBuffer
  <2>5. LookOK(t)' BY <1>e DEF LookOK
  <2>6. ServedOK(t)'
    <3> DEFINE Fine(x) ==
          LET p == asked[t][x.of].path IN
          /\ ~ towa_flag /\ x.code = 200 => \E k \in {p, Index(p)} \cap Paths : Held(x.body, k)
          /\ x.code = 404 /\ changes = 0 => Absent(p)
    <3>1. Fine(a) BY <1>g
    <3>2. \A i \in 1 .. Len(out[t]) : Fine(out[t][i]) BY <2>a DEF ServedOK
    <3>3. \A i \in 1 .. Len(out'[t]) : Fine(out'[t][i])
      <4> HIDE DEF Fine
      <4> TAKE i \in 1 .. Len(out'[t])
      <4>1. i \in 1 .. Len(out[t]) \/ i = Len(out[t]) + 1 BY <1>d, <1>f
      <4> QED BY <1>f, <3>1, <3>2, <4>1
    <3> QED BY <1>c, <3>3 DEF ServedOK, Held, Absent, Paths
  <2> QED BY <2>1, <2>2, <2>3, <2>4, <2>5, <2>6 DEF ThreadOK
<1>4. \A u \in Threads \ {t} : Same(u)
  BY <1>a, <1>b, <1>c DEF Same, ConnType, FileType
<1> QED BY <1>c, <1>1, <1>2, <1>3, <1>4, StepKeeps

\* A request that is not valid.
LEMMA ParseFailsKeeps ==
    ASSUME WebInv, NEW t \in Threads, ParseFails(t)
    PROVE  WebInv'
<1> DEFINE a == Error(t, top[t][1].req)
<1>1. /\ th[t] = "parse" /\ Reply(t, a, 1, FALSE)
      /\ UNCHANGED <<towa_flag, todo, asked, wire, cache, inmap, fs, changes, race, cut, was>>
  BY DEF ParseFails, At
<1>2. /\ top[t][1].req \in 1 .. Len(asked[t])
      /\ t \notin cut => top[t][1].req = Len(asked[t])
  BY <1>1, ParsedOK
<1>3. a.of = top[t][1].req /\ a.code = 500 BY DEF Error
<1>4. a \in Replies
  <2>1. top[t][1].req \in Nat BY <1>2
  <2> QED BY <2>1 DEF Error, Replies
<1>5. Fits(t, a) BY <1>2, <1>3, <1>4 DEF Fits
<1>6. 1 \in {1, parts[t]} /\ FALSE \in BOOLEAN /\ th[t] \in {"parse"} \cup Working BY <1>1
<1> HIDE DEF a
<1> QED BY <1>1, <1>5, <1>6, ReplyKeeps, Zenon

\* What the thread has when it works on a request.
LEMMA WorkingOK ==
    ASSUME WebInv, NEW t \in Threads, th[t] \in Working
    PROVE  /\ req[t] \in Parseds /\ req[t].of \in Nat /\ req[t].path \in STRING /\ req[t].keep \in BOOLEAN
           /\ req[t].of \in 1 .. Len(asked[t]) /\ req[t].path = asked[t][req[t].of].path
           /\ t \notin cut => req[t].of = Len(asked[t])
           /\ th[t] \in FileLabels => look[t] \in Looks /\ ~ towa_flag
           /\ th[t] \in {"call", "answer"} => towa_flag
           /\ LookOK(t)
<1>1. PlaceOK(t) /\ SentOK(t) /\ OrderOK(t) /\ LookOK(t) BY DEF WebInv, ThreadOK
<1>2. req[t] \in Parseds BY <1>1 DEF PlaceOK
<1>3. req[t].of \in Nat /\ req[t].path \in STRING /\ req[t].keep \in BOOLEAN BY <1>2 DEF Parseds
<1>4. /\ req[t].of \in 1 .. Len(asked[t]) /\ req[t].path = asked[t][req[t].of].path
      /\ t \notin cut => req[t].of = Len(asked[t])
  BY <1>1 DEF SentOK, OrderOK
<1>5. /\ th[t] \in FileLabels => look[t] \in Looks /\ ~ towa_flag
      /\ th[t] \in {"call", "answer"} => towa_flag
  <2>1. towa_flag \in BOOLEAN BY DEF WebInv, ConnType
  <2> QED BY <1>1, <2>1 DEF PlaceOK, FileLabels
<1> QED BY <1>1, <1>2, <1>3, <1>4, <1>5

\* A file, or 404.
LEMMA SendFileKeeps ==
    ASSUME WebInv, NEW t \in Threads, SendFile(t)
    PROVE  WebInv'
<1>1. /\ th[t] = "send" /\ th[t] \in Working
      /\ UNCHANGED <<towa_flag, todo, asked, wire, cache, inmap, fs, changes, race, cut, was>>
  BY DEF SendFile, At, Working, FileLabels
<1>2. /\ req[t].of \in Nat /\ req[t].of \in 1 .. Len(asked[t])
      /\ req[t].path = asked[t][req[t].of].path /\ req[t].keep \in BOOLEAN
      /\ t \notin cut => req[t].of = Len(asked[t])
      /\ look[t] \in Looks /\ LookOK(t)
  BY <1>1, WorkingOK DEF FileLabels
<1>3. /\ parts[t] \in {1, parts[t]} /\ 1 \in {1, parts[t]} /\ FALSE \in BOOLEAN
      /\ th[t] \in {"parse"} \cup Working
  BY <1>1
<1>4. CASE look[t].file = None
  <2> DEFINE a == [of |-> req[t].of, code |-> 404, body |-> None]
  <2>1. Reply(t, a, parts[t], FALSE) BY <1>4 DEF SendFile
  <2>2. a \in Replies BY <1>2 DEF Replies
  <2>3. a.of = req[t].of /\ a.code # 200 OBVIOUS
  <2>4. changes = 0 => Absent(asked[t][req[t].of].path) BY <1>1, <1>2, <1>4 DEF LookOK
  <2>5. Fits(t, a) BY <1>2, <2>2, <2>3, <2>4 DEF Fits
  <2> HIDE DEF a
  <2> QED BY <1>1, <1>2, <1>3, <2>1, <2>5, ReplyKeeps
<1>5. CASE look[t].file # None
  <2> DEFINE a == [of |-> req[t].of, code |-> 200, body |-> look[t].file]
  <2>1. Reply(t, a, parts[t], req[t].keep) BY <1>5 DEF SendFile
  <2>2. a \in Replies BY <1>2, <1>5 DEF Replies, Looks
  <2>3. a.of = req[t].of /\ a.code # 404 /\ a.body = look[t].file OBVIOUS
  <2>4. \E k \in {asked[t][a.of].path, Index(asked[t][a.of].path)} \cap Paths : Held(a.body, k)
    BY <1>1, <1>2, <1>5, <2>3 DEF LookOK
  <2>5. Fits(t, a) BY <1>2, <2>2, <2>3, <2>4 DEF Fits
  <2> HIDE DEF a
  <2> QED BY <1>1, <1>2, <1>3, <2>1, <2>5, ReplyKeeps
<1> QED BY <1>4, <1>5

\* The answer of towa.
LEMMA SendAnswerKeeps ==
    ASSUME WebInv, NEW t \in Threads, SendAnswer(t), tans[t] \in Results
    PROVE  WebInv'
<1>1. /\ th[t] = "answer" /\ th[t] \in Working
      /\ UNCHANGED <<towa_flag, todo, asked, wire, cache, inmap, fs, changes, race, cut, was>>
  BY DEF SendAnswer, At, Working
<1>2. /\ req[t].of \in Nat /\ req[t].of \in 1 .. Len(asked[t])
      /\ req[t].path = asked[t][req[t].of].path /\ req[t].keep \in BOOLEAN
      /\ t \notin cut => req[t].of = Len(asked[t])
      /\ towa_flag
  BY <1>1, WorkingOK
<1>3. /\ parts[t] \in {1, parts[t]} /\ 1 \in {1, parts[t]} /\ FALSE \in BOOLEAN
      /\ th[t] \in {"parse"} \cup Working
  BY <1>1
<1>4. CASE tans[t].code \in {200, 404}
  <2> DEFINE a == [of |-> req[t].of, code |-> 200, body |-> tans[t]]
  <2>1. Reply(t, a, parts[t], req[t].keep) BY <1>4 DEF SendAnswer
  <2>2. a \in Replies BY <1>2 DEF Replies
  <2>3. a.of = req[t].of /\ a.code # 404 OBVIOUS
  <2>4. Fits(t, a) BY <1>2, <2>2, <2>3 DEF Fits
  <2> HIDE DEF a
  <2> QED BY <1>1, <1>2, <1>3, <2>1, <2>4, ReplyKeeps
<1>5. CASE tans[t].code \notin {200, 404}
  <2> DEFINE a == [of |-> req[t].of, code |-> 500, body |-> tans[t]]
  <2>1. Reply(t, a, 1, FALSE) BY <1>5 DEF SendAnswer
  <2>2. a \in Replies BY <1>2 DEF Replies
  <2>3. a.of = req[t].of /\ a.code # 200 /\ a.code # 404 OBVIOUS
  <2>4. Fits(t, a) BY <1>2, <2>2, <2>3 DEF Fits
  <2> HIDE DEF a
  <2> QED BY <1>1, <1>2, <1>3, <2>1, <2>4, ReplyKeeps
<1> QED BY <1>4, <1>5

\* A step inside getFile or into sendMsg: the connection stays as it is, and the
\* thread moves to another place where it works on the same request.
LEMMA WorkKeeps ==
    ASSUME WebInv, NEW t \in Threads, NEW l \in Working, th[t] \in Working,
           th' = [th EXCEPT ![t] = l],
           l \in {"call", "answer"} <=> th[t] \in {"call", "answer"},
           UNCHANGED <<towa_flag, conn, fs, changes, cut, was, lost>>,
           NEW k \in {None} \cup Looks, look' = [look EXCEPT ![t] = k],
           l \in FileLabels => k \in Looks,
           LookOK(t)', FileType', CacheInv'
    PROVE  WebInv'
<1>a. ConnType /\ FileType /\ CacheInv /\ ThreadOK(t)
  BY DEF WebInv
<1>c. UNCHANGED <<towa_flag, todo, asked, wire, top, parts, req, out, fs, changes, cut, was, lost>>
  BY DEF conn
<1>d. th'[t] = l /\ look'[t] = k
  BY <1>a DEF ConnType, FileType
<1>1. ConnType' BY <1>a, <1>c DEF ConnType, Labels
<1>2. ThreadOK(t)'
  <2>a. PlaceOK(t) /\ SentOK(t) /\ OrderOK(t) /\ BufferOK(t) /\ LookOK(t) /\ ServedOK(t)
    BY <1>a DEF ThreadOK
  <2> USE DEF Working, FileLabels
  <2>1. PlaceOK(t)' BY <1>c, <1>d, <2>a DEF PlaceOK
  <2>2. SentOK(t)' BY <1>c, <1>d, <2>a DEF SentOK
  <2>3. OrderOK(t)' BY <1>c, <1>d, <2>a DEF OrderOK
  <2>4. BufferOK(t)' BY <1>c, <2>a DEF BufferOK, FillsBuffer
  <2>5. ServedOK(t)' BY <1>c, <2>a DEF ServedOK, Held, Absent, Paths
  <2> QED BY <2>1, <2>2, <2>3, <2>4, <2>5 DEF ThreadOK
<1>3. \A u \in Threads \ {t} : Same(u)
  BY <1>a, <1>c DEF Same, ConnType, FileType
<1> QED BY <1>c, <1>1, <1>2, <1>3, StepKeeps

\* getFile enters the map with the path of the request.
LEMMA LookupKeeps ==
    ASSUME WebInv, NEW t \in Threads, Lookup(t)
    PROVE  WebInv'
<1> DEFINE k == [key |-> req[t].path, file |-> None, stat |-> None]
<1>a. FileType /\ CacheInv /\ ConnType BY DEF WebInv
<1>1. /\ th[t] = "lookup" /\ th[t] \in Working
      /\ th' = [th EXCEPT ![t] = "found?"] /\ look' = [look EXCEPT ![t] = k]
      /\ UNCHANGED <<towa_flag, conn, cache, fs, changes, cut, was, lost>>
  BY DEF Lookup, At, Goto, Working
<1>2. req[t].path \in STRING BY <1>1, WorkingOK
<1>3. k \in Looks BY <1>2 DEF Looks, Keys
<1>4. k.key = req[t].path /\ k.file = None OBVIOUS
<1> HIDE DEF k
<1>5. th'[t] = "found?" /\ look'[t] = k /\ req' = req BY <1>a, <1>1 DEF ConnType, FileType, conn
<1>6. LookOK(t)' BY <1>4, <1>5 DEF LookOK
<1>7. FileType' /\ CacheInv' BY <1>a, <1>1, <1>3 DEF FileType, CacheInv, Held, Paths
<1> QED BY <1>1, <1>3, <1>6, <1>7, WorkKeeps DEF Working, FileLabels

\* What the cache holds for the path has been that file's content.
LEMMA FoundKeeps ==
    ASSUME WebInv, NEW t \in Threads, Found(t)
    PROVE  WebInv'
<1>a. FileType /\ CacheInv /\ ConnType BY DEF WebInv
<1>1. /\ th[t] = "found?" /\ th[t] \in Working /\ th[t] \in FileLabels
      /\ UNCHANGED <<towa_flag, conn, cache, fs, changes, cut, was, lost>>
  BY DEF Found, At, Working, FileLabels, hist
<1>2. look[t] \in Looks /\ look[t].key = req[t].path /\ look[t].file = None
  BY <1>1, WorkingOK DEF LookOK
<1>3. CASE look[t].key \in DOMAIN cache
  <2> DEFINE c == cache[look[t].key]
             k == [look[t] EXCEPT !.file = c]
  <2>1. th' = [th EXCEPT ![t] = "send"] /\ look' = [look EXCEPT ![t] = k]
    BY <1>3 DEF Found, Goto
  <2>2. c \in Contents /\ look[t].key \in Paths /\ Held(c, look[t].key)
    BY <1>a, <1>3 DEF FileType, CacheInv
  <2>3. k \in Looks /\ k.file = c BY <1>2, <2>2 DEF Looks
  <2> HIDE DEF k, c
  <2>4. th'[t] = "send" /\ look'[t] = k /\ req'[t] = req[t]
    BY <1>a, <1>1, <2>1 DEF ConnType, FileType, conn
  <2>5. c # None BY <2>2, WebAssumption
  <2>6. \E j \in {req[t].path, Index(req[t].path)} \cap Paths : Held(c, j) BY <1>2, <2>2
  <2>7. LookOK(t)' BY <1>1, <2>3, <2>4, <2>5, <2>6 DEF LookOK, Held, Paths
  <2>8. FileType' /\ CacheInv' BY <1>a, <1>1, <2>1, <2>3 DEF FileType, CacheInv, Held, Paths
  <2> QED BY <1>1, <2>1, <2>3, <2>7, <2>8, WorkKeeps DEF Working, FileLabels
<1>4. CASE look[t].key \notin DOMAIN cache
  <2>1. th' = [th EXCEPT ![t] = "stat"] /\ look' = look
    BY <1>4 DEF Found, Goto
  <2>2. look' = [look EXCEPT ![t] = look[t]] BY <1>a, <2>1 DEF FileType
  <2>3. th'[t] = "stat" /\ look'[t] = look[t] /\ req'[t] = req[t]
    BY <1>a, <1>1, <2>1 DEF ConnType, conn
  <2>4. LookOK(t)' BY <1>2, <2>3 DEF LookOK
  <2>5. FileType' /\ CacheInv' BY <1>a, <1>1, <2>1 DEF FileType, CacheInv, Held, Paths
  <2> QED BY <1>1, <1>2, <2>1, <2>2, <2>4, <2>5, WorkKeeps DEF Working, FileLabels
<1> QED BY <1>3, <1>4

\* A path that stat does not find, or whose index it does not find, is absent.
LEMMA StatKeeps ==
    ASSUME WebInv, NEW t \in Threads, Stat(t)
    PROVE  WebInv'
<1> DEFINE f == File(look[t].key)
           k == IF f.ox THEN Index(look[t].key) ELSE look[t].key
           g == File(k)
           p == req[t].path
<1>a. FileType /\ CacheInv /\ ConnType BY DEF WebInv
<1>1. /\ th[t] = "stat" /\ th[t] \in Working /\ th[t] \in FileLabels
      /\ UNCHANGED <<towa_flag, conn, cache, fs, changes, cut, was, lost>>
      /\ IF f.kind = "none" \/ g.kind = "none"
           THEN th' = [th EXCEPT ![t] = "send"] /\ look' = look
           ELSE /\ th' = [th EXCEPT ![t] = "load"]
                /\ look' = [look EXCEPT ![t] = [key |-> k, file |-> None, stat |-> g]]
  BY DEF Stat, At, Goto, Working, FileLabels, hist
<1>2. look[t] \in Looks /\ look[t].key = p /\ look[t].file = None /\ p \in STRING
  BY <1>1, WorkingOK DEF LookOK
<1>3. k \in {p, Index(p)} /\ k \in Keys BY <1>2 DEF Keys
<1>4. CASE f.kind = "none" \/ g.kind = "none"
  <2>1. th' = [th EXCEPT ![t] = "send"] /\ look' = look BY <1>1, <1>4
  <2>2. look' = [look EXCEPT ![t] = look[t]] BY <1>a, <2>1 DEF FileType
  <2>3. changes = 0 => Absent(p)
    <3> SUFFICES ASSUME changes = 0 PROVE Absent(p) OBVIOUS
    <3>1. \A j \in Paths : File(j).kind # "none"
      BY <1>a, WebAssumption DEF CacheInv, File, Paths
    <3>2. CASE f.kind = "none" BY <1>2, <3>1, <3>2 DEF Absent
    <3>3. CASE g.kind = "none"
      <4>1. k \notin Paths BY <3>1, <3>3
      <4>2. CASE k = p BY <4>1, <4>2 DEF Absent
      <4>3. CASE k # p
        <5>1. f.ox /\ k = Index(p) BY <1>2, <4>3
        <5>2. p \in Paths => fs[p].ox BY <1>2, <5>1 DEF File
        <5> QED BY <4>1, <5>1, <5>2 DEF Absent
      <4> QED BY <4>2, <4>3
    <3> QED BY <1>4, <3>2, <3>3
  <2> HIDE DEF p
  <2>4. th'[t] = "send" /\ look'[t] = look[t] /\ req'[t].path = p
    BY <1>a, <1>1, <2>1 DEF ConnType, conn, p
  <2>5. LookOK(t)' BY <1>1, <1>2, <2>3, <2>4 DEF LookOK, Absent, Paths
  <2>6. FileType' /\ CacheInv' BY <1>a, <1>1, <2>1 DEF FileType, CacheInv, Held, Paths
  <2> QED BY <1>1, <1>2, <2>1, <2>2, <2>5, <2>6, WorkKeeps DEF Working, FileLabels
<1>5. CASE ~ (f.kind = "none" \/ g.kind = "none")
  <2> DEFINE lk == [key |-> k, file |-> None, stat |-> g]
  <2>1. th' = [th EXCEPT ![t] = "load"] /\ look' = [look EXCEPT ![t] = lk] BY <1>1, <1>5
  <2>2. k \in Paths /\ g = fs[k] BY <1>5 DEF File
  <2>3. g \in FileStates /\ g.kind # "none" BY <1>a, <1>5, <2>2 DEF FileType, Paths
  <2> HIDE DEF k, g, p
  <2>4. lk \in Looks /\ lk.key = k /\ lk.stat = g BY <1>3, <2>3 DEF Looks
  <2> HIDE DEF lk
  <2>5. th'[t] = "load" /\ look'[t] = lk /\ req'[t].path = p
    BY <1>a, <1>1, <2>1 DEF ConnType, FileType, conn, p
  <2>6. k \in Paths' /\ fs'[k] = g BY <1>1, <2>2 DEF Paths
  <2>7. LookOK(t)' BY <1>3, <2>3, <2>4, <2>5, <2>6 DEF LookOK
  <2>8. FileType' /\ CacheInv' BY <1>a, <1>1, <2>1, <2>4 DEF FileType, CacheInv, Held, Paths
  <2> QED BY <1>1, <2>1, <2>4, <2>7, <2>8, WorkKeeps DEF Working, FileLabels
<1> QED BY <1>4, <1>5

\* What is read is the content, or garbage if the file has changed since stat.
LEMMA LoadKeeps ==
    ASSUME WebInv, NEW t \in Threads, Load(t)
    PROVE  WebInv'
<1> DEFINE f == File(look[t].key)
           c == IF f = look[t].stat THEN Content(f) ELSE "garbage"
           k == [look[t] EXCEPT !.file = c]
<1>a. FileType /\ CacheInv /\ ConnType BY DEF WebInv
<1>1. /\ th[t] = "load" /\ th[t] \in Working /\ th[t] \in FileLabels
      /\ UNCHANGED <<towa_flag, conn, cache, fs, changes, cut, was, lost>>
      /\ th' = [th EXCEPT ![t] = "store"] /\ look' = [look EXCEPT ![t] = k]
  BY DEF Load, At, Goto, Working, FileLabels
<1>2. /\ look[t] \in Looks /\ look[t].key \in {req[t].path, Index(req[t].path)} \cap Paths
      /\ changes = 0 => look[t].stat = fs[look[t].key]
  BY <1>1, WorkingOK DEF LookOK
<1>3. f = fs[look[t].key] /\ f \in FileStates /\ Content(f) \in was[look[t].key]
  BY <1>a, <1>2 DEF File, FileType, CacheInv, Paths
<1> HIDE DEF f
<1>4. Content(f) \in Contents BY <1>3 DEF Content, FileStates, Contents
<1>5. c \in Contents /\ c # None /\ Held(c, look[t].key)
  <2>1. c \in Contents /\ c # None BY <1>4, WebAssumption DEF Contents
  <2>2. CASE changes = 0 BY <1>2, <1>3, <2>1, <2>2 DEF Held
  <2>3. CASE changes # 0
    <3>1. changes > 0 BY <1>a, <2>3 DEF FileType
    <3> QED BY <1>3, <2>1, <3>1 DEF Held
  <2> QED BY <2>2, <2>3
<1> HIDE DEF c
<1>6. k \in Looks /\ k.file = c /\ k.key = look[t].key BY <1>2, <1>5 DEF Looks
<1> HIDE DEF k
<1>7. th'[t] = "store" /\ look'[t] = k /\ req'[t].path = req[t].path
  BY <1>a, <1>1 DEF ConnType, FileType, conn
<1>8. LookOK(t)' BY <1>1, <1>2, <1>5, <1>6, <1>7 DEF LookOK, Held, Paths
<1>9. FileType' /\ CacheInv' BY <1>a, <1>1, <1>6 DEF FileType, CacheInv, Held, Paths
<1> QED BY <1>1, <1>6, <1>8, <1>9, WorkKeeps DEF Working, FileLabels

\* The cache gets what was read, under the key it was read from.
LEMMA StoreKeeps ==
    ASSUME WebInv, NEW t \in Threads, Store(t)
    PROVE  WebInv'
<1>a. FileType /\ CacheInv /\ ConnType BY DEF WebInv
<1>1. /\ th[t] = "store" /\ th[t] \in Working /\ th[t] \in FileLabels
      /\ UNCHANGED <<towa_flag, conn, look, fs, changes, cut, was, lost>>
      /\ th' = [th EXCEPT ![t] = "send"]
      /\ cache' = [k \in DOMAIN cache \cup {look[t].key} |->
                     IF k = look[t].key THEN look[t].file ELSE cache[k]]
  BY DEF Store, At, Goto, Working, FileLabels, hist
<1>2. /\ look[t] \in Looks /\ look[t].key \in {req[t].path, Index(req[t].path)} \cap Paths
      /\ look[t].file # None /\ Held(look[t].file, look[t].key)
  BY <1>1, WorkingOK DEF LookOK
<1>3. look[t].file \in Contents BY <1>2 DEF Looks
<1>4. th'[t] = "send" /\ req'[t].path = req[t].path /\ look' = [look EXCEPT ![t] = look[t]]
  BY <1>a, <1>1 DEF ConnType, FileType, conn
<1>5. LookOK(t)' BY <1>1, <1>2, <1>4 DEF LookOK, Held, Paths
<1>6. FileType'
  <2>1. cache' \in [DOMAIN cache' -> Contents] BY <1>a, <1>1, <1>3 DEF FileType
  <2> QED BY <1>a, <1>1, <2>1 DEF FileType
<1>7. CacheInv'
  <2>1. \A k \in DOMAIN cache' : k \in Paths /\ Held(cache'[k], k)
    BY <1>a, <1>1, <1>2 DEF CacheInv
  <2> QED BY <1>a, <1>1, <2>1 DEF CacheInv, Held, Paths
<1> QED BY <1>1, <1>2, <1>4, <1>5, <1>6, <1>7, WorkKeeps DEF Working, FileLabels

\* The thread goes into sendMsg.
LEMMA CallKeeps ==
    ASSUME WebInv, NEW t \in Threads, Call(t)
    PROVE  WebInv'
<1>a. FileType /\ CacheInv /\ ConnType BY DEF WebInv
<1>1. /\ th[t] = "call" /\ th[t] \in Working
      /\ UNCHANGED <<towa_flag, conn, cache, look, fs, changes, cut, was, lost>>
      /\ th' = [th EXCEPT ![t] = "answer"]
  BY DEF Call, At, Goto, Working, files, hist
<1>2. th'[t] = "answer" /\ look' = [look EXCEPT ![t] = look[t]] /\ look[t] \in {None} \cup Looks
  BY <1>a, <1>1 DEF ConnType, FileType
<1>3. LookOK(t)' BY <1>2 DEF LookOK
<1>4. FileType' /\ CacheInv' BY <1>a, <1>1 DEF FileType, CacheInv, Held, Paths
<1> QED BY <1>1, <1>2, <1>3, <1>4, WorkKeeps DEF Working, FileLabels

\* Somebody changes a file: what it has contained before stays recorded.
LEMMA ChangeKeeps ==
    ASSUME WebInv, NEW p \in Edited, Change(p)
    PROVE  WebInv'
<1>a. ConnType /\ FileType /\ CacheInv /\ \A u \in Threads : ThreadOK(u)
  BY DEF WebInv
<1>b. /\ changes' = changes + 1
      /\ fs' \in {[fs EXCEPT ![p].version = "new"],
                  [fs EXCEPT ![p] = [kind |-> "none", ox |-> FALSE, version |-> "none"]]}
      /\ was' = [was EXCEPT ![p] = was[p] \cup {Content(fs'[p])}]
  BY DEF Change
<1>c. UNCHANGED <<towa_flag, th, todo, asked, wire, top, parts, req, out, cache, look, cut, lost>>
  BY DEF Change, conn
<1>d. p \in DOMAIN Files /\ DOMAIN fs = DOMAIN Files
  BY <1>a, WebAssumption DEF FileType
<1>1. fs' \in [DOMAIN Files -> FileStates] /\ \A k \in DOMAIN Files \ {p} : fs'[k] = fs[k]
  <2>1. CASE fs' = [fs EXCEPT ![p].version = "new"]
    <3>1. [fs[p] EXCEPT !.version = "new"] \in FileStates
      BY <1>a, <1>d DEF FileType, FileStates, Contents
    <3>2. fs' = [fs EXCEPT ![p] = [fs[p] EXCEPT !.version = "new"]] BY <2>1
    <3> QED BY <1>a, <1>d, <3>1, <3>2 DEF FileType
  <2>2. CASE fs' = [fs EXCEPT ![p] = [kind |-> "none", ox |-> FALSE, version |-> "none"]]
    <3>1. [kind |-> "none", ox |-> FALSE, version |-> "none"] \in FileStates
      BY DEF FileStates, Contents
    <3> QED BY <1>a, <1>d, <2>2, <3>1 DEF FileType
  <2> QED BY <1>b, <2>1, <2>2
<1>2. Paths' = Paths /\ Paths = DOMAIN Files BY <1>d, <1>1 DEF Paths
<1>3. Content(fs'[p]) \in Contents
  <2>1. fs'[p] \in FileStates BY <1>d, <1>1
  <2> QED BY <2>1 DEF Content, FileStates, Contents
<1>4. changes' \in Nat /\ changes' > 0 /\ changes' # 0 BY <1>a, <1>b DEF FileType
<1>5. /\ was' \in [DOMAIN Files -> SUBSET Contents]
      /\ \A k \in Paths : was[k] \subseteq was'[k]
      /\ Content(fs'[p]) \in was'[p]
  BY <1>a, <1>b, <1>d, <1>2, <1>3 DEF FileType
<1> DEFINE HeldNow(c, k) == c \in was'[k] \/ (changes' > 0 /\ c = "garbage")
<1>6. \A c : \A k \in Paths : Held(c, k) => HeldNow(c, k)
  BY <1>4, <1>5 DEF Held
<1>7. ConnType' BY <1>a, <1>c DEF ConnType
<1>8. FileType' BY <1>a, <1>c, <1>1, <1>4, <1>5 DEF FileType
<1>9. CacheInv'
  <2>1. \A k \in DOMAIN cache : k \in Paths' /\ HeldNow(cache[k], k)
    BY <1>a, <1>2, <1>6 DEF CacheInv
  <2>2. \A k \in Paths : Content(fs'[k]) \in was'[k]
    BY <1>a, <1>1, <1>2, <1>5 DEF CacheInv, Content
  <2> QED BY <1>c, <1>2, <1>4, <2>1, <2>2 DEF CacheInv, Held
<1>10. ASSUME NEW u \in Threads PROVE ThreadOK(u)'
  <2>a. PlaceOK(u) /\ SentOK(u) /\ OrderOK(u) /\ BufferOK(u) /\ LookOK(u) /\ ServedOK(u)
    BY <1>a DEF ThreadOK
  <2>1. PlaceOK(u)' BY <1>c, <2>a DEF PlaceOK
  <2>2. SentOK(u)' BY <1>c, <2>a DEF SentOK
  <2>3. OrderOK(u)' BY <1>c, <2>a DEF OrderOK
  <2>4. BufferOK(u)' BY <1>c, <2>a DEF BufferOK, FillsBuffer
  <2>5. LookOK(u)'
    <3>1. look[u].key \in Paths /\ Held(look[u].file, look[u].key) => HeldNow(look[u].file, look[u].key)
      BY <1>6
    <3>2. (\E k \in {req[u].path, Index(req[u].path)} \cap Paths : Held(look[u].file, k)) =>
            \E k \in {req[u].path, Index(req[u].path)} \cap Paths : HeldNow(look[u].file, k)
      BY <1>6
    <3> QED BY <1>c, <1>2, <1>4, <2>a, <3>1, <3>2 DEF LookOK, Held
  <2>6. ServedOK(u)'
    <3> SUFFICES ASSUME NEW i \in 1 .. Len(out[u]), NEW q, q = asked[u][out[u][i].of].path,
                        ~ towa_flag /\ out[u][i].code = 200
                 PROVE  \E k \in {q, Index(q)} \cap Paths : HeldNow(out[u][i].body, k)
      BY <1>c, <1>2, <1>4 DEF ServedOK, Held
    <3>1. \E k \in {q, Index(q)} \cap Paths : Held(out[u][i].body, k)
      BY <2>a DEF ServedOK
    <3> QED BY <1>6, <3>1
  <2> QED BY <2>1, <2>2, <2>3, <2>4, <2>5, <2>6 DEF ThreadOK
<1> QED BY <1>7, <1>8, <1>9, <1>10 DEF WebInv

\* Nothing of WebInv is Towa's.
LEMMA WebFrame ==
    ASSUME WebInv, UNCHANGED wvars
    PROVE  WebInv'
<1>1. UNCHANGED <<towa_flag, th, todo, asked, wire, top, parts, req, out, cache, look, fs, changes,
                  cut, was, lost>>
  BY DEF wvars, conn, files, hist
<1>2. ConnType' /\ FileType' /\ CacheInv'
  BY <1>1 DEF WebInv, ConnType, FileType, CacheInv, Held, Paths
<1>3. \A u \in Threads : Same(u) BY <1>1 DEF Same
<1>4. \A u \in Threads : ThreadOK(u)' BY <1>1, <1>3, OthersKeep DEF WebInv
<1> QED BY <1>2, <1>4 DEF WebInv

\* The server starts with no connection.
LEMMA WebStarts ==
    ASSUME Init
    PROVE  WebInv
<1>a. /\ towa_flag \in Flags
      /\ th = [t \in Threads |-> "accept"]
      /\ todo \in [Threads -> Scripts[towa_flag]] /\ asked = [t \in Threads |-> <<>>]
      /\ wire = [t \in Threads |-> <<>>] /\ top = [t \in Threads |-> <<>>]
      /\ parts = [t \in Threads |-> 0] /\ req = [t \in Threads |-> None]
      /\ out = [t \in Threads |-> <<>>]
      /\ cache = [k \in {} |-> None] /\ look = [t \in Threads |-> None]
      /\ fs = Files /\ changes = 0 /\ cut = {} /\ lost = {}
      /\ was = [p \in Paths |-> {Content(fs[p])}]
  BY DEF Init
<1>1. ConnType
  <2>1. todo \in [Threads -> Seq(Requests)] /\ towa_flag \in BOOLEAN
    BY <1>a, WebAssumption
  <2>2. /\ asked \in [Threads -> Seq(Requests)] /\ wire \in [Threads -> Seq(Units)]
        /\ top \in [Threads -> Seq(Units)] /\ out \in [Threads -> Seq(Replies)]
    BY <1>a, EmptySeq
  <2>3. /\ th \in [Threads -> Labels] /\ parts \in [Threads -> Nat]
        /\ req \in [Threads -> {None} \cup Parseds]
        /\ cut \subseteq Threads /\ lost \subseteq Threads
    BY <1>a DEF Labels
  <2> QED BY <2>1, <2>2, <2>3 DEF ConnType
<1>2. Paths = DOMAIN Files /\ \A p \in DOMAIN Files : fs[p] \in FileStates /\ Content(fs[p]) \in Contents
  <2>1. Paths = DOMAIN Files /\ \A p \in DOMAIN Files : fs[p] \in FileStates
    BY <1>a, WebAssumption DEF Paths
  <2> QED BY <2>1 DEF Content, FileStates, Contents
<1>3. FileType
  <2>1. fs \in [DOMAIN Files -> FileStates] BY <1>a, WebAssumption
  <2>2. was \in [DOMAIN Files -> SUBSET Contents] BY <1>a, <1>2
  <2>3. cache \in [DOMAIN cache -> Contents] /\ look \in [Threads -> {None} \cup Looks] BY <1>a
  <2> QED BY <1>a, <2>1, <2>2, <2>3 DEF FileType
<1>4. CacheInv BY <1>a, <1>2 DEF CacheInv
<1>5. ASSUME NEW t \in Threads PROVE ThreadOK(t)
  <2>1. /\ th[t] = "accept" /\ asked[t] = <<>> /\ wire[t] = <<>> /\ top[t] = <<>> /\ parts[t] = 0
        /\ out[t] = <<>> /\ t \notin cut /\ t \notin lost
    BY <1>a
  <2>2. Len(asked[t]) = 0 /\ Len(wire[t]) = 0 /\ Len(top[t]) = 0 /\ Len(out[t]) = 0
    BY <2>1, EmptySeq
  <2> USE DEF Working, FileLabels
  <2>3. PlaceOK(t) /\ LookOK(t) BY <2>1 DEF PlaceOK, LookOK
  <2>4. SentOK(t) /\ ServedOK(t) /\ BufferOK(t) BY <2>1, <2>2 DEF SentOK, ServedOK, BufferOK
  <2>5. OrderOK(t) BY <2>1, <2>2 DEF OrderOK
  <2> QED BY <2>3, <2>4, <2>5 DEF ThreadOK
<1> QED BY <1>1, <1>3, <1>4, <1>5 DEF WebInv

-----------------------------------------------------------------------------
(***************************************************************************)
(* Towa.                                                                   *)
(***************************************************************************)

\* Who is in sendMsg, and what it relies on.
LEMMA CallerFacts ==
    ASSUME WebInv, TowaInv, NEW t \in Callers, tw[t] # "out"
    PROVE  /\ tw[t] \in MgrLabels
           /\ tw[t] \notin Launching => pid \in Towas
           /\ t = Main => tw[t] \in Launching \cup {"wait"}
           /\ t # Main => t \in Threads /\ tw[Main] = "out" /\ towa_flag /\ pid \in Towas
<1>a. TowaType /\ CallerInv BY DEF TowaInv
<1>1. tw[t] \in MgrLabels BY <1>a DEF TowaType
<1>2. t = Main => tw[t] \in Launching \cup {"wait"} BY <1>a DEF CallerInv
<1>3. ASSUME t # Main
      PROVE  t \in Threads /\ tw[Main] = "out" /\ towa_flag /\ pid \in Towas
  <2>1. t \in Threads BY <1>3 DEF Callers
  <2>2. th[t] = "answer" /\ tw[Main] = "out" BY <1>a, <2>1 DEF CallerInv
  <2>3. towa_flag BY <2>1, <2>2, WorkingOK DEF Working
  <2> QED BY <1>a, <2>1, <2>2, <2>3 DEF CallerInv
<1>4. t = Main /\ tw[t] \notin Launching => pid \in Towas BY <1>a, <1>2 DEF CallerInv
<1> QED BY <1>1, <1>2, <1>3, <1>4

\* Without overlap it is alone, with one process at most.
LEMMA AloneFacts ==
    ASSUME WebInv, TowaInv, NEW t \in Callers, tw[t] # "out", ~ overlap, Up
    PROVE  /\ \A u \in Callers \ {t} : tw[u] = "out"
           /\ \A p \in Towas : Alive(p) => p = pid
           /\ tw[t] \in Launching => \A p \in Towas : ~ Alive(p)
           /\ Exchange(t)
  BY DEF TowaInv, SingleInv, ExchangeInv

\* A step of the caller t from one label to another, or out.
LEMMA MgrKeeps ==
    ASSUME WebInv, TowaInv, UNCHANGED wvars, NEW t \in Callers, tw[t] # "out", Up,
           NEW l \in MgrLabels \cup {"out"}, tw' = [tw EXCEPT ![t] = l],
           UNCHANGED <<tmsg, tans, overlap, died>>,
           TowaType', DeathInv', Survives',
           t = Main => l \in Launching \cup {"wait", "out"},
           t # Main => l # "out",
           pid' \in Towas \/ (pid' = pid /\ l \notin {"wait", "out"}),
           ~ overlap =>
             /\ \A p \in Towas : Alive(p)' => p = pid'
             /\ l \in Launching => \A p \in Towas : ~ Alive(p)'
             /\ Up' => Exchange(t)' /\ (l = "out" => Idle')
    PROVE  TowaInv'
<1>a. TowaType /\ CallerInv /\ OwnAnswer BY DEF TowaInv
<1>b. UNCHANGED <<towa_flag, th, req, out>> BY DEF wvars, conn
<1>c. tw'[t] = l /\ \A u \in Callers \ {t} : tw'[u] = tw[u] BY <1>a DEF TowaType
<1>d. Main \in Callers /\ \A u \in Threads : u \in Callers /\ u # Main BY WebAssumption DEF Callers
<1>1. CallerInv'
  <2>1. tw'[Main] \in Launching \cup {"wait", "out"}
    BY <1>a, <1>c, <1>d DEF CallerInv
  <2>2. tw'[Main] # "out" => \A u \in Threads : th'[u] = "accept"
    <3>1. CASE t = Main BY <1>a, <1>b, <3>1 DEF CallerInv
    <3>2. CASE t # Main BY <1>a, <1>b, <1>c, <1>d, <3>2 DEF CallerInv
    <3> QED BY <3>1, <3>2
  <2>3. ASSUME NEW u \in Threads
        PROVE  /\ tw'[u] # "out" => th'[u] = "answer" /\ tmsg'[u] \in Messages
                                    /\ tmsg'[u].from = u /\ tmsg'[u].of = req'[u].of
               /\ th'[u] = "answer" /\ tw'[u] = "out" /\ Up' => tans'[u] \in Results
    <3>1. tw'[u] # "out" <=> tw[u] # "out" BY <1>c, <1>d
    <3> QED BY <1>a, <1>b, <3>1 DEF CallerInv
  <2>4. (towa_flag' /\ tw'[Main] = "out") \/ tw'[Main] = "wait" => pid' \in Towas
    <3>1. CASE t = Main BY <1>c, <3>1
    <3>2. CASE t # Main
      <4>1. pid \in Towas BY <3>2, CallerFacts
      <4> QED BY <4>1
    <3> QED BY <3>1, <3>2
  <2> QED BY <2>1, <2>2, <2>3, <2>4 DEF CallerInv
<1>2. SingleInv'
  <2> SUFFICES ASSUME ~ overlap PROVE SingleInv' BY DEF SingleInv
  <2>1. \A u \in Callers \ {t} : tw[u] = "out" BY AloneFacts
  <2>2. \A u \in Callers \ {t} : tw'[u] = "out" BY <1>c, <2>1
  <2>3. \A u \in Callers : tw'[u] \in Launching => u = t /\ l \in Launching
    BY <1>c, <2>2 DEF Launching
  <2> QED BY <2>2, <2>3 DEF SingleInv
<1>3. ExchangeInv'
  <2> SUFFICES ASSUME ~ overlap, Up' PROVE ExchangeInv' BY DEF ExchangeInv
  <2>1. \A u \in Callers \ {t} : tw'[u] = "out" BY <1>c, AloneFacts
  <2>2. \A u \in Callers \ {t} : Exchange(u)' BY <2>1 DEF Exchange, Launching
  <2>3. (\A u \in Callers : tw'[u] = "out") => Idle' BY <1>c
  <2>4. \A u \in Threads : th'[u] = "answer" /\ tw'[u] = "out" => HasAnswer(u)'
    <3> TAKE u \in Threads
    <3>1. tw'[u] = "out" <=> tw[u] = "out" BY <1>c, <1>d
    <3>2. th[u] = "answer" /\ tw[u] = "out" => HasAnswer(u) BY DEF TowaInv, ExchangeInv
    <3> QED BY <1>b, <3>1, <3>2 DEF HasAnswer
  <2> QED BY <2>2, <2>3, <2>4 DEF ExchangeInv
<1>4. OwnAnswer' BY <1>a, <1>b DEF OwnAnswer
<1> QED BY <1>1, <1>2, <1>3, <1>4 DEF TowaInv

\* check reaps a dead process and then launches another one.
LEMMA CheckKeeps ==
    ASSUME WebInv, TowaInv, UNCHANGED wvars, NEW t \in Callers, Check(t)
    PROVE  TowaInv'
<1> DEFINE l == IF Alive(pid) THEN "ping" ELSE "start"
<1>a. TowaType /\ DeathInv BY DEF TowaInv
<1>b. /\ Up /\ tw[t] = "check" /\ tw' = [tw EXCEPT ![t] = l]
      /\ proc' = [proc EXCEPT ![pid] = IF proc[pid] = "zombie" THEN "gone" ELSE proc[pid]]
      /\ UNCHANGED <<tmsg, tans, pid, job, pipes, war, down, overlap, died>>
      /\ UNCHANGED <<ping, pong, fp_ping, fp_pong, wfiles, rfiles>>
  BY DEF Check, Step, pipes
<1>c. pid \in Towas /\ t # Main BY <1>b, CallerFacts DEF Launching
<1>d. /\ proc'[pid] = IF proc[pid] = "zombie" THEN "gone" ELSE proc[pid]
      /\ \A p \in Towas \ {pid} : proc'[p] = proc[p]
  BY <1>a, <1>b, <1>c DEF TowaType
<1>e. tw'[t] = l BY <1>a, <1>b DEF TowaType
<1>1. \A p \in Towas : (Alive(p)' <=> Alive(p)) BY <1>c, <1>d DEF Alive
<1>2. l \in MgrLabels /\ l # "out" /\ l # "wait" BY DEF MgrLabels, Launching
<1> HIDE DEF l
<1>3. TowaType'
  <2>1. tw' \in [Callers -> MgrLabels \cup {"out"}] BY <1>a, <1>b, <1>2 DEF TowaType
  <2>2. proc' \in [Towas -> ProcLabels]
    <3>1. proc[pid] \in ProcLabels BY <1>a, <1>c DEF TowaType
    <3> QED BY <1>a, <1>b, <3>1 DEF TowaType, ProcLabels, Dead
  <2>3. \A p \in Towas : proc'[p] \in {"serve", "pong", "writing"} => proc'[p] = proc[p] BY <1>d
  <2> QED BY <1>a, <1>b, <2>1, <2>2, <2>3 DEF TowaType
<1>4. DeathInv' BY <1>a, <1>b, <1>c, <1>d DEF DeathInv
<1>5. Survives' BY <1>b DEF Survives, Up
<1>6. ~ overlap =>
        /\ \A p \in Towas : Alive(p)' => p = pid'
        /\ l \in Launching => \A p \in Towas : ~ Alive(p)'
        /\ Exchange(t)'
  <2> SUFFICES ASSUME ~ overlap
               PROVE  /\ \A p \in Towas : Alive(p) => p = pid
                      /\ l \in Launching => \A p \in Towas : ~ Alive(p)
                      /\ Exchange(t)'
    BY <1>b, <1>1
  <2>1. (\A p \in Towas : Alive(p) => p = pid) /\ Exchange(t) BY <1>b, AloneFacts
  <2>2. l \in Launching => ~ Alive(pid) BY DEF l, Launching
  <2>3. Quiet /\ proc[pid] \in Between BY <1>b, <2>1 DEF Exchange
  <2>4. Quiet' /\ proc'[pid'] \in Between BY <1>b, <1>d, <2>3 DEF Quiet, Between
  <2>5. tw'[t] \in {"ping", "start"} BY <1>e DEF l
  <2>6. Exchange(t)' BY <2>4, <2>5 DEF Exchange, Launching
  <2> QED BY <2>1, <2>2, <2>6
<1> QED BY <1>b, <1>c, <1>2, <1>3, <1>4, <1>5, <1>6, MgrKeeps

\* scanClasspath and readWebXML.
LEMMA ScanKeeps ==
    ASSUME WebInv, TowaInv, UNCHANGED wvars, NEW t \in Callers, Scan(t) \/ ReadWebXML(t)
    PROVE  TowaInv'
<1>a. TowaType /\ DeathInv BY DEF TowaInv
<1>1. PICK l \in {"xml", "launch"} : tw' = [tw EXCEPT ![t] = l]
  BY DEF Scan, ReadWebXML, Step
<1>2. /\ Up /\ tw[t] \in Launching
      /\ UNCHANGED <<tmsg, tans, pid, proc, job, pipes, overlap, died>>
      /\ UNCHANGED <<ping, pong, fp_ping, fp_pong, wfiles, rfiles>>
      /\ down' = down \/ (down' = "web.xml" /\ war # "dir" /\ war' = war)
  BY DEF Scan, ReadWebXML, Step, pipes, Launching
<1>3. tw'[t] = l /\ tw[t] # "out" BY <1>a, <1>1, <1>2 DEF TowaType, Launching
<1>4. TowaType' BY <1>a, <1>1, <1>2 DEF TowaType, MgrLabels, Launching
<1>5. DeathInv' BY <1>a, <1>2 DEF DeathInv
<1>6. Survives' BY <1>2 DEF Survives, Up
<1>7. ~ overlap =>
        /\ \A p \in Towas : ~ Alive(p)'
        /\ Up' => Exchange(t)'
  <2> SUFFICES ASSUME ~ overlap PROVE (\A p \in Towas : ~ Alive(p)') /\ Exchange(t)' OBVIOUS
  <2>1. (\A p \in Towas : ~ Alive(p)) /\ Exchange(t) BY <1>2, <1>3, AloneFacts
  <2>2. Quiet' BY <1>2, <2>1 DEF Exchange, Quiet
  <2> QED BY <1>2, <1>3, <2>1, <2>2 DEF Exchange, Alive, Launching
<1> QED BY <1>1, <1>2, <1>3, <1>4, <1>5, <1>6, <1>7, MgrKeeps DEF MgrLabels, Launching

\* fork: only when nothing runs any more, if nothing overlapped.
LEMMA LaunchKeeps ==
    ASSUME WebInv, TowaInv, UNCHANGED wvars, NEW t \in Callers, Launch(t)
    PROVE  TowaInv'
<1>a. TowaType /\ DeathInv BY DEF TowaInv
<1>b. /\ Up /\ tw[t] = "launch" /\ tw' = [tw EXCEPT ![t] = "wait"]
      /\ \E p \in Towas : proc[p] = "none"
      /\ pid' = CHOOSE p \in Towas : proc[p] = "none"
      /\ proc' = [proc EXCEPT ![pid'] = "boot"]
      /\ UNCHANGED <<tmsg, tans, job, pipes, war, down, overlap, died>>
      /\ UNCHANGED <<ping, pong, fp_ping, fp_pong, wfiles, rfiles>>
  BY DEF Launch, Step, pipes
<1>1. pid' \in Towas BY <1>b
<1>2. /\ proc'[pid'] = "boot" /\ \A p \in Towas \ {pid'} : proc'[p] = proc[p]
      /\ proc' \in [Towas -> ProcLabels]
  BY <1>a, <1>b, <1>1 DEF TowaType, ProcLabels
<1>3. tw'[t] = "wait" BY <1>a, <1>b DEF TowaType
<1>4. TowaType'
  <2>1. tw' \in [Callers -> MgrLabels \cup {"out"}] BY <1>a, <1>b DEF TowaType, MgrLabels
  <2>2. \A p \in Towas : proc'[p] \in {"serve", "pong", "writing"} => proc'[p] = proc[p] BY <1>2
  <2> QED BY <1>a, <1>b, <1>2, <2>1, <2>2 DEF TowaType
<1>5. DeathInv' BY <1>a, <1>b, <1>2 DEF DeathInv
<1>6. Survives' BY <1>b DEF Survives, Up
<1>7. ~ overlap => (\A p \in Towas : Alive(p)' => p = pid') /\ Exchange(t)'
  <2> SUFFICES ASSUME ~ overlap PROVE (\A p \in Towas : Alive(p)' => p = pid') /\ Exchange(t)' OBVIOUS
  <2>1. (\A p \in Towas : ~ Alive(p)) /\ Exchange(t) BY <1>b, AloneFacts DEF Launching
  <2>2. Quiet' BY <1>b, <2>1 DEF Exchange, Quiet, Launching
  <2>3. \A p \in Towas : Alive(p)' => p = pid' BY <1>2, <2>1 DEF Alive
  <2> QED BY <1>2, <1>3, <2>2, <2>3 DEF Exchange, Between, Launching
<1> QED BY <1>b, <1>1, <1>3, <1>4, <1>5, <1>6, <1>7, MgrKeeps DEF MgrLabels, Launching

\* The waitpid after it: a process that is dead already is the end.
LEMMA LaunchWaitKeeps ==
    ASSUME WebInv, TowaInv, UNCHANGED wvars, NEW t \in Callers, LaunchWait(t)
    PROVE  TowaInv'
<1> DEFINE l == IF t = Main THEN "out" ELSE "ping"
<1>a. TowaType /\ DeathInv BY DEF TowaInv
<1>b. /\ Up /\ tw[t] = "wait" /\ tw' = [tw EXCEPT ![t] = l]
      /\ proc' = [proc EXCEPT ![pid] = IF proc[pid] = "zombie" THEN "gone" ELSE proc[pid]]
      /\ down' = IF Alive(pid) THEN down ELSE "spawn"
      /\ UNCHANGED <<tmsg, tans, pid, job, pipes, war, overlap, died>>
      /\ UNCHANGED <<ping, pong, fp_ping, fp_pong, wfiles, rfiles>>
  BY DEF LaunchWait, Step, pipes
<1>c. pid \in Towas /\ (t = Main \/ t \in Threads) BY <1>b, CallerFacts DEF Launching
<1>d. /\ proc'[pid] = IF proc[pid] = "zombie" THEN "gone" ELSE proc[pid]
      /\ \A p \in Towas \ {pid} : proc'[p] = proc[p]
  BY <1>a, <1>b, <1>c DEF TowaType
<1>e. tw'[t] = l BY <1>a, <1>b DEF TowaType
<1>1. \A p \in Towas : (Alive(p)' <=> Alive(p)) BY <1>c, <1>d DEF Alive
<1>2. /\ l \in {"ping", "out"} /\ (t = Main => l = "out") /\ (t # Main => l # "out")
      /\ l \in MgrLabels \cup {"out"}
  BY DEF MgrLabels
<1> HIDE DEF l
<1>3. TowaType'
  <2>1. tw' \in [Callers -> MgrLabels \cup {"out"}] BY <1>a, <1>b, <1>2 DEF TowaType
  <2>2. proc' \in [Towas -> ProcLabels]
    <3>1. proc[pid] \in ProcLabels BY <1>a, <1>c DEF TowaType
    <3> QED BY <1>a, <1>b, <3>1 DEF TowaType, ProcLabels, Dead
  <2>3. \A p \in Towas : proc'[p] \in {"serve", "pong", "writing"} => proc'[p] = proc[p] BY <1>d
  <2> QED BY <1>a, <1>b, <2>1, <2>2, <2>3 DEF TowaType
<1>4. DeathInv' BY <1>a, <1>b, <1>c, <1>d DEF DeathInv
<1>5. Survives'
  <2>1. CASE Alive(pid) BY <1>b, <2>1 DEF Survives, Up
  <2>2. CASE ~ Alive(pid) /\ overlap BY <1>b, <2>2 DEF Survives
  <2>3. CASE ~ Alive(pid) /\ ~ overlap
    <3>1. Exchange(t) BY <1>b, <2>3, AloneFacts
    <3>2. proc[pid] \in Between BY <1>b, <3>1 DEF Exchange
    <3>3. proc[pid] \in {"zombie", "gone"} BY <2>3, <3>2 DEF Between, Alive
    <3>4. died BY <1>a, <1>c, <3>3 DEF DeathInv
    <3> QED BY <1>b, <2>3, <3>4 DEF Survives
  <2> QED BY <2>1, <2>2, <2>3
<1>6. ~ overlap =>
        /\ \A p \in Towas : Alive(p)' => p = pid'
        /\ Exchange(t)' /\ Idle'
  <2> SUFFICES ASSUME ~ overlap
               PROVE  (\A p \in Towas : Alive(p) => p = pid) /\ Exchange(t)' /\ Idle'
    BY <1>b, <1>1
  <2>1. (\A p \in Towas : Alive(p) => p = pid) /\ Exchange(t) BY <1>b, AloneFacts
  <2>2. Quiet /\ proc[pid] \in Between BY <1>b, <2>1 DEF Exchange
  <2>3. Quiet' /\ proc'[pid'] \in Between BY <1>b, <1>d, <2>2 DEF Quiet, Between
  <2>4. Exchange(t)' BY <1>2, <1>e, <2>3 DEF Exchange, Launching
  <2> QED BY <2>1, <2>3, <2>4 DEF Idle
<1>7. pid' \in Towas /\ l \notin Launching BY <1>b, <1>c, <1>2 DEF Launching
<1> QED BY <1>b, <1>2, <1>3, <1>4, <1>5, <1>6, <1>7, MgrKeeps

\* fopen of towa_ping: the one reader there is gets it.
LEMMA OpenPingKeeps ==
    ASSUME WebInv, TowaInv, UNCHANGED wvars, NEW t \in Callers, OpenPing(t)
    PROVE  TowaInv'
<1>a. TowaType /\ DeathInv BY DEF TowaInv
<1>b. /\ Up /\ tw[t] = "ping" /\ tw' = [tw EXCEPT ![t] = "write"]
      /\ \E p \in Towas : proc[p] \in {"ping", "reading"}
      /\ proc' = [p \in Towas |-> IF proc[p] = "ping" THEN "reading" ELSE proc[p]]
      /\ wfiles' = wfiles \cup {t} /\ fp_ping' = t
      /\ UNCHANGED <<tmsg, tans, pid, job, ping, pong, fp_pong, rfiles, war, down, overlap, died>>
  BY DEF OpenPing, Step
<1>c. pid \in Towas /\ t # Main BY <1>b, CallerFacts DEF Launching
<1>d. \A p \in Towas : proc'[p] = IF proc[p] = "ping" THEN "reading" ELSE proc[p] BY <1>b
<1>e. tw'[t] = "write" BY <1>a, <1>b DEF TowaType
<1>1. \A p \in Towas : (Alive(p)' <=> Alive(p)) BY <1>d DEF Alive
<1>2. TowaType'
  <2>1. tw' \in [Callers -> MgrLabels \cup {"out"}] BY <1>a, <1>b DEF TowaType, MgrLabels
  <2>2. proc' \in [Towas -> ProcLabels] BY <1>a, <1>b DEF TowaType, ProcLabels
  <2>3. \A p \in Towas : proc'[p] \in {"serve", "pong", "writing"} => proc'[p] = proc[p] BY <1>d
  <2>4. wfiles' \subseteq Callers BY <1>a, <1>b DEF TowaType
  <2> QED BY <1>a, <1>b, <2>1, <2>2, <2>3, <2>4 DEF TowaType
<1>3. DeathInv' BY <1>a, <1>b, <1>d DEF DeathInv
<1>4. Survives' BY <1>b DEF Survives, Up
<1>5. ~ overlap => (\A p \in Towas : Alive(p)' => p = pid') /\ Exchange(t)'
  <2> SUFFICES ASSUME ~ overlap PROVE (\A p \in Towas : Alive(p) => p = pid) /\ Exchange(t)'
    BY <1>b, <1>1
  <2>1. (\A p \in Towas : Alive(p) => p = pid) /\ Exchange(t) BY <1>b, AloneFacts
  <2>2. Quiet /\ proc[pid] \in Between BY <1>b, <2>1 DEF Exchange
  <2>3. proc[pid] \in {"ping", "reading"} BY <1>b, <2>1 DEF Alive
  <2>4. proc'[pid'] = "reading" BY <1>b, <1>c, <1>d, <2>3
  <2>5. /\ ping' = <<>> /\ pong' = <<>> /\ rfiles' = {} /\ wfiles' = {t} /\ fp_ping' = t
    BY <1>b, <2>2 DEF Quiet
  <2>6. Exchange(t)' BY <1>e, <2>4, <2>5 DEF Exchange, Launching
  <2> QED BY <2>1, <2>6
<1> QED BY <1>b, <1>c, <1>2, <1>3, <1>4, <1>5, MgrKeeps DEF MgrLabels, Launching

\* fclose of towa_ping: the request is the only thing in the pipe.
LEMMA WritePingKeeps ==
    ASSUME WebInv, TowaInv, UNCHANGED wvars, NEW t \in Callers, WritePing(t)
    PROVE  TowaInv'
<1>a. TowaType /\ DeathInv /\ CallerInv BY DEF TowaInv
<1>b. /\ Up /\ tw[t] = "write" /\ tw' = [tw EXCEPT ![t] = "pong"]
      /\ \/ /\ fp_ping \in wfiles /\ PingReaders # {}
            /\ ping' = Append(ping, tmsg[t]) /\ wfiles' = wfiles \ {fp_ping}
            /\ UNCHANGED down
         \/ /\ fp_ping \in wfiles /\ PingReaders = {}
            /\ down' = "sigpipe" /\ UNCHANGED <<ping, wfiles>>
         \/ /\ fp_ping \notin wfiles
            /\ down' \in {"no", "fclose"} /\ UNCHANGED <<ping, wfiles>>
      /\ UNCHANGED <<tmsg, tans, pid, proc, job, pong, fp_ping, fp_pong, rfiles, war, overlap, died>>
  BY DEF WritePing, Step
<1>c. pid \in Towas /\ t # Main /\ t \in Threads BY <1>b, CallerFacts DEF Launching
<1>d. tmsg[t] \in Messages BY <1>a, <1>b, <1>c DEF CallerInv
<1>e. tw'[t] = "pong" BY <1>a, <1>b DEF TowaType
<1>f. ~ overlap => /\ \A p \in Towas : Alive(p) => p = pid
                   /\ ping = <<>> /\ pong = <<>> /\ rfiles = {} /\ wfiles = {t} /\ fp_ping = t
                   /\ proc[pid] \in {"reading", "zombie"}
  <2> SUFFICES ASSUME ~ overlap PROVE (\A p \in Towas : Alive(p) => p = pid) /\ Exchange(t)
    BY <1>b DEF Exchange
  <2> QED BY <1>b, AloneFacts
<1>1. TowaType'
  <2>1. tw' \in [Callers -> MgrLabels \cup {"out"}] BY <1>a, <1>b DEF TowaType, MgrLabels
  <2>2. ping' \in Seq(Messages)
    <3>1. ping \in Seq(Messages) BY <1>a DEF TowaType
    <3>2. Append(ping, tmsg[t]) \in Seq(Messages) BY <1>d, <3>1, AppendProperties
    <3> QED BY <1>b, <3>1, <3>2
  <2>3. wfiles' \subseteq Callers BY <1>a, <1>b DEF TowaType
  <2> QED BY <1>a, <1>b, <2>1, <2>2, <2>3 DEF TowaType
<1>2. DeathInv' BY <1>a, <1>b DEF DeathInv
<1>3. Survives'
  <2>1. CASE overlap BY <1>b, <2>1 DEF Survives, Up
  <2>2. CASE ~ overlap
    <3>1. fp_ping \in wfiles BY <1>f, <2>2
    <3>2. PingReaders = {} => died
      <4> SUFFICES ASSUME PingReaders = {} PROVE died OBVIOUS
      <4>1. proc[pid] = "zombie" BY <1>c, <1>f, <2>2 DEF PingReaders
      <4> QED BY <1>a, <1>c, <4>1 DEF DeathInv
    <3> QED BY <1>b, <3>1, <3>2 DEF Survives, Up
  <2> QED BY <2>1, <2>2
<1>4. ~ overlap => (\A p \in Towas : Alive(p)' => p = pid') /\ (Up' => Exchange(t)')
  <2> SUFFICES ASSUME ~ overlap PROVE (\A p \in Towas : Alive(p)' => p = pid') /\ (Up' => Exchange(t)')
    OBVIOUS
  <2>1. \A p \in Towas : Alive(p)' => p = pid' BY <1>b, <1>f DEF Alive
  <2>2. ASSUME Up' PROVE Exchange(t)'
    <3>1. /\ PingReaders # {} /\ ping' = Append(ping, tmsg[t]) /\ wfiles' = wfiles \ {fp_ping}
      BY <1>b, <1>f, <2>2 DEF Up
    <3>2. proc[pid] = "reading" BY <1>f, <3>1 DEF PingReaders, Alive
    <3>3. ping' = <<tmsg[t]>> /\ wfiles' = {} BY <1>f, <3>1
    <3> QED BY <1>b, <1>e, <1>f, <3>2, <3>3 DEF Exchange, Launching
  <2> QED BY <2>1, <2>2
<1> QED BY <1>b, <1>c, <1>1, <1>2, <1>3, <1>4, MgrKeeps DEF MgrLabels, Launching

\* fopen of towa_pong: the process that has the answer opens it too.
LEMMA OpenPongKeeps ==
    ASSUME WebInv, TowaInv, UNCHANGED wvars, NEW t \in Callers, OpenPong(t)
    PROVE  TowaInv'
<1>a. TowaType /\ DeathInv BY DEF TowaInv
<1>b. /\ Up /\ tw[t] = "pong" /\ tw' = [tw EXCEPT ![t] = "read"]
      /\ \E p \in Towas : proc[p] \in {"pong", "writing"}
      /\ proc' = [p \in Towas |-> IF proc[p] = "pong" THEN "writing" ELSE proc[p]]
      /\ rfiles' = rfiles \cup {t} /\ fp_pong' = t
      /\ UNCHANGED <<tmsg, tans, pid, job, ping, pong, fp_ping, wfiles, war, down, overlap, died>>
  BY DEF OpenPong, Step
<1>c. pid \in Towas /\ t # Main BY <1>b, CallerFacts DEF Launching
<1>d. \A p \in Towas : proc'[p] = IF proc[p] = "pong" THEN "writing" ELSE proc[p] BY <1>b
<1>e. tw'[t] = "read" BY <1>a, <1>b DEF TowaType
<1>1. \A p \in Towas : (Alive(p)' <=> Alive(p)) BY <1>d DEF Alive
<1>2. TowaType'
  <2>1. tw' \in [Callers -> MgrLabels \cup {"out"}] BY <1>a, <1>b DEF TowaType, MgrLabels
  <2>2. proc' \in [Towas -> ProcLabels] BY <1>a, <1>b DEF TowaType, ProcLabels
  <2>3. \A p \in Towas : /\ proc'[p] = "serve" => proc[p] = "serve"
                         /\ proc'[p] \in {"pong", "writing"} => proc[p] \in {"pong", "writing"}
    BY <1>d
  <2>4. rfiles' \subseteq Callers BY <1>a, <1>b DEF TowaType
  <2> QED BY <1>a, <1>b, <2>1, <2>2, <2>3, <2>4 DEF TowaType
<1>3. DeathInv' BY <1>a, <1>b, <1>d DEF DeathInv
<1>4. Survives' BY <1>b DEF Survives, Up
<1>5. ~ overlap => (\A p \in Towas : Alive(p)' => p = pid') /\ Exchange(t)'
  <2> SUFFICES ASSUME ~ overlap PROVE (\A p \in Towas : Alive(p) => p = pid) /\ Exchange(t)'
    BY <1>b, <1>1
  <2>1. (\A p \in Towas : Alive(p) => p = pid) /\ Exchange(t) BY <1>b, AloneFacts
  <2>2. /\ pong = <<>> /\ wfiles = {} /\ rfiles = {}
        /\ proc[pid] \in {"reading", "serve", "pong", "zombie"}
        /\ ping = IF proc[pid] = "reading" THEN <<tmsg[t]>> ELSE <<>>
        /\ proc[pid] = "pong" => AnswerFor(job[pid], t)
    BY <1>b, <2>1 DEF Exchange
  <2>3. proc[pid] = "pong" BY <1>b, <2>1, <2>2 DEF Alive
  <2>4. proc'[pid'] = "writing" /\ AnswerFor(job[pid], t)' BY <1>b, <1>c, <1>d, <2>2, <2>3 DEF AnswerFor
  <2>5. ping' = <<>> /\ pong' = <<>> /\ wfiles' = {} /\ rfiles' = {t} /\ fp_pong' = t
    BY <1>b, <2>2, <2>3
  <2>6. Exchange(t)' BY <1>e, <2>4, <2>5 DEF Exchange, Launching
  <2> QED BY <2>1, <2>6
<1> QED BY <1>b, <1>c, <1>2, <1>3, <1>4, <1>5, MgrKeeps DEF MgrLabels, Launching

\* The answer is read: it was computed for the message of this thread.
LEMMA ReadPongKeeps ==
    ASSUME WebInv, TowaInv, UNCHANGED wvars, NEW t \in Callers, ReadPong(t)
    PROVE  TowaInv'
<1>a. TowaType /\ DeathInv /\ CallerInv /\ SingleInv /\ ExchangeInv /\ OwnAnswer BY DEF TowaInv
<1>b. /\ Up /\ tw[t] = "read" /\ tw' = [tw EXCEPT ![t] = "out"]
      /\ \/ /\ fp_pong \in rfiles /\ pong # <<>>
            /\ tans' = [tans EXCEPT ![t] = Head(pong)] /\ tmsg' = [tmsg EXCEPT ![t] = None]
            /\ pong' = <<>> /\ rfiles' = rfiles \ {fp_pong}
            /\ UNCHANGED down
         \/ /\ fp_pong \in rfiles /\ pong = <<>> /\ PongWriters = {}
            /\ down' = "bad_alloc" /\ UNCHANGED <<tmsg, tans, pong, rfiles>>
         \/ /\ fp_pong \notin rfiles
            /\ down' = "fclose" /\ UNCHANGED <<tmsg, tans, pong, rfiles>>
      /\ UNCHANGED <<pid, proc, job, ping, fp_ping, fp_pong, wfiles, war, overlap, died>>
  BY DEF ReadPong, Step
<1>c. pid \in Towas /\ t # Main /\ t \in Threads BY <1>b, CallerFacts DEF Launching
<1>d. UNCHANGED <<towa_flag, th, req, out>> BY DEF wvars, conn
<1>e. tw'[t] = "out" /\ \A u \in Callers \ {t} : tw'[u] = tw[u] BY <1>a, <1>b DEF TowaType
<1>f. Main \in Callers /\ \A u \in Threads : u \in Callers /\ u # Main BY WebAssumption DEF Callers
<1>g. /\ th[t] = "answer" /\ tmsg[t] \in Messages /\ tmsg[t].from = t /\ tmsg[t].of = req[t].of
  BY <1>a, <1>b, <1>c DEF CallerInv
<1>h. ~ overlap => /\ \A u \in Callers \ {t} : tw[u] = "out"
                   /\ ping = <<>> /\ wfiles = {} /\ rfiles = {t} /\ fp_pong = t
                   /\ proc[pid] \in {"writing", "ping", "zombie"}
                   /\ proc[pid] = "writing" => pong = <<>>
                   /\ proc[pid] = "ping" => pong # <<>>
                   /\ pong # <<>> => Head(pong).for = tmsg[t]
  <2> SUFFICES ASSUME ~ overlap PROVE (\A u \in Callers \ {t} : tw[u] = "out") /\ Exchange(t)
    BY <1>b DEF Exchange
  <2> QED BY <1>b, AloneFacts
<1>i. pong \in Seq(Results) /\ (pong # <<>> => Head(pong) \in Results)
  BY <1>a, HeadTailProperties DEF TowaType
<1>j. Up' => /\ fp_pong \in rfiles /\ pong # <<>>
             /\ tans'[t] = Head(pong) /\ (\A u \in Callers \ {t} : tans'[u] = tans[u])
             /\ pong' = <<>> /\ rfiles' = rfiles \ {fp_pong}
  BY <1>a, <1>b DEF Up, TowaType
<1>k. \A u \in Callers \ {t} : tmsg'[u] = tmsg[u] /\ tans'[u] = tans[u]
  BY <1>a, <1>b DEF TowaType
<1>1. TowaType'
  <2>1. tw' \in [Callers -> MgrLabels \cup {"out"}] BY <1>a, <1>b DEF TowaType
  <2>2. tmsg' \in [Callers -> {None} \cup Messages] /\ tans' \in [Callers -> {None} \cup Results]
    BY <1>a, <1>b, <1>i DEF TowaType
  <2>3. pong' \in Seq(Results) /\ rfiles' \subseteq Callers
    BY <1>a, <1>b, EmptySeq DEF TowaType
  <2> QED BY <1>a, <1>b, <2>1, <2>2, <2>3 DEF TowaType
<1>2. CallerInv'
  <2>1. tw'[Main] = tw[Main] BY <1>c, <1>e, <1>f
  <2>2. ASSUME NEW u \in Threads
        PROVE  /\ tw'[u] # "out" => th'[u] = "answer" /\ tmsg'[u] \in Messages
                                    /\ tmsg'[u].from = u /\ tmsg'[u].of = req'[u].of
               /\ th'[u] = "answer" /\ tw'[u] = "out" /\ Up' => tans'[u] \in Results
    <3>1. CASE u = t BY <1>e, <1>i, <1>j, <3>1
    <3>2. CASE u # t
      <4>1. u \in Callers \ {t} BY <1>f, <3>2
      <4>2. tmsg'[u] = tmsg[u] /\ tans'[u] = tans[u] /\ tw'[u] = tw[u] BY <1>e, <1>k, <4>1
      <4> QED BY <1>a, <1>b, <1>d, <4>2 DEF CallerInv
    <3> QED BY <3>1, <3>2
  <2> QED BY <1>a, <1>b, <1>d, <2>1, <2>2 DEF CallerInv
<1>3. DeathInv' BY <1>a, <1>b DEF DeathInv
<1>4. SingleInv'
  <2> SUFFICES ASSUME ~ overlap PROVE SingleInv' BY <1>b DEF SingleInv
  <2>1. \A u \in Callers : tw'[u] = "out" BY <1>e, <1>h
  <2> QED BY <1>a, <1>b, <2>1 DEF SingleInv, Alive, Launching
<1>5. ExchangeInv'
  <2> SUFFICES ASSUME ~ overlap, Up' PROVE ExchangeInv' BY <1>b DEF ExchangeInv
  <2>1. \A u \in Callers : tw'[u] = "out" BY <1>e, <1>h
  <2>2. \A u \in Callers : Exchange(u)' BY <2>1 DEF Exchange, Launching
  <2>3. Idle'
    <3>1. ping' = <<>> /\ pong' = <<>> /\ wfiles' = {} /\ rfiles' = {} BY <1>b, <1>h, <1>j
    <3>2. proc'[pid'] \in Between BY <1>b, <1>h, <1>j DEF Between
    <3> QED BY <3>1, <3>2 DEF Idle, Quiet
  <2>4. \A u \in Threads : th'[u] = "answer" /\ tw'[u] = "out" => HasAnswer(u)'
    <3> TAKE u \in Threads
    <3>1. CASE u = t
      <4>1. tans'[t].for = tmsg[t] BY <1>h, <1>j
      <4> QED BY <1>d, <1>g, <3>1, <4>1 DEF HasAnswer
    <3>2. CASE u # t
      <4>1. u \in Callers \ {t} BY <1>f, <3>2
      <4>2. tans'[u] = tans[u] /\ tw'[u] = tw[u] BY <1>e, <1>k, <4>1
      <4> QED BY <1>a, <1>b, <1>d, <4>2 DEF ExchangeInv, HasAnswer
    <3> QED BY <3>1, <3>2
  <2> QED BY <2>2, <2>3, <2>4 DEF ExchangeInv
<1>6. OwnAnswer' BY <1>a, <1>b, <1>d DEF OwnAnswer
<1>7. Survives'
  <2>1. CASE overlap BY <1>b, <2>1 DEF Survives, Up
  <2>2. CASE ~ overlap
    <3>1. fp_pong \in rfiles BY <1>h, <2>2
    <3>2. pong = <<>> /\ PongWriters = {} => died
      <4> SUFFICES ASSUME pong = <<>>, PongWriters = {} PROVE died OBVIOUS
      <4>1. proc[pid] = "zombie" BY <1>c, <1>h, <2>2 DEF PongWriters
      <4> QED BY <1>a, <1>c, <4>1 DEF DeathInv
    <3> QED BY <1>b, <3>1, <3>2 DEF Survives, Up
  <2> QED BY <2>1, <2>2
<1> QED BY <1>1, <1>2, <1>3, <1>4, <1>5, <1>6, <1>7 DEF TowaInv

\* A step of a process, or of unzip.
LEMMA ProcKeeps ==
    ASSUME WebInv, TowaInv, UNCHANGED wvars, Up, UNCHANGED <<tw, tmsg, tans, pid, down, overlap>>,
           TowaType', DeathInv', \A p \in Towas : Alive(p)' => Alive(p),
           ~ overlap =>
             /\ \A t \in Callers : tw[t] # "out" => Exchange(t)'
             /\ (\A t \in Callers : tw[t] = "out") => Idle'
    PROVE  TowaInv'
<1>a. TowaType /\ CallerInv /\ SingleInv /\ ExchangeInv /\ OwnAnswer BY DEF TowaInv
<1>b. UNCHANGED <<towa_flag, th, req, out>> BY DEF wvars, conn
<1>1. CallerInv' BY <1>a, <1>b DEF CallerInv, Up
<1>2. SingleInv' BY <1>a DEF SingleInv
<1>3. ExchangeInv'
  <2> SUFFICES ASSUME ~ overlap PROVE ExchangeInv' BY DEF ExchangeInv
  <2>1. \A t \in Callers : tw[t] = "out" => Exchange(t)' BY DEF Exchange, Launching
  <2>2. \A t \in Threads : th'[t] = "answer" /\ tw'[t] = "out" => HasAnswer(t)'
    BY <1>a, <1>b DEF ExchangeInv, HasAnswer
  <2> QED BY <2>1, <2>2 DEF ExchangeInv
<1>4. OwnAnswer' BY <1>a, <1>b DEF OwnAnswer
<1>5. Survives' BY DEF Survives, Up
<1> QED BY <1>1, <1>2, <1>3, <1>4, <1>5 DEF TowaInv

\* Without overlap the process that runs is the one the caller talks to.
LEMMA ProcFacts ==
    ASSUME TowaInv, Up, ~ overlap, NEW p \in Towas, Alive(p)
    PROVE  /\ p = pid
           /\ \A t \in Callers : Exchange(t) /\ tw[t] \notin Launching
           /\ (\A t \in Callers : tw[t] = "out") => Idle
  BY DEF TowaInv, SingleInv, ExchangeInv

\* towa is ready.
LEMMA BootKeeps ==
    ASSUME WebInv, TowaInv, UNCHANGED wvars, NEW p \in Towas, Boot(p)
    PROVE  TowaInv'
<1>a. TowaType /\ DeathInv BY DEF TowaInv
<1>b. /\ Up /\ proc[p] = "boot" /\ proc' = [proc EXCEPT ![p] = "ping"] /\ Alive(p)
      /\ UNCHANGED <<tw, tmsg, tans, pid, job, ping, pong, fp_ping, fp_pong, wfiles, rfiles, down, overlap, died>>
  BY DEF Boot, Goes, pipes, Alive
<1>c. proc'[p] = "ping" /\ \A s \in Towas \ {p} : proc'[s] = proc[s] BY <1>a, <1>b DEF TowaType
<1>1. TowaType'
  <2>1. proc' \in [Towas -> ProcLabels] BY <1>a, <1>b DEF TowaType, ProcLabels
  <2>2. \A s \in Towas : proc'[s] \in {"serve", "pong", "writing"} => proc'[s] = proc[s] BY <1>c
  <2> QED BY <1>a, <1>b, <2>1, <2>2 DEF TowaType
<1>2. DeathInv' BY <1>a, <1>b, <1>c DEF DeathInv
<1>3. \A s \in Towas : Alive(s)' => Alive(s) BY <1>b, <1>c DEF Alive
<1>4. ~ overlap =>
        /\ \A t \in Callers : tw[t] # "out" => Exchange(t)'
        /\ (\A t \in Callers : tw[t] = "out") => Idle'
  <2> SUFFICES ASSUME ~ overlap
               PROVE  /\ \A t \in Callers : Exchange(t)'
                      /\ (\A t \in Callers : tw[t] = "out") => Idle'
    OBVIOUS
  <2>1. /\ p = pid /\ \A t \in Callers : Exchange(t) /\ tw[t] \notin Launching
        /\ (\A t \in Callers : tw[t] = "out") => Idle
    BY <1>b, ProcFacts
  <2>2. proc'[pid'] = "ping" /\ proc[pid] = "boot" BY <1>b, <1>c, <2>1
  <2>3. ASSUME NEW t \in Callers PROVE Exchange(t)'
    <3>1. tw[t] \notin {"write", "pong", "read"} BY <2>1, <2>2 DEF Exchange
    <3>2. tw[t] \in {"check", "wait", "ping"} => Quiet' BY <1>b, <2>1 DEF Exchange, Quiet
    <3> QED BY <1>b, <2>1, <2>2, <3>1, <3>2 DEF Exchange, Between
  <2>4. Idle => Idle' BY <1>b, <2>2 DEF Idle, Quiet, Between
  <2> QED BY <2>1, <2>3, <2>4
<1> QED BY <1>b, <1>1, <1>2, <1>3, <1>4, ProcKeeps

\* A process dies, at any point.
LEMMA DieKeeps ==
    ASSUME WebInv, TowaInv, UNCHANGED wvars, NEW p \in Towas, Die(p)
    PROVE  TowaInv'
<1>a. TowaType /\ DeathInv BY DEF TowaInv
<1>b. /\ Up /\ Alive(p) /\ proc' = [proc EXCEPT ![p] = "zombie"] /\ died' = TRUE
      /\ ping' = Keep(wfiles # {} \/ PingReaders \ {p} # {}, ping)
      /\ pong' = Keep(rfiles # {} \/ PongWriters \ {p} # {}, pong)
      /\ UNCHANGED <<tw, tmsg, tans, pid, job, fp_ping, fp_pong, wfiles, rfiles, down, overlap>>
  BY DEF Die, Dies
<1>c. proc'[p] = "zombie" /\ \A s \in Towas \ {p} : proc'[s] = proc[s] BY <1>a, <1>b DEF TowaType
<1>d. ping' \in {ping, <<>>} /\ pong' \in {pong, <<>>} BY <1>b DEF Keep
<1>1. TowaType'
  <2>1. proc' \in [Towas -> ProcLabels] BY <1>a, <1>b DEF TowaType, ProcLabels, Dead
  <2>2. \A s \in Towas : proc'[s] \in {"serve", "pong", "writing"} => proc'[s] = proc[s] BY <1>c
  <2>3. ping' \in Seq(Messages) /\ pong' \in Seq(Results) BY <1>a, <1>d, EmptySeq DEF TowaType
  <2> QED BY <1>a, <1>b, <2>1, <2>2, <2>3 DEF TowaType
<1>2. DeathInv' BY <1>b DEF DeathInv
<1>3. \A s \in Towas : Alive(s)' => Alive(s) BY <1>c DEF Alive
<1>4. ~ overlap =>
        /\ \A t \in Callers : tw[t] # "out" => Exchange(t)'
        /\ (\A t \in Callers : tw[t] = "out") => Idle'
  <2> SUFFICES ASSUME ~ overlap
               PROVE  /\ \A t \in Callers : Exchange(t)'
                      /\ (\A t \in Callers : tw[t] = "out") => Idle'
    OBVIOUS
  <2>1. /\ p = pid /\ \A t \in Callers : Exchange(t) /\ tw[t] \notin Launching
        /\ (\A t \in Callers : tw[t] = "out") => Idle
    BY <1>b, ProcFacts
  <2>2. proc'[pid'] = "zombie" BY <1>b, <1>c, <2>1
  <2>3. PingReaders \ {p} = {}
    BY <1>b, <2>1 DEF PingReaders, Alive, TowaInv, SingleInv
  <2>4. Quiet => Quiet' BY <1>b, <1>d DEF Quiet
  <2>5. ASSUME NEW t \in Callers PROVE Exchange(t)'
    <3>1. tw[t] \in {"check", "wait", "ping"} => Quiet' BY <2>1, <2>4 DEF Exchange
    <3>2. tw[t] = "write" => /\ ping' = <<>> /\ pong' = <<>> /\ rfiles' = {}
                             /\ wfiles' = {t} /\ fp_ping' = t
      BY <1>b, <1>d, <2>1 DEF Exchange
    <3>3. tw[t] = "pong" => pong' = <<>> /\ wfiles' = {} /\ rfiles' = {} /\ ping' = <<>>
      BY <1>b, <1>d, <2>1, <2>3 DEF Exchange, Keep
    <3>4. tw[t] = "read" =>
            /\ ping' = <<>> /\ wfiles' = {} /\ rfiles' = {t} /\ fp_pong' = t
            /\ pong' # <<>> => Head(pong').for = tmsg'[t]
      BY <1>b, <1>d, <2>1 DEF Exchange
    <3> QED BY <1>b, <2>1, <2>2, <3>1, <3>2, <3>3, <3>4 DEF Exchange, Between
  <2>6. Idle => Idle' BY <2>2, <2>4 DEF Idle, Between
  <2> QED BY <2>1, <2>5, <2>6
<1> QED BY <1>b, <1>1, <1>2, <1>3, <1>4, ProcKeeps

\* towa reads the request that is in the pipe.
LEMMA ReadPingKeeps ==
    ASSUME WebInv, TowaInv, UNCHANGED wvars, NEW p \in Towas, ReadPing(p)
    PROVE  TowaInv'
<1> DEFINE j == IF ping = <<>> THEN None ELSE Head(ping)
<1>a. TowaType /\ DeathInv BY DEF TowaInv
<1>b. /\ Up /\ proc[p] = "reading" /\ proc' = [proc EXCEPT ![p] = "serve"] /\ Alive(p)
      /\ ping # <<>> \/ wfiles = {}
      /\ job' = [job EXCEPT ![p] = j] /\ ping' = <<>>
      /\ UNCHANGED <<tw, tmsg, tans, pid, pong, fp_ping, fp_pong, wfiles, rfiles, down, overlap, died>>
  BY DEF ReadPing, Goes, Alive
<1>c. proc'[p] = "serve" /\ \A s \in Towas \ {p} : proc'[s] = proc[s] BY <1>a, <1>b DEF TowaType
<1>d. job'[p] = j /\ (\A s \in Towas \ {p} : job'[s] = job[s]) BY <1>a, <1>b DEF TowaType
<1>e. j \in {None} \cup Messages BY <1>a, HeadTailProperties DEF TowaType
<1>1. TowaType'
  <2>1. proc' \in [Towas -> ProcLabels] BY <1>a, <1>b DEF TowaType, ProcLabels
  <2>2. job' \in [Towas -> {None} \cup Messages \cup Results] BY <1>a, <1>b, <1>e DEF TowaType
  <2>3. \A s \in Towas : /\ proc'[s] = "serve" => job'[s] \in {None} \cup Messages
                         /\ proc'[s] \in {"pong", "writing"} => job'[s] \in {None} \cup Results
    BY <1>a, <1>c, <1>d, <1>e DEF TowaType
  <2>4. ping' \in Seq(Messages) BY <1>b, EmptySeq
  <2> QED BY <1>a, <1>b, <2>1, <2>2, <2>3, <2>4 DEF TowaType
<1>2. DeathInv' BY <1>a, <1>b, <1>c DEF DeathInv
<1>3. \A s \in Towas : Alive(s)' => Alive(s) BY <1>b, <1>c DEF Alive
<1>4. ~ overlap =>
        /\ \A t \in Callers : tw[t] # "out" => Exchange(t)'
        /\ (\A t \in Callers : tw[t] = "out") => Idle'
  <2> SUFFICES ASSUME ~ overlap
               PROVE  /\ \A t \in Callers : Exchange(t)'
                      /\ ~ (\A t \in Callers : tw[t] = "out")
    OBVIOUS
  <2>1. /\ p = pid /\ \A t \in Callers : Exchange(t) /\ tw[t] \notin Launching
        /\ (\A t \in Callers : tw[t] = "out") => Idle
    BY <1>b, ProcFacts
  <2>2. proc'[pid'] = "serve" /\ proc[pid] = "reading" BY <1>b, <1>c, <2>1
  <2>3. ASSUME NEW t \in Callers PROVE Exchange(t)'
    <3>1. tw[t] \notin {"check", "wait", "ping", "read"} BY <2>1, <2>2 DEF Exchange, Between
    <3>2. tw[t] # "write" BY <1>b, <2>1 DEF Exchange
    <3>3. tw[t] = "pong" => /\ pong' = <<>> /\ wfiles' = {} /\ rfiles' = {} /\ ping' = <<>>
                            /\ job'[pid'] = tmsg'[t]
      <4> SUFFICES ASSUME tw[t] = "pong"
                   PROVE  pong' = <<>> /\ wfiles' = {} /\ rfiles' = {} /\ ping' = <<>> /\ job'[pid'] = tmsg'[t]
        OBVIOUS
      <4>1. ping = <<tmsg[t]>> /\ pong = <<>> /\ wfiles = {} /\ rfiles = {} BY <2>1, <2>2 DEF Exchange
      <4>2. j = tmsg[t] BY <4>1
      <4> QED BY <1>b, <1>d, <2>1, <4>1, <4>2
    <3> QED BY <1>b, <2>1, <2>2, <3>1, <3>2, <3>3 DEF Exchange
  <2>4. ~ Idle BY <1>b, <2>1, <2>2 DEF Idle, Between
  <2> QED BY <2>1, <2>3, <2>4
<1> QED BY <1>b, <1>1, <1>2, <1>3, <1>4, ProcKeeps

\* A servlet runs: what it gives is for the message it got.
LEMMA ServeKeeps ==
    ASSUME WebInv, TowaInv, UNCHANGED wvars, NEW p \in Towas, Serve(p)
    PROVE  TowaInv'
<1>a. TowaType /\ DeathInv BY DEF TowaInv
<1>b. /\ Up /\ proc[p] = "serve" /\ proc' = [proc EXCEPT ![p] = "pong"] /\ Alive(p)
      /\ UNCHANGED <<tw, tmsg, tans, pid, ping, pong, fp_ping, fp_pong, wfiles, rfiles, down, overlap, died>>
  BY DEF Serve, Goes, Alive, pipes
<1>1. PICK a \in Outcomes(job[p]) : job' = [job EXCEPT ![p] = a] BY DEF Serve
<1>c. proc'[p] = "pong" /\ \A s \in Towas \ {p} : proc'[s] = proc[s] BY <1>a, <1>b DEF TowaType
<1>d. job'[p] = a /\ (\A s \in Towas \ {p} : job'[s] = job[s]) BY <1>a, <1>1 DEF TowaType
<1>e. a = None \/ (a \in Results /\ a.for = job[p])
  <2>1. CASE job[p] = None BY <1>1, <2>1 DEF Outcomes
  <2>2. CASE job[p] # None
    <3>1. job[p] \in Messages BY <1>a, <1>b, <2>2 DEF TowaType
    <3>2. ASSUME a # None
          PROVE  a \in [for : {job[p]}, code : {404, 500}] \/ a \in [for : {job[p]}, code : {200, 500}]
      BY <1>1, <2>2, <3>2 DEF Outcomes
    <3>3. ASSUME a # None PROVE a \in Results /\ a.for = job[p] BY <3>1, <3>2, <3>3 DEF Results
    <3> QED BY <3>3
  <2> QED BY <2>1, <2>2
<1>2. TowaType'
  <2>1. proc' \in [Towas -> ProcLabels] BY <1>a, <1>b DEF TowaType, ProcLabels
  <2>2. job' \in [Towas -> {None} \cup Messages \cup Results] BY <1>a, <1>1, <1>e DEF TowaType
  <2>3. \A s \in Towas : /\ proc'[s] = "serve" => job'[s] \in {None} \cup Messages
                         /\ proc'[s] \in {"pong", "writing"} => job'[s] \in {None} \cup Results
    BY <1>a, <1>c, <1>d, <1>e DEF TowaType
  <2> QED BY <1>a, <1>b, <2>1, <2>2, <2>3 DEF TowaType
<1>3. DeathInv' BY <1>a, <1>b, <1>c DEF DeathInv
<1>4. \A s \in Towas : Alive(s)' => Alive(s) BY <1>b, <1>c DEF Alive
<1>5. ~ overlap =>
        /\ \A t \in Callers : tw[t] # "out" => Exchange(t)'
        /\ (\A t \in Callers : tw[t] = "out") => Idle'
  <2> SUFFICES ASSUME ~ overlap
               PROVE  /\ \A t \in Callers : Exchange(t)'
                      /\ ~ (\A t \in Callers : tw[t] = "out")
    OBVIOUS
  <2>1. /\ p = pid /\ \A t \in Callers : Exchange(t) /\ tw[t] \notin Launching
        /\ (\A t \in Callers : tw[t] = "out") => Idle
    BY <1>b, ProcFacts
  <2>2. proc'[pid'] = "pong" /\ proc[pid] = "serve" BY <1>b, <1>c, <2>1
  <2>3. ASSUME NEW t \in Callers PROVE Exchange(t)'
    <3>1. tw[t] \notin {"check", "wait", "ping", "write", "read"} BY <2>1, <2>2 DEF Exchange, Between
    <3>2. tw[t] = "pong" => /\ pong' = <<>> /\ wfiles' = {} /\ rfiles' = {} /\ ping' = <<>>
                            /\ AnswerFor(job[pid], t)'
      BY <1>b, <1>d, <1>e, <2>1, <2>2 DEF Exchange, AnswerFor
    <3> QED BY <1>b, <2>1, <2>2, <3>1, <3>2 DEF Exchange
  <2>4. ~ Idle BY <1>b, <2>1, <2>2 DEF Idle, Between
  <2> QED BY <2>1, <2>3, <2>4
<1> QED BY <1>b, <1>2, <1>3, <1>4, <1>5, ProcKeeps

\* towa answers the reader there is, or dies of a null answer.
LEMMA WritePongKeeps ==
    ASSUME WebInv, TowaInv, UNCHANGED wvars, NEW p \in Towas, WritePong(p)
    PROVE  TowaInv'
<1> DEFINE ends == job[p] = None \/ rfiles = {}
<1>a. TowaType /\ DeathInv BY DEF TowaInv
<1>b. /\ Up /\ proc[p] = "writing" /\ Alive(p)
      /\ proc' = [proc EXCEPT ![p] = IF ends THEN "zombie" ELSE "ping"]
      /\ died' = (died \/ ends)
      /\ pong' = IF ends THEN pong ELSE Append(pong, job[p])
      /\ job' = [job EXCEPT ![p] = None]
      /\ UNCHANGED <<tw, tmsg, tans, pid, ping, fp_ping, fp_pong, wfiles, rfiles, down, overlap>>
  <2>1. CASE ends BY <2>1 DEF WritePong, Goes, Dies, Alive
  <2>2. CASE ~ ends
    <3>1. died \in BOOLEAN BY <1>a DEF TowaType
    <3> QED BY <2>2, <3>1 DEF WritePong, Goes, Dies, Alive
  <2> QED BY <2>1, <2>2
<1>c. /\ proc'[p] = (IF ends THEN "zombie" ELSE "ping") /\ \A s \in Towas \ {p} : proc'[s] = proc[s]
      /\ job'[p] = None /\ \A s \in Towas \ {p} : job'[s] = job[s]
  BY <1>a, <1>b DEF TowaType
<1>d. ~ ends => job[p] \in Results /\ rfiles # {} BY <1>a, <1>b DEF TowaType
<1>e. ends \in BOOLEAN OBVIOUS
<1> HIDE DEF ends
<1>1. TowaType'
  <2>1. proc' \in [Towas -> ProcLabels] BY <1>a, <1>b DEF TowaType, ProcLabels, Dead
  <2>2. job' \in [Towas -> {None} \cup Messages \cup Results] BY <1>a, <1>b DEF TowaType
  <2>3. \A s \in Towas : /\ proc'[s] = "serve" => job'[s] \in {None} \cup Messages
                         /\ proc'[s] \in {"pong", "writing"} => job'[s] \in {None} \cup Results
    BY <1>a, <1>c DEF TowaType
  <2>4. pong' \in Seq(Results)
    <3>1. pong \in Seq(Results) BY <1>a DEF TowaType
    <3> QED BY <1>b, <1>d, <3>1, AppendProperties
  <2>5. died' \in BOOLEAN BY <1>b
  <2> QED BY <1>a, <1>b, <2>1, <2>2, <2>3, <2>4, <2>5 DEF TowaType
<1>2. DeathInv'
  <2>1. CASE ends BY <1>b, <2>1 DEF DeathInv
  <2>2. CASE ~ ends
    <3>1. proc'[p] = "ping" BY <1>c, <2>2
    <3>2. died' = died BY <1>a, <1>b, <2>2 DEF TowaType
    <3> QED BY <1>a, <1>c, <3>1, <3>2 DEF DeathInv
  <2> QED BY <2>1, <2>2
<1>3. \A s \in Towas : Alive(s)' => Alive(s) BY <1>b, <1>c DEF Alive
<1>4. ~ overlap =>
        /\ \A t \in Callers : tw[t] # "out" => Exchange(t)'
        /\ (\A t \in Callers : tw[t] = "out") => Idle'
  <2> SUFFICES ASSUME ~ overlap
               PROVE  /\ \A t \in Callers : Exchange(t)'
                      /\ ~ (\A t \in Callers : tw[t] = "out")
    OBVIOUS
  <2>1. /\ p = pid /\ \A t \in Callers : Exchange(t) /\ tw[t] \notin Launching
        /\ (\A t \in Callers : tw[t] = "out") => Idle
    BY <1>b, ProcFacts
  <2>2. proc'[pid'] = (IF ends THEN "zombie" ELSE "ping") /\ proc[pid] = "writing" BY <1>b, <1>c, <2>1
  <2>3. ASSUME NEW t \in Callers PROVE Exchange(t)'
    <3>1. tw[t] \notin {"check", "wait", "ping", "write", "pong"} BY <2>1, <2>2 DEF Exchange, Between
    <3>2. ASSUME tw[t] = "read"
          PROVE  /\ ping' = <<>> /\ wfiles' = {} /\ rfiles' = {t} /\ fp_pong' = t
                 /\ ~ ends => pong' # <<>>
                 /\ pong' # <<>> => Head(pong').for = tmsg'[t]
      <4>1. /\ ping = <<>> /\ wfiles = {} /\ rfiles = {t} /\ fp_pong = t
            /\ pong = <<>> /\ AnswerFor(job[pid], t)
        BY <2>1, <2>2, <3>2 DEF Exchange
      <4>2. CASE ends BY <1>b, <4>1, <4>2
      <4>3. CASE ~ ends
        <5>1. pong' = <<job[p]>> BY <1>b, <4>1, <4>3
        <5>2. job[p] # None /\ job[p].for = tmsg[t] BY <2>1, <4>1, <4>3 DEF AnswerFor, ends
        <5>3. pong' # <<>> /\ Head(pong') = job[p] BY <5>1
        <5> QED BY <1>b, <4>1, <5>2, <5>3
      <4> QED BY <4>2, <4>3
    <3> QED BY <1>b, <2>1, <2>2, <3>1, <3>2 DEF Exchange
  <2>4. ~ Idle BY <1>b, <2>1, <2>2 DEF Idle, Between
  <2> QED BY <2>1, <2>3, <2>4
<1> QED BY <1>b, <1>1, <1>2, <1>3, <1>4, ProcKeeps

\* A process that finds the pipe open already: only after an overlap.
LEMMA JoinKeeps ==
    ASSUME WebInv, TowaInv, UNCHANGED wvars, NEW p \in Towas, JoinPing(p) \/ JoinPong(p)
    PROVE  TowaInv'
<1>a. TowaType /\ DeathInv BY DEF TowaInv
<1>b. /\ Up /\ Alive(p)
      /\ \/ proc[p] = "ping" /\ proc' = [proc EXCEPT ![p] = "reading"] /\ wfiles # {}
         \/ proc[p] = "pong" /\ proc' = [proc EXCEPT ![p] = "writing"] /\ rfiles # {}
      /\ UNCHANGED <<tw, tmsg, tans, pid, job, ping, pong, fp_ping, fp_pong, wfiles, rfiles, down, overlap, died>>
  BY DEF JoinPing, JoinPong, Goes, Alive, pipes
<1>c. /\ \/ proc[p] = "ping" /\ proc'[p] = "reading"
         \/ proc[p] = "pong" /\ proc'[p] = "writing"
      /\ \A s \in Towas \ {p} : proc'[s] = proc[s]
  BY <1>a, <1>b DEF TowaType
<1>1. TowaType'
  <2>1. proc' \in [Towas -> ProcLabels] BY <1>a, <1>b DEF TowaType, ProcLabels
  <2>2. \A s \in Towas : /\ proc'[s] = "serve" => proc[s] = "serve"
                         /\ proc'[s] \in {"pong", "writing"} => proc[s] \in {"pong", "writing"}
    BY <1>c
  <2> QED BY <1>a, <1>b, <2>1, <2>2 DEF TowaType
<1>2. DeathInv' BY <1>a, <1>b, <1>c DEF DeathInv
<1>3. \A s \in Towas : Alive(s)' => Alive(s) BY <1>b, <1>c DEF Alive
<1>4. overlap
  <2> SUFFICES ASSUME ~ overlap PROVE FALSE OBVIOUS
  <2>1. /\ p = pid /\ \A t \in Callers : Exchange(t) /\ tw[t] \notin Launching
        /\ (\A t \in Callers : tw[t] = "out") => Idle
    BY <1>b, ProcFacts
  <2>2. ~ Idle BY <1>b, <2>1 DEF Idle, Between, Quiet
  <2>3. PICK t \in Callers : tw[t] # "out" BY <2>1, <2>2
  <2>4. tw[t] \in MgrLabels \ Launching BY <1>a, <2>1, <2>3 DEF TowaType
  <2>5. tw[t] \in {"check", "wait", "ping", "write", "pong", "read"} BY <2>4 DEF MgrLabels
  <2>6. Exchange(t) BY <2>1
  <2> QED BY <1>b, <2>1, <2>5, <2>6 DEF Exchange, Quiet, Between
<1> QED BY <1>b, <1>1, <1>2, <1>3, <1>4, ProcKeeps

\* unzip ends.
LEMMA UnzipKeeps ==
    ASSUME WebInv, TowaInv, UNCHANGED wvars, Unzip
    PROVE  TowaInv'
<1>a. TowaType /\ DeathInv /\ ExchangeInv BY DEF TowaInv
<1>b. /\ Up
      /\ UNCHANGED <<tw, tmsg, tans, pid, proc, job, ping, pong, fp_ping, fp_pong, wfiles, rfiles,
                     down, overlap, died>>
  BY DEF Unzip, pipes
<1>1. TowaType' BY <1>a, <1>b DEF TowaType
<1>2. DeathInv' BY <1>a, <1>b DEF DeathInv
<1>3. \A p \in Towas : Alive(p)' => Alive(p) BY <1>b DEF Alive
<1>4. \A t \in Callers : Exchange(t) => Exchange(t)' BY <1>b DEF Exchange, Quiet, AnswerFor
<1>5. Idle => Idle' BY <1>b DEF Idle, Quiet
<1> QED BY <1>a, <1>b, <1>1, <1>2, <1>3, <1>4, <1>5, ProcKeeps DEF ExchangeInv

\* Every step of Towa.
LEMMA TowaKeeps ==
    ASSUME WebInv, TowaInv, UNCHANGED wvars, TowaNext
    PROVE  TowaInv'
<1>1. ASSUME NEW t \in Callers, MgrStep(t) PROVE TowaInv'
  BY <1>1, CheckKeeps, ScanKeeps, LaunchKeeps, LaunchWaitKeeps, OpenPingKeeps, WritePingKeeps,
     OpenPongKeeps, ReadPongKeeps DEF MgrStep
<1>2. ASSUME NEW p \in Towas, TowaStep(p) \/ Die(p) PROVE TowaInv'
  BY <1>2, BootKeeps, ReadPingKeeps, ServeKeeps, WritePongKeeps, JoinKeeps, DieKeeps DEF TowaStep
<1> QED BY <1>1, <1>2, UnzipKeeps DEF TowaNext

\* A step of the thread t outside sendMsg.
LEMMA TowaFrame ==
    ASSUME TowaInv, NEW t \in Threads, Up,
           UNCHANGED <<towa_flag, tw, tmsg, tans, pid, proc, job, pipes, overlap, died>>,
           th[t] # "answer", th'[t] # "answer",
           \A u \in Threads \ {t} : th'[u] = th[u] /\ req'[u] = req[u],
           tw[Main] = "out" \/ th' = th,
           OwnAnswer', Survives'
    PROVE  TowaInv'
<1>a. TowaType /\ CallerInv /\ DeathInv /\ SingleInv /\ ExchangeInv BY DEF TowaInv
<1>b. /\ UNCHANGED <<tw, tmsg, tans, pid, proc, job, ping, pong, fp_ping, fp_pong, wfiles, rfiles,
                     overlap, died>>
      /\ towa_flag' = towa_flag
  BY DEF pipes
<1>1. TowaType' BY <1>a, <1>b DEF TowaType
<1>2. CallerInv'
  <2>1. tw[Main] # "out" => \A u \in Threads : th'[u] = "accept" BY <1>a DEF CallerInv
  <2>2. ASSUME NEW u \in Threads
        PROVE  /\ tw'[u] # "out" => th'[u] = "answer" /\ tmsg'[u] \in Messages
                                    /\ tmsg'[u].from = u /\ tmsg'[u].of = req'[u].of
               /\ th'[u] = "answer" /\ tw'[u] = "out" /\ Up' => tans'[u] \in Results
    <3>1. CASE u = t BY <1>a, <1>b, <3>1 DEF CallerInv
    <3>2. CASE u # t BY <1>a, <1>b, <3>2 DEF CallerInv
    <3> QED BY <3>1, <3>2
  <2> QED BY <1>a, <1>b, <2>1, <2>2 DEF CallerInv
<1>3. DeathInv' BY <1>a, <1>b DEF DeathInv
<1>4. SingleInv' BY <1>a, <1>b DEF SingleInv, Alive
<1>5. ExchangeInv'
  <2> SUFFICES ASSUME ~ overlap PROVE ExchangeInv' BY <1>b DEF ExchangeInv
  <2>1. \A u \in Callers : Exchange(u) => Exchange(u)' BY <1>b DEF Exchange, Quiet, AnswerFor
  <2>2. Idle => Idle' BY <1>b DEF Idle, Quiet
  <2>3. \A u \in Threads : th'[u] = "answer" /\ tw'[u] = "out" => HasAnswer(u)'
    BY <1>a, <1>b DEF ExchangeInv, HasAnswer
  <2> QED BY <1>a, <1>b, <2>1, <2>2, <2>3 DEF ExchangeInv
<1> QED BY <1>1, <1>2, <1>3, <1>4, <1>5 DEF TowaInv

\* A step that nothing here looks at.
LEMMA TowaStutters ==
    ASSUME TowaInv, UNCHANGED <<towa_flag, th, req, out, tw, tmsg, tans, pid, proc, job, pipes, down, overlap, died>>,
           Survives'
    PROVE  TowaInv'
<1>1. UNCHANGED <<tw, tmsg, tans, pid, proc, job, ping, pong, fp_ping, fp_pong, wfiles, rfiles,
                  down, overlap, died, th, req, out, towa_flag>>
  BY DEF pipes
<1>2. TowaType' /\ CallerInv' /\ DeathInv' /\ SingleInv' /\ OwnAnswer'
  BY <1>1 DEF TowaInv, TowaType, CallerInv, DeathInv, SingleInv, OwnAnswer, Alive, Up
<1>3. ExchangeInv'
  BY <1>1 DEF TowaInv, ExchangeInv, Exchange, Idle, Quiet, AnswerFor, HasAnswer, Up
<1> QED BY <1>2, <1>3 DEF TowaInv

\* The connection: no answer is sent.
LEMMA TowaConnection ==
    ASSUME WebInv, TowaInv, NEW t \in Threads,
           Ask(t) \/ Accept(t) \/ Hangup(t) \/ Parse(t) \/ (\E n \in 1 .. request_message_len : Read(t, n))
    PROVE  TowaInv'
<1>a. CallerInv /\ ConnType /\ OwnAnswer BY DEF TowaInv, WebInv
<1>b. /\ Up /\ UNCHANGED <<towa_flag, out, tw, tmsg, tans, pid, proc, job, pipes, down, overlap, died>>
      /\ \/ th' = th
         \/ /\ th[t] \in {"accept", "read", "parse"} /\ (th[t] = "accept" => tw[Main] = "out")
            /\ \E l \in {"read", "closed", "parse", "call", "lookup"} : th' = [th EXCEPT ![t] = l]
      /\ req' = req \/ (th[t] = "parse" /\ \E r : req' = [req EXCEPT ![t] = r])
  <2>1. CASE Ask(t) BY <2>1 DEF Ask, twvars
  <2>2. CASE Accept(t) BY <2>2 DEF Accept, At, Goto, twvars
  <2>3. CASE Hangup(t) BY <2>3 DEF Hangup, At, Goto, twvars
  <2>4. CASE Parse(t)
    <3>1. \E l \in {"read", "closed", "parse", "call", "lookup"} : th' = [th EXCEPT ![t] = l]
      BY <2>4 DEF Parse, Goto
    <3> QED BY <2>4, <3>1 DEF Parse, At, twvars
  <2>5. ASSUME NEW n, Read(t, n)
        PROVE  /\ Up /\ UNCHANGED <<towa_flag, out, req, tw, tmsg, tans, pid, proc, job, pipes, down, overlap, died>>
               /\ th[t] = "read" /\ (th' = th \/ th' = [th EXCEPT ![t] = "parse"])
    BY <2>5 DEF Read, At, Goto, twvars
  <2> QED BY <2>1, <2>2, <2>3, <2>4, <2>5
<1>1. CASE th' = th /\ req' = req
  <2>1. Survives' BY <1>b DEF Survives, Up
  <2> QED BY <1>b, <1>1, <2>1, TowaStutters DEF twvars
<1>2. CASE ~ (th' = th /\ req' = req)
  <2>1. OwnAnswer' /\ Survives' BY <1>a, <1>b DEF OwnAnswer, Survives, Up
  <2>2. th[t] \in {"accept", "read", "parse"} /\ tw[Main] = "out" BY <1>a, <1>b, <1>2 DEF CallerInv
  <2>3. th'[t] # "answer" /\ \A u \in Threads \ {t} : th'[u] = th[u] /\ req'[u] = req[u]
    BY <1>a, <1>b, <2>2 DEF ConnType
  <2> QED BY <1>b, <2>1, <2>2, <2>3, TowaFrame
<1> QED BY <1>1, <1>2

\* getFile: it runs only without towa, and what takes the server down is a race
\* or a file that is gone.
LEMMA TowaFiles ==
    ASSUME WebInv, TowaInv, NEW t \in Threads,
           Lookup(t) \/ Found(t) \/ Stat(t) \/ Load(t) \/ Store(t)
    PROVE  TowaInv'
<1>a. CallerInv /\ ConnType /\ FileType /\ OwnAnswer BY DEF TowaInv, WebInv
<1>b. /\ Up /\ UNCHANGED <<towa_flag, conn, tw, tmsg, tans, pid, proc, job, pipes, overlap, died>>
      /\ th[t] \in {"lookup", "found?", "stat", "load", "store"}
      /\ \E l \in FileLabels : th' = [th EXCEPT ![t] = l]
  <2>1. CASE Lookup(t) BY <2>1 DEF Lookup, At, Goto, FileLabels
  <2>2. CASE Found(t) BY <2>2 DEF Found, At, Goto, FileLabels, twvars
  <2>3. CASE Stat(t) BY <2>3 DEF Stat, At, Goto, FileLabels, twvars
  <2>4. CASE Load(t) BY <2>4 DEF Load, At, Goto, FileLabels
  <2>5. CASE Store(t) BY <2>5 DEF Store, At, Goto, FileLabels, twvars
  <2> QED BY <2>1, <2>2, <2>3, <2>4, <2>5
<1>c. UNCHANGED <<out, req>> BY <1>b DEF conn
<1>1. Survives'
  <2>1. CASE Lookup(t)
    <3>1. down' = "no" \/ (down' = "map" /\ race') BY <2>1 DEF Lookup, EnterMap
    <3> QED BY <3>1 DEF Survives
  <2>2. CASE Load(t)
    <3>1. /\ th[t] = "load" /\ down' = (IF File(look[t].key).kind = "none" THEN "fopen" ELSE down)
          /\ changes' = changes
      BY <2>2 DEF Load, At
    <3>2. /\ look[t].key \in Paths /\ look[t].stat.kind # "none"
          /\ changes = 0 => look[t].stat = fs[look[t].key]
      BY <3>1, WorkingOK DEF LookOK, Working, FileLabels
    <3>3. File(look[t].key).kind = "none" => changes > 0
      BY <1>a, <3>2 DEF File, FileType
    <3> QED BY <1>b, <3>1, <3>3 DEF Survives, Up
  <2>3. CASE Found(t) \/ Stat(t) \/ Store(t)
    <3>1. down' = down BY <2>3 DEF Found, Stat, Store, twvars
    <3> QED BY <1>b, <3>1 DEF Survives, Up
  <2> QED BY <2>1, <2>2, <2>3
<1>2. OwnAnswer' BY <1>a, <1>b, <1>c DEF OwnAnswer
<1>3. th[t] # "answer" /\ th'[t] # "answer" /\ \A u \in Threads \ {t} : th'[u] = th[u]
  BY <1>a, <1>b DEF ConnType, FileLabels
<1>4. tw[Main] = "out" BY <1>a, <1>b DEF CallerInv
<1> QED BY <1>b, <1>c, <1>1, <1>2, <1>3, <1>4, TowaFrame

\* An answer goes out: its body, if it has one, is the answer to its request.
LEMMA OwnAnswerKeeps ==
    ASSUME OwnAnswer, ConnType, NEW t \in Threads, NEW a, NEW freed, NEW keep, Reply(t, a, freed, keep),
           UNCHANGED <<towa_flag, overlap>>, a \in Replies,
           towa_flag /\ ~ overlap /\ a.body # None => a.body.for.from = t /\ a.body.for.of = a.of
    PROVE  OwnAnswer'
<1> DEFINE Own(x, u) == x.body # None => x.body.for.from = u /\ x.body.for.of = x.of
<1> SUFFICES ASSUME towa_flag, ~ overlap, NEW u \in Threads, NEW i \in 1 .. Len(out'[u])
             PROVE  Own(out'[u][i], u)
  BY DEF OwnAnswer
<1>1. out' = [out EXCEPT ![t] = Append(out[t], a)] BY DEF Reply
<1>2. \A x \in Threads : \A k \in 1 .. Len(out[x]) : Own(out[x][k], x) BY DEF OwnAnswer
<1>3. Own(a, t) OBVIOUS
<1> HIDE DEF Own
<1>4. CASE u # t
  <2>1. out'[u] = out[u] BY <1>1, <1>4 DEF ConnType
  <2> QED BY <1>2, <2>1
<1>5. CASE u = t
  <2>1. out'[t] = Append(out[t], a) /\ out[t] \in Seq(Replies) BY <1>1 DEF ConnType
  <2>2. Len(out[t]) \in Nat BY <2>1, LenProperties
  <2>3. i \in 1 .. Len(out[t]) \/ i = Len(out[t]) + 1 BY <1>5, <2>1, <2>2, AppendProperties
  <2>4. /\ \A k \in 1 .. Len(out[t]) : out'[t][k] = out[t][k]
        /\ out'[t][Len(out[t]) + 1] = a
    BY <2>1, AppendProperties
  <2> QED BY <1>2, <1>3, <1>5, <2>3, <2>4
<1> QED BY <1>4, <1>5

\* Answers without towa.
LEMMA TowaReplies ==
    ASSUME WebInv, TowaInv, NEW t \in Threads, ParseFails(t) \/ SendFile(t)
    PROVE  TowaInv'
<1>a. CallerInv /\ ConnType /\ OwnAnswer BY DEF TowaInv, WebInv
<1>b. /\ Up /\ UNCHANGED <<towa_flag, tw, tmsg, tans, pid, proc, job, pipes, down, overlap, died>>
      /\ th[t] \in {"parse", "send"}
  BY DEF ParseFails, SendFile, At, twvars
<1>1. PICK a, freed, keep : Reply(t, a, freed, keep) /\ a \in Replies /\ (towa_flag => a.body = None)
  <2>1. CASE ParseFails(t)
    <3> DEFINE a == Error(t, top[t][1].req)
    <3>1. top[t][1].req \in 1 .. Len(asked[t]) /\ Reply(t, a, 1, FALSE)
      BY <2>1, ParsedOK DEF ParseFails, At
    <3>2. a \in Replies /\ a.body = None
      <4>1. top[t][1].req \in Nat BY <3>1
      <4> QED BY <4>1 DEF Error, Replies
    <3> HIDE DEF a
    <3> QED BY <3>1, <3>2
  <2>2. CASE SendFile(t)
    <3>1. ~ towa_flag /\ req[t].of \in Nat /\ look[t] \in Looks
      BY <2>2, WorkingOK DEF SendFile, At, Working, FileLabels
    <3>2. CASE look[t].file = None
      <4> DEFINE a == [of |-> req[t].of, code |-> 404, body |-> None]
      <4>1. Reply(t, a, parts[t], FALSE) BY <2>2, <3>2 DEF SendFile
      <4>2. a \in Replies BY <3>1 DEF Replies
      <4> QED BY <3>1, <4>1, <4>2
    <3>3. CASE look[t].file # None
      <4> DEFINE a == [of |-> req[t].of, code |-> 200, body |-> look[t].file]
      <4>1. Reply(t, a, parts[t], req[t].keep) BY <2>2, <3>3 DEF SendFile
      <4>2. a \in Replies BY <3>1, <3>3 DEF Replies, Looks
      <4> QED BY <3>1, <4>1, <4>2
    <3> QED BY <3>2, <3>3
  <2> QED BY <2>1, <2>2
<1>2. OwnAnswer' BY <1>a, <1>b, <1>1, OwnAnswerKeeps
<1>3. Survives' BY <1>b DEF Survives, Up
<1>4. /\ th'[t] \in {"read", "closed"}
      /\ \A u \in Threads \ {t} : th'[u] = th[u] /\ req'[u] = req[u]
  BY <1>a, <1>1 DEF Reply, Goto, ConnType
<1>5. tw[Main] = "out" BY <1>a, <1>b DEF CallerInv
<1> QED BY <1>b, <1>2, <1>3, <1>4, <1>5, TowaFrame

\* The thread sends on what towa answered to its own message.
LEMMA TowaSendAnswer ==
    ASSUME WebInv, TowaInv, NEW t \in Threads, SendAnswer(t)
    PROVE  TowaInv' /\ tans[t] \in Results
<1>a. TowaType /\ CallerInv /\ DeathInv /\ SingleInv /\ ExchangeInv /\ OwnAnswer /\ ConnType
  BY DEF TowaInv, WebInv
<1>b. /\ Up /\ th[t] = "answer" /\ tw[t] = "out" /\ tans' = [tans EXCEPT ![t] = None]
      /\ UNCHANGED <<towa_flag, tw, tmsg, pid, proc, job, ping, pong, fp_ping, fp_pong, wfiles, rfiles,
                     down, overlap, died>>
  BY DEF SendAnswer, At, pipes
<1>c. tans[t] \in Results /\ tw[Main] = "out" BY <1>a, <1>b DEF CallerInv
<1>d. t \in Callers /\ \A u \in Threads : u \in Callers BY DEF Callers
<1>1. PICK a, freed, keep : /\ Reply(t, a, freed, keep) /\ a \in Replies
                            /\ a.of = req[t].of /\ a.body = tans[t]
  <2>1. req[t].of \in Nat BY <1>b, WorkingOK DEF Working
  <2>2. CASE tans[t].code \in {200, 404}
    <3> DEFINE a == [of |-> req[t].of, code |-> 200, body |-> tans[t]]
    <3>1. Reply(t, a, parts[t], req[t].keep) BY <2>2 DEF SendAnswer
    <3>2. a \in Replies /\ a.of = req[t].of /\ a.body = tans[t] BY <1>c, <2>1 DEF Replies
    <3> HIDE DEF a
    <3> QED BY <3>1, <3>2
  <2>3. CASE tans[t].code \notin {200, 404}
    <3> DEFINE a == [of |-> req[t].of, code |-> 500, body |-> tans[t]]
    <3>1. Reply(t, a, 1, FALSE) BY <2>3 DEF SendAnswer
    <3>2. a \in Replies /\ a.of = req[t].of /\ a.body = tans[t] BY <1>c, <2>1 DEF Replies
    <3> HIDE DEF a
    <3> QED BY <3>1, <3>2
  <2> QED BY <2>2, <2>3
<1>2. OwnAnswer'
  <2>1. ~ overlap => a.body.for.from = t /\ a.body.for.of = a.of
    BY <1>a, <1>b, <1>1 DEF ExchangeInv, HasAnswer
  <2> QED BY <1>a, <1>b, <1>1, <2>1, OwnAnswerKeeps
<1>3. /\ th'[t] \in {"read", "closed"}
      /\ \A u \in Threads \ {t} : th'[u] = th[u] /\ req'[u] = req[u]
      /\ \A u \in Threads \ {t} : tans'[u] = tans[u]
  <2>1. \A u \in Threads \ {t} : tans'[u] = tans[u] BY <1>a, <1>b, <1>d DEF TowaType
  <2>2. th' = [th EXCEPT ![t] = IF keep THEN "read" ELSE "closed"] /\ req' = [req EXCEPT ![t] = None]
    BY <1>1 DEF Reply, Goto
  <2> QED BY <1>a, <2>1, <2>2 DEF ConnType
<1>4. TowaType'
  <2>1. tans' \in [Callers -> {None} \cup Results] BY <1>a, <1>b DEF TowaType
  <2> QED BY <1>a, <1>b, <2>1 DEF TowaType
<1>5. CallerInv'
  <2>1. ASSUME NEW u \in Threads
        PROVE  /\ tw'[u] # "out" => th'[u] = "answer" /\ tmsg'[u] \in Messages
                                    /\ tmsg'[u].from = u /\ tmsg'[u].of = req'[u].of
               /\ th'[u] = "answer" /\ tw'[u] = "out" /\ Up' => tans'[u] \in Results
    <3>1. CASE u = t BY <1>b, <1>3, <3>1
    <3>2. CASE u # t BY <1>a, <1>b, <1>3, <3>2 DEF CallerInv
    <3> QED BY <3>1, <3>2
  <2> QED BY <1>a, <1>b, <1>c, <2>1 DEF CallerInv
<1>6. DeathInv' BY <1>a, <1>b DEF DeathInv
<1>7. SingleInv' BY <1>a, <1>b DEF SingleInv, Alive
<1>8. ExchangeInv'
  <2> SUFFICES ASSUME ~ overlap PROVE ExchangeInv' BY <1>b DEF ExchangeInv
  <2>1. \A u \in Callers : Exchange(u) => Exchange(u)' BY <1>b DEF Exchange, Quiet, AnswerFor
  <2>2. Idle => Idle' BY <1>b DEF Idle, Quiet
  <2>3. \A u \in Threads : th'[u] = "answer" /\ tw'[u] = "out" => HasAnswer(u)'
    BY <1>a, <1>b, <1>3 DEF ExchangeInv, HasAnswer
  <2> QED BY <1>a, <1>b, <2>1, <2>2, <2>3 DEF ExchangeInv
<1>9. Survives' BY <1>b DEF Survives, Up
<1> QED BY <1>c, <1>2, <1>4, <1>5, <1>6, <1>7, <1>8, <1>9 DEF TowaInv

\* A thread enters sendMsg: alone, or that is an overlap.
LEMMA TowaCall ==
    ASSUME WebInv, TowaInv, NEW t \in Threads, Call(t)
    PROVE  TowaInv'
<1> DEFINE m == [path |-> req[t].path, from |-> t, of |-> req[t].of]
<1>a. TowaType /\ CallerInv /\ DeathInv /\ SingleInv /\ ExchangeInv /\ OwnAnswer /\ ConnType
  BY DEF TowaInv, WebInv
<1>b. /\ Up /\ th[t] = "call" /\ th' = [th EXCEPT ![t] = "answer"]
      /\ tw[t] = "out" /\ tw' = [tw EXCEPT ![t] = "check"]
      /\ tmsg' = [tmsg EXCEPT ![t] = m] /\ tans' = [tans EXCEPT ![t] = None]
      /\ overlap' = (overlap \/ InSend # {})
      /\ UNCHANGED <<pid, proc, job, ping, pong, fp_ping, fp_pong, wfiles, rfiles, down, died, towa_flag, req, out>>
  BY DEF Call, At, Goto, SendMsg, Step, pipes, conn
<1>c. Main \in Callers /\ t \in Callers /\ \A u \in Threads : u \in Callers /\ u # Main
  BY WebAssumption DEF Callers
<1>d. /\ th'[t] = "answer" /\ tw'[t] = "check" /\ tmsg'[t] = m
      /\ \A u \in Threads \ {t} : th'[u] = th[u]
      /\ \A u \in Callers \ {t} : tw'[u] = tw[u] /\ tmsg'[u] = tmsg[u] /\ tans'[u] = tans[u]
  BY <1>a, <1>b, <1>c DEF ConnType, TowaType
<1>e. towa_flag /\ req[t].path \in STRING /\ req[t].of \in Nat
  BY <1>b, WorkingOK DEF Working
<1>f. m \in Messages /\ m.from = t /\ m.of = req[t].of BY <1>e DEF Messages
<1>g. tw[Main] = "out" /\ pid \in Towas BY <1>a, <1>b, <1>e DEF CallerInv
<1>h. ~ overlap' => ~ overlap /\ \A u \in Callers : tw[u] = "out"
  BY <1>b, <1>g DEF InSend, Callers
<1> HIDE DEF m
<1>1. TowaType'
  <2>1. tw' \in [Callers -> MgrLabels \cup {"out"}] BY <1>a, <1>b DEF TowaType, MgrLabels
  <2>2. tmsg' \in [Callers -> {None} \cup Messages] /\ tans' \in [Callers -> {None} \cup Results]
    BY <1>a, <1>b, <1>f DEF TowaType
  <2>3. overlap' \in BOOLEAN BY <1>b
  <2> QED BY <1>a, <1>b, <2>1, <2>2, <2>3 DEF TowaType
<1>2. CallerInv'
  <2>1. tw'[Main] = "out" BY <1>c, <1>d, <1>g
  <2>2. ASSUME NEW u \in Threads
        PROVE  /\ tw'[u] # "out" => th'[u] = "answer" /\ tmsg'[u] \in Messages
                                    /\ tmsg'[u].from = u /\ tmsg'[u].of = req'[u].of
               /\ th'[u] = "answer" /\ tw'[u] = "out" /\ Up' => tans'[u] \in Results
    <3>1. CASE u = t BY <1>b, <1>d, <1>f, <3>1
    <3>2. CASE u # t
      <4>1. /\ u \in Callers \ {t} /\ u \in Threads \ {t} BY <1>c, <3>2
      <4>2. tw'[u] = tw[u] /\ tmsg'[u] = tmsg[u] /\ tans'[u] = tans[u] /\ th'[u] = th[u] BY <1>d, <4>1
      <4> QED BY <1>a, <1>b, <4>2 DEF CallerInv
    <3> QED BY <3>1, <3>2
  <2> QED BY <1>b, <1>g, <2>1, <2>2 DEF CallerInv
<1>3. DeathInv' BY <1>a, <1>b DEF DeathInv
<1>4. SingleInv'
  <2> SUFFICES ASSUME ~ overlap' PROVE SingleInv' BY DEF SingleInv
  <2>1. \A u \in Callers \ {t} : tw'[u] = "out" BY <1>d, <1>h
  <2>2. \A u \in Callers : tw'[u] \notin Launching BY <1>d, <2>1 DEF Launching
  <2>3. \A p \in Towas : Alive(p)' => p = pid' BY <1>a, <1>b, <1>h DEF SingleInv, Alive
  <2> QED BY <2>1, <2>2, <2>3 DEF SingleInv
<1>5. ExchangeInv'
  <2> SUFFICES ASSUME ~ overlap' PROVE ExchangeInv' BY DEF ExchangeInv
  <2>1. \A u \in Callers \ {t} : tw'[u] = "out" BY <1>d, <1>h
  <2>2. Idle BY <1>a, <1>b, <1>h DEF ExchangeInv
  <2>3. Quiet' /\ proc'[pid'] \in Between BY <1>b, <1>g, <2>2 DEF Idle, Quiet
  <2>4. \A u \in Callers : Exchange(u)' BY <1>d, <2>1, <2>3 DEF Exchange, Launching
  <2>5. \A u \in Threads : th'[u] = "answer" /\ tw'[u] = "out" => HasAnswer(u)'
    <3> SUFFICES ASSUME NEW u \in Threads, th'[u] = "answer", tw'[u] = "out" PROVE HasAnswer(u)' OBVIOUS
    <3>1. u \in Callers \ {t} /\ u \in Threads \ {t} BY <1>c, <1>d
    <3>2. tw[u] = "out" /\ tans'[u] = tans[u] /\ th[u] = "answer" BY <1>d, <3>1
    <3> QED BY <1>a, <1>b, <1>h, <3>2 DEF ExchangeInv, HasAnswer
  <2> QED BY <1>c, <1>d, <2>4, <2>5 DEF ExchangeInv
<1>6. OwnAnswer' BY <1>a, <1>b, <1>h DEF OwnAnswer
<1>7. Survives' BY <1>b DEF Survives, Up
<1> QED BY <1>1, <1>2, <1>3, <1>4, <1>5, <1>6, <1>7 DEF TowaInv

\* The manager starts in main, with nothing in the pipes.
LEMMA TowaStarts ==
    ASSUME Init
    PROVE  TowaInv
<1>a. /\ tw = [t \in Callers |-> IF t = Main /\ towa_flag THEN "start" ELSE "out"]
      /\ tmsg = [t \in Callers |-> None] /\ tans = [t \in Callers |-> None]
      /\ proc = [p \in Towas |-> "none"] /\ job = [p \in Towas |-> None]
      /\ ping = <<>> /\ pong = <<>> /\ wfiles = {} /\ rfiles = {}
      /\ down = "no" /\ overlap = FALSE /\ died = FALSE
      /\ th = [t \in Threads |-> "accept"] /\ out = [t \in Threads |-> <<>>]
      /\ towa_flag \in BOOLEAN
  BY WebAssumption DEF Init, TowaInit
<1>b. Main \in Callers /\ \A u \in Threads : u \in Callers /\ u # Main BY WebAssumption DEF Callers
<1>c. /\ \A t \in Callers : tw[t] \in {"start", "out"} /\ (tw[t] # "out" => t = Main)
      /\ tw[Main] = IF towa_flag THEN "start" ELSE "out"
      /\ \A p \in Towas : ~ Alive(p) /\ proc[p] = "none"
  BY <1>a, <1>b DEF Alive
<1>1. TowaType
  <2>1. tw \in [Callers -> MgrLabels \cup {"out"}] BY <1>a DEF MgrLabels, Launching
  <2>2. ping \in Seq(Messages) /\ pong \in Seq(Results) BY <1>a, EmptySeq
  <2>3. proc \in [Towas -> ProcLabels] /\ job \in [Towas -> {None} \cup Messages \cup Results]
    BY <1>a DEF ProcLabels, Dead
  <2> QED BY <1>a, <2>1, <2>2, <2>3 DEF TowaType
<1>2. CallerInv BY <1>a, <1>b, <1>c DEF CallerInv, Launching
<1>3. DeathInv /\ SingleInv BY <1>c DEF DeathInv, SingleInv
<1>4. ExchangeInv
  <2>1. Quiet BY <1>a DEF Quiet
  <2>2. \A t \in Callers : Exchange(t) BY <1>c, <2>1 DEF Exchange, Launching
  <2>3. (\A t \in Callers : tw[t] = "out") => Idle
    <3> SUFFICES ASSUME \A t \in Callers : tw[t] = "out", pid \in Towas PROVE FALSE BY <2>1 DEF Idle
    <3> QED BY WebAssumption DEF Init, TowaInit
  <2>4. \A t \in Threads : th[t] # "answer" BY <1>a
  <2> QED BY <2>2, <2>3, <2>4 DEF ExchangeInv
<1>5. OwnAnswer
  <2>1. \A t \in Threads : Len(out[t]) = 0 BY <1>a, EmptySeq
  <2> QED BY <2>1 DEF OwnAnswer
<1>6. Survives BY <1>a DEF Survives
<1> QED BY <1>1, <1>2, <1>3, <1>4, <1>5, <1>6 DEF TowaInv

-----------------------------------------------------------------------------
(***************************************************************************)
(* The theorems.                                                           *)
(***************************************************************************)

\* Every step keeps the invariant.
LEMMA NextKeeps ==
    ASSUME IInv, [Next]_vars
    PROVE  IInv'
<1>a. WebInv /\ TowaInv BY DEF IInv
<1>1. ASSUME NEW t \in Threads, ThreadStep(t) \/ Ask(t) \/ Hangup(t) PROVE IInv'
  <2>1. CASE Ask(t) \/ Accept(t) \/ Hangup(t) \/ Parse(t) \/ \E n \in 1 .. request_message_len : Read(t, n)
    <3>1. TowaInv' BY <1>a, <2>1, TowaConnection
    <3>2. WebInv' BY <1>a, <2>1, AskKeeps, AcceptKeeps, HangupKeeps, ParseKeeps, ReadKeeps
    <3> QED BY <3>1, <3>2 DEF IInv
  <2>2. CASE Lookup(t) \/ Found(t) \/ Stat(t) \/ Load(t) \/ Store(t)
    <3>1. TowaInv' BY <1>a, <2>2, TowaFiles
    <3>2. WebInv' BY <1>a, <2>2, LookupKeeps, FoundKeeps, StatKeeps, LoadKeeps, StoreKeeps
    <3> QED BY <3>1, <3>2 DEF IInv
  <2>3. CASE ParseFails(t) \/ SendFile(t)
    <3>1. TowaInv' BY <1>a, <2>3, TowaReplies
    <3>2. WebInv' BY <1>a, <2>3, ParseFailsKeeps, SendFileKeeps
    <3> QED BY <3>1, <3>2 DEF IInv
  <2>4. CASE Call(t) BY <1>a, <2>4, CallKeeps, TowaCall DEF IInv
  <2>5. CASE SendAnswer(t) BY <1>a, <2>5, SendAnswerKeeps, TowaSendAnswer DEF IInv
  <2> QED BY <1>1, <2>1, <2>2, <2>3, <2>4, <2>5 DEF ThreadStep
<1>2. ASSUME NEW p \in Edited, Change(p) PROVE IInv'
  <2>1. WebInv' BY <1>a, <1>2, ChangeKeeps
  <2>2. Up /\ UNCHANGED <<towa_flag, th, req, out, tw, tmsg, tans, pid, proc, job, pipes, down, overlap, died>>
    BY <1>2 DEF Change, conn, twvars
  <2>3. Survives' BY <2>2 DEF Survives, Up
  <2> QED BY <1>a, <2>1, <2>2, <2>3, TowaStutters DEF IInv
<1>3. CASE TowaNext /\ UNCHANGED wvars BY <1>a, <1>3, WebFrame, TowaKeeps DEF IInv
<1>4. CASE UNCHANGED vars
  <2>1. UNCHANGED wvars /\ UNCHANGED twvars BY <1>4 DEF vars
  <2>2. /\ UNCHANGED <<towa_flag, th, req, out, tw, tmsg, tans, pid, proc, job, pipes, down, overlap, died>>
        /\ UNCHANGED <<war, race, changes>>
    BY <2>1 DEF wvars, conn, files, hist, twvars
  <2>3. Survives' BY <1>a, <2>2 DEF TowaInv, Survives
  <2> QED BY <1>a, <2>1, <2>2, <2>3, WebFrame, TowaStutters DEF IInv
<1> QED BY <1>1, <1>2, <1>3, <1>4 DEF Next

\* IInv holds in every state of the server.
THEOREM Invariant == Spec => []IInv
<1>1. Init => IInv BY WebStarts, TowaStarts DEF IInv
<1>2. IInv /\ [Next]_vars => IInv' BY NextKeeps
<1> QED BY <1>1, <1>2, PTL DEF Spec

\* readData, processRequest and write keep the order of a connection: if every
\* request came in one read, the i-th answer is the answer to the i-th request,
\* whatever the buffer length, the scripts and the other threads do.
THEOREM AnswersInOrderTheorem == Spec => []AnswersInOrder
<1>1. IInv => AnswersInOrder BY DEF IInv, WebInv, ThreadOK, OrderOK, AnswersInOrder
<1> QED BY <1>1, Invariant, PTL

\* getFile and the cache without a lock: what goes out for a path is what its file
\* or its index has contained, or garbage after a change, and a path that is there
\* is not refused, for any tree of files and any changes of it.
THEOREM FilesServedTheorem == Spec => []FilesServed
<1>1. IInv => FilesServed
  <2> SUFFICES ASSUME IInv PROVE RightContent /\ RightRefusal BY DEF FilesServed
  <2>1. ConnType /\ FileType /\ \A t \in Threads : ServedOK(t) BY DEF IInv, WebInv, ThreadOK
  <2>2. RightContent
    <3> SUFFICES ASSUME ~ towa_flag, NEW t \in Threads, NEW i \in 1 .. Len(out[t]), out[t][i].code = 200
                 PROVE  \/ out[t][i].body \in FileOrIndex(asked[t][out[t][i].of].path)
                        \/ changes > 0 /\ out[t][i].body = "garbage"
      BY DEF RightContent
    <3> DEFINE p == asked[t][out[t][i].of].path
    <3>1. PICK k \in {p, Index(p)} \cap Paths : Held(out[t][i].body, k) BY <2>1 DEF ServedOK
    <3> HIDE DEF p
    <3>2. out[t][i].body \in was[k] => out[t][i].body \in FileOrIndex(p) BY <3>1 DEF FileOrIndex
    <3> QED BY <3>1, <3>2 DEF Held, p
  <2>3. RightRefusal BY <2>1 DEF RightRefusal, ServedOK, Absent
  <2> QED BY <2>2, <2>3
<1> QED BY <1>1, Invariant, PTL

\* The chain of struct request_message: a buffer is lost only on a connection with
\* a request as long as a buffer, or with requests in pieces.
THEOREM BuffersFreedTheorem == Spec => []BuffersFreed
<1>1. IInv => BuffersFreed
  BY DEF IInv, WebInv, ConnType, ThreadOK, BufferOK, BuffersFreed
<1> QED BY <1>1, Invariant, PTL

\* TowaMgr::sendMsg: without two threads inside it, a servlet's answer goes to the
\* connection and the request it was computed for, even if towa dies and is
\* launched again at any point.
THEOREM OwnAnswerTheorem == Spec => []OwnAnswer
<1>1. IInv => OwnAnswer BY DEF IInv, TowaInv
<1> QED BY <1>1, Invariant, PTL

\* Nothing takes the server down but the causes that Survives names.
THEOREM SurvivesTheorem == Spec => []Survives
<1>1. IInv => Survives BY DEF IInv, TowaInv
<1> QED BY <1>1, Invariant, PTL

\* check and launchAppPool: without two threads inside sendMsg at most one towa
\* process runs, however often it dies.
THEOREM OneTowaTheorem == Spec => []OneTowa
<1>1. IInv => OneTowa
  <2> SUFFICES ASSUME IInv, ~ overlap PROVE Cardinality({p \in Towas : Alive(p)}) <= 1 BY DEF OneTowa
  <2>1. {p \in Towas : Alive(p)} \subseteq {pid} BY DEF IInv, TowaInv, SingleInv
  <2>2. IsFiniteSet({pid}) /\ Cardinality({pid}) = 1 BY FS_Singleton
  <2>3. /\ Cardinality({p \in Towas : Alive(p)}) <= Cardinality({pid})
    BY <2>1, <2>2, FS_Subset
  <2> QED BY <2>2, <2>3
<1> QED BY <1>1, Invariant, PTL
=============================================================================
