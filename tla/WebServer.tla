------------------------------ MODULE WebServer -----------------------------
(***************************************************************************)
(* The web server (http_srv.cpp): HTTPServer::readData cuts the bytes of a *)
(* connection into messages, processRequest answers one, from the files    *)
(* under wwwroot through a cache or, with -towa, through Towa.             *)
(*                                                                         *)
(* Bytes come in units; a buffer (struct request_message) holds            *)
(* request_message_len of them.  Unit 1 of a request is its request line,  *)
(* unit keep (0 if there is none) its Connection: Keep-Alive header, its   *)
(* last unit ends in CRLFCRLF.  The network delivers a request as a whole  *)
(* or, if MayCut, in any pieces.                                           *)
(*                                                                         *)
(* The cache is a std::map without a lock.  operator[] inserts when the    *)
(* key is not there, so two calls in the map together, one of them with a  *)
(* new key, are a data race: the process may crash, and race records it.   *)
(***************************************************************************)
EXTENDS Towa

CONSTANTS
    request_message_len,   \* units in a buffer
    Scripts,     \* bound: what a client asks, per value of towa_flag
    Flags,       \* the values of towa_flag
    MayCut,      \* may the network deliver a request in pieces?
    Files,       \* the paths of wwwroot
    Edited,      \* bound: the files somebody may change or remove
    MaxChanges   \* bound: changes of the files while the server runs

\* A request, and what stat and fread tell of a file.  (The literals are strings
\* as well; a prover has to be told.)
Requests == [path : STRING, len : Nat \ {0}, keep : Nat]
Contents == STRING \cup {"garbage", "new", "none"}
FileStates == [kind : {"file", "dir", "none"}, ox : BOOLEAN, version : Contents]

ASSUME WebAssumption ==
    /\ request_message_len \in Nat \ {0}
    /\ MaxChanges \in Nat
    /\ Main \notin Threads
    /\ Flags \subseteq BOOLEAN
    /\ \A f \in Flags : \A s \in Scripts[f] : s \in Seq(Requests)
    /\ Files \in [DOMAIN Files -> FileStates] /\ \A p \in DOMAIN Files : Files[p].kind # "none"
    /\ Edited \subseteq DOMAIN Files
    /\ None \notin Contents /\ None \notin Towas

VARIABLES
    towa_flag,
    th,                  \* where each thread is
    todo, asked,         \* the client: requests left, requests sent
    wire,                \* units on their way: [req, unit]
    top,                 \* the first buffer: the units it holds
    parts,               \* the buffers of the current message
    req,                 \* the parsed request
    out,                 \* the answers on the connection
    cache,               \* key -> content, for the keys with a file
    look,                \* what getFile works on: [key, stat, file]
    inmap,               \* the threads inside a std::map operation that inserts or may
    fs,                  \* the files: path -> [kind, ox, version] or kind "none"
    changes,
    \* History.
    race,                \* the map was used by two threads at once
    cut,                 \* connections with a request that came in pieces
    was,                 \* contents each path has had
    lost                 \* threads that lost a buffer

conn == <<todo, asked, wire, top, parts, req, out>>
files == <<cache, look, inmap, fs, changes>>
hist == <<race, cut, was, lost>>
wvars == <<towa_flag, th, conn, files, hist>>
vars == <<wvars, twvars>>

Paths == DOMAIN fs
\* What a read of a file gives: its content, or garbage where there was none.
Content(f) == IF f.kind = "file" THEN f.version ELSE "garbage"

Init ==
    /\ towa_flag \in Flags /\ TowaInit(towa_flag)
    /\ th = [t \in Threads |-> "accept"]
    /\ todo \in [Threads -> Scripts[towa_flag]] /\ asked = [t \in Threads |-> <<>>]
    /\ wire = [t \in Threads |-> <<>>] /\ top = [t \in Threads |-> <<>>]
    /\ parts = [t \in Threads |-> 0] /\ req = [t \in Threads |-> None]
    /\ out = [t \in Threads |-> <<>>]
    /\ cache = [k \in {} |-> None] /\ inmap = {}
    /\ look = [t \in Threads |-> None]
    /\ fs = Files /\ changes = 0
    /\ race = FALSE /\ cut = {} /\ lost = {}
    /\ was = [p \in Paths |-> {Content(fs[p])}]

At(t, l) == Up /\ th[t] = l
Goto(t, l) == th' = [th EXCEPT ![t] = l]

-----------------------------------------------------------------------------
(***************************************************************************)
(* The client: it sends a request, waits for the answer and sends the next *)
(* one, or closes.                                                         *)
(***************************************************************************)
Answered(t) == Len(out[t]) >= Len(asked[t])
Open(t) == th[t] \notin {"closed", "accept"}

Ask(t) ==
    /\ Up /\ Open(t) /\ todo[t] # <<>> /\ Answered(t)
    /\ asked' = [asked EXCEPT ![t] = Append(@, Head(todo[t]))]
    /\ todo' = [todo EXCEPT ![t] = Tail(@)]
    /\ wire' = [wire EXCEPT ![t] = @ \o [u \in 1 .. Head(todo[t]).len |->
                                           [req |-> Len(asked'[t]), unit |-> u]]]
    /\ UNCHANGED <<towa_flag, th, top, parts, req, out, files, hist, twvars>>

\* readData: a thread takes the connection and allocates the first buffer.
Accept(t) ==
    /\ At(t, "accept") /\ tw[Main] = "out"
    /\ Goto(t, "read")
    /\ parts' = [parts EXCEPT ![t] = 1]
    /\ UNCHANGED <<towa_flag, todo, asked, wire, top, req, out, files, hist, twvars>>

\* The client has got its answers, or gives up, and closes: read returns 0.
\* Only the first buffer is deleted.
Hangup(t) ==
    /\ At(t, "read") /\ wire[t] = <<>>
    /\ todo[t] = <<>>
    /\ Goto(t, "closed")
    /\ parts' = [parts EXCEPT ![t] = 0]
    /\ lost' = IF parts[t] > 1 THEN lost \cup {t} ELSE lost
    /\ UNCHANGED <<towa_flag, todo, asked, wire, top, req, out, files, race, cut, was, twvars>>

-----------------------------------------------------------------------------
(***************************************************************************)
(* readData.                                                               *)
(***************************************************************************)
\* Does the buffer b end in CRLFCRLF, in its last four bytes?
EndsHere(t, b) ==
    Len(b) = request_message_len /\ b[Len(b)].unit = asked[t][b[Len(b)].req].len

\* The test for the end of a message: strcmp is not 0 when the strings differ,
\* so a full buffer that ends in CRLFCRLF is the one that waits for more.
Whole(t, b) == Len(b) < request_message_len \/ ~ EndsHere(t, b)

Sizes(t) ==
    LET most == IF Len(wire[t]) < request_message_len THEN Len(wire[t]) ELSE request_message_len
    IN  IF MayCut THEN 1 .. most ELSE {most}

Read(t, n) ==
    /\ At(t, "read") /\ wire[t] # <<>> /\ n \in Sizes(t)
    /\ LET b == SubSeq(wire[t], 1, n)
       IN  /\ wire' = [wire EXCEPT ![t] = SubSeq(@, n + 1, Len(@))]
           /\ top' = IF parts[t] = 1 THEN [top EXCEPT ![t] = b] ELSE top
           /\ IF Whole(t, b)
                THEN Goto(t, "parse") /\ UNCHANGED parts
                ELSE parts' = [parts EXCEPT ![t] = @ + 1] /\ UNCHANGED th
           /\ cut' = IF b[1].unit = 1 /\ b[n].unit = asked[t][b[n].req].len THEN cut ELSE cut \cup {t}
    /\ UNCHANGED <<towa_flag, todo, asked, req, out, files, race, was, lost, twvars>>

\* HTTPRequest: the request line is the first line of the first buffer; the
\* keep-alive header counts if it is in that buffer.
Parsed(t) ==
    LET b == top[t]
        q == asked[t][b[1].req]
    IN  IF b[1].unit # 1 \/ q.path = "invalid" THEN None
        ELSE [path |-> q.path, of |-> b[1].req, keep |-> \E i \in 1 .. Len(b) : b[i].unit = q.keep]

\* write: one answer; the buffers freed; the connection closed or kept.
Reply(t, a, freed, keep) ==
    /\ out' = [out EXCEPT ![t] = Append(@, a)]
    /\ lost' = IF freed < parts[t] THEN lost \cup {t} ELSE lost
    /\ parts' = [parts EXCEPT ![t] = IF keep THEN 1 ELSE 0]
    /\ Goto(t, IF keep THEN "read" ELSE "closed")
    /\ req' = [req EXCEPT ![t] = None] /\ top' = [top EXCEPT ![t] = <<>>]
    /\ look' = [look EXCEPT ![t] = None]

Error(t, r) == [of |-> r, code |-> 500, body |-> None]

Parse(t) ==
    /\ At(t, "parse") /\ Parsed(t) # None
    /\ req' = [req EXCEPT ![t] = Parsed(t)]
    /\ Goto(t, IF towa_flag THEN "call" ELSE "lookup")
    /\ UNCHANGED <<towa_flag, todo, asked, wire, top, parts, out, files, hist, twvars>>

\* Faulty variant: after the 500 the request is processed all the same.
ParseFails_GoOn(t) ==
    /\ At(t, "parse") /\ Parsed(t) = None
    /\ out' = [out EXCEPT ![t] = Append(@, Error(t, top[t][1].req))]
    /\ req' = [req EXCEPT ![t] = [path |-> "invalid", of |-> top[t][1].req, keep |-> FALSE]]
    /\ Goto(t, "lookup")
    /\ UNCHANGED <<towa_flag, todo, asked, wire, top, parts, files, hist, twvars>>

\* An invalid request: 500, and only the first buffer is deleted.
ParseFails(t) ==
    /\ At(t, "parse") /\ Parsed(t) = None
    /\ Reply(t, Error(t, top[t][1].req), 1, FALSE)
    /\ UNCHANGED <<towa_flag, todo, asked, wire, cache, inmap, fs, changes, race, cut, was, twvars>>

-----------------------------------------------------------------------------
(***************************************************************************)
(* getFile.                                                                *)
(***************************************************************************)
\* A map operation begins: alone, or a race.
EnterMap(t) ==
    /\ inmap' = inmap \cup {t}
    /\ race' = (race \/ inmap # {})
    /\ down' \in IF inmap # {} THEN {"no", "map"} ELSE {"no"}

Lookup(t) ==
    /\ At(t, "lookup")
    /\ Goto(t, "found?")
    /\ EnterMap(t)
    /\ look' = [look EXCEPT ![t] = [key |-> req[t].path, file |-> None, stat |-> None]]
    /\ UNCHANGED <<towa_flag, conn, cache, fs, changes, cut, was, lost,
                   tw, tmsg, tans, pid, proc, job, pipes, war, overlap, died>>

\* cache[path] returns, with a new null entry if the key was not there.
Found(t) ==
    /\ At(t, "found?")
    /\ inmap' = inmap \ {t}
    /\ IF look[t].key \in DOMAIN cache
         THEN Goto(t, "send") /\ look' = [look EXCEPT ![t].file = cache[look[t].key]]
         ELSE Goto(t, "stat") /\ UNCHANGED look
    /\ UNCHANGED <<towa_flag, conn, cache, fs, changes, hist, twvars>>

\* The file that is there for a key; "d/" and "d" name the same directory.
File(k) == IF k \in Paths THEN fs[k] ELSE [kind |-> "none", ox |-> FALSE, version |-> "none"]
Index(k) == k \o "/index.html"

\* Faulty variant: a file is taken for a directory and a directory for a file.
Stat_Swapped(t) ==
    /\ At(t, "stat")
    /\ LET f == File(look[t].key)
           k == IF ~ f.ox THEN Index(look[t].key) ELSE look[t].key
           g == File(k)
       IN  IF f.kind = "none" \/ g.kind = "none"
             THEN Goto(t, "send") /\ UNCHANGED look
             ELSE /\ Goto(t, "load")
                  /\ look' = [look EXCEPT ![t] = [key |-> k, file |-> None, stat |-> g]]
    /\ UNCHANGED <<towa_flag, conn, cache, inmap, fs, changes, hist, twvars>>

\* stat.  st_mode & S_IFDIR != 0 is st_mode & 1: the test is whether others
\* may execute (or search) it, whatever it is.
Stat(t) ==
    /\ At(t, "stat")
    /\ LET f == File(look[t].key)
           k == IF f.ox THEN Index(look[t].key) ELSE look[t].key
           g == File(k)
       IN  IF f.kind = "none" \/ g.kind = "none"
             THEN Goto(t, "send") /\ UNCHANGED look
             ELSE /\ Goto(t, "load")
                  /\ look' = [look EXCEPT ![t] = [key |-> k, file |-> None, stat |-> g]]
    /\ UNCHANGED <<towa_flag, conn, cache, inmap, fs, changes, hist, twvars>>

\* WebFile: st_size bytes are read from the file as it is now; a file that is
\* gone is fopen's NULL, which fseek uses.
Load(t) ==
    /\ At(t, "load")
    /\ LET f == File(look[t].key)
       IN  /\ down' = IF f.kind = "none" THEN "fopen" ELSE down
           /\ look' = [look EXCEPT ![t].file =
                         IF f = look[t].stat THEN Content(f) ELSE "garbage"]
    /\ inmap' = inmap \cup {t} /\ race' = (race \/ inmap # {})
    /\ Goto(t, "store")
    /\ UNCHANGED <<towa_flag, conn, cache, fs, changes, cut, was, lost,
                   tw, tmsg, tans, pid, proc, job, pipes, war, overlap, died>>

\* cache[path] = the_file, under the path with index.html for a directory.
Store(t) ==
    /\ At(t, "store")
    /\ Goto(t, "send")
    /\ inmap' = inmap \ {t}
    /\ cache' = [k \in DOMAIN cache \cup {look[t].key} |->
                   IF k = look[t].key THEN look[t].file ELSE cache[k]]
    /\ UNCHANGED <<towa_flag, conn, look, fs, changes, hist, twvars>>

\* Faulty variant: the buffers are not deleted before a 404.
SendFile_Leak(t) ==
    /\ At(t, "send")
    /\ IF look[t].file = None
         THEN Reply(t, [of |-> req[t].of, code |-> 404, body |-> None], 0, FALSE)
         ELSE Reply(t, [of |-> req[t].of, code |-> 200, body |-> look[t].file], parts[t], req[t].keep)
    /\ UNCHANGED <<towa_flag, todo, asked, wire, cache, inmap, fs, changes, race, cut, was, twvars>>

\* All buffers are deleted.  Without a file the answer is 404 and the end of
\* the connection.
SendFile(t) ==
    /\ At(t, "send")
    /\ IF look[t].file = None
         THEN Reply(t, [of |-> req[t].of, code |-> 404, body |-> None], parts[t], FALSE)
         ELSE Reply(t, [of |-> req[t].of, code |-> 200, body |-> look[t].file], parts[t], req[t].keep)
    /\ UNCHANGED <<towa_flag, todo, asked, wire, cache, inmap, fs, changes, race, cut, was, twvars>>

-----------------------------------------------------------------------------
(***************************************************************************)
(* With -towa.                                                             *)
(***************************************************************************)
Call(t) ==
    /\ At(t, "call")
    /\ SendMsg(t, [path |-> req[t].path, from |-> t, of |-> req[t].of])
    /\ Goto(t, "answer")
    /\ UNCHANGED <<towa_flag, conn, files, hist>>

\* The answer of towa: 200 and 404 both go out as 200 with the text of the
\* message (a 404 breaks out of the switch to the same line), the rest as 500,
\* where only the first buffer is deleted.
SendAnswer(t) ==
    /\ At(t, "answer") /\ tw[t] = "out"
    /\ IF tans[t].code \in {200, 404}
         THEN Reply(t, [of |-> req[t].of, code |-> 200, body |-> tans[t]], parts[t], req[t].keep)
         ELSE Reply(t, [of |-> req[t].of, code |-> 500, body |-> tans[t]], 1, FALSE)
    /\ tans' = [tans EXCEPT ![t] = None]
    /\ UNCHANGED <<towa_flag, todo, asked, wire, cache, inmap, fs, changes, race, cut, was,
                   tw, tmsg, pid, proc, job, pipes, war, down, overlap, died>>

\* Somebody changes or removes a file.
Change(p) ==
    /\ Up /\ ~ towa_flag /\ changes < MaxChanges /\ changes' = changes + 1
    /\ fs[p].kind = "file"
    /\ fs' \in {[fs EXCEPT ![p].version = "new"],
                [fs EXCEPT ![p] = [kind |-> "none", ox |-> FALSE, version |-> "none"]]}
    /\ was' = [was EXCEPT ![p] = @ \cup {Content(fs'[p])}]
    /\ UNCHANGED <<towa_flag, th, conn, cache, look, inmap, race, cut, lost, twvars>>

-----------------------------------------------------------------------------
ThreadStep(t) ==
    \/ Accept(t) \/ (\E n \in 1 .. request_message_len : Read(t, n)) \/ Parse(t) \/ ParseFails(t)
    \/ Lookup(t) \/ Found(t) \/ Stat(t) \/ Load(t) \/ Store(t) \/ SendFile(t)
    \/ Call(t) \/ SendAnswer(t)

Next ==
    \/ \E t \in Threads : ThreadStep(t) \/ Ask(t) \/ Hangup(t)
    \/ \E p \in Edited : Change(p)
    \/ TowaNext /\ UNCHANGED wvars

Spec == Init /\ [][Next]_vars

(***************************************************************************)
(* Fairness: the threads and the towa processes run.  No client has to     *)
(* send a request.                                                         *)
(***************************************************************************)
FairSpec ==
    /\ Spec
    /\ \A t \in Threads : WF_vars(ThreadStep(t))
    /\ \A t \in Callers : SF_vars(MgrStep(t) /\ UNCHANGED wvars)
    /\ \A p \in Towas : WF_vars(TowaStep(p) /\ UNCHANGED wvars)

-----------------------------------------------------------------------------
(***************************************************************************)
(* Properties.                                                             *)
(***************************************************************************)
\* On a connection whose requests each came in one read, the i-th answer is the
\* answer to the i-th request.  A request that comes in pieces, or is longer than
\* a buffer, is answered after its first piece, and its rest is then answered as
\* a request of its own.
AnswersInOrder ==
    \A t \in Threads \ cut :
        Len(out[t]) <= Len(asked[t]) /\ \A i \in 1 .. Len(out[t]) : out[t][i].of = i

\* A servlet's answer goes to the client that asked for it, as long as one
\* thread at a time was in sendMsg.
OwnAnswer ==
    towa_flag /\ ~ overlap =>
        \A t \in Threads : \A i \in 1 .. Len(out[t]) :
            out[t][i].body # None =>
                /\ out[t][i].body.for.from = t
                /\ out[t][i].body.for.of = out[t][i].of

\* What the server sends for a file is what that file, or the index of that
\* directory, has once contained.  The exceptions are a file that changes between
\* stat and fread, and a directory others may not search, which is read as if it
\* were a file.
FileOrIndex(p) == UNION {was[k] : k \in {p, Index(p)} \cap Paths}
RightContent ==
    ~ towa_flag =>
        \A t \in Threads : \A i \in 1 .. Len(out[t]) :
            out[t][i].code = 200 =>
                \/ out[t][i].body \in FileOrIndex(asked[t][out[t][i].of].path)
                \/ changes > 0 /\ out[t][i].body = "garbage"

\* A file that is there all the time, and is not executable for others, is
\* never answered with 404, and neither is a directory with an index.
RightRefusal ==
    \A t \in Threads : \A i \in 1 .. Len(out[t]) :
        out[t][i].code = 404 /\ changes = 0 =>
            LET p == asked[t][out[t][i].of].path
            IN  p \notin Paths \/ (fs[p].ox /\ Index(p) \notin Paths)

\* getFile and its cache: what is there is found, with its own content.
FilesServed == RightContent /\ RightRefusal

\* Buffers are lost only on connections with a request that is as long as a
\* buffer, or with requests that came in pieces, which may fill one together.
FillsBuffer(t) ==
    t \in cut \/ \E i \in 1 .. Len(asked[t]) : asked[t][i].len = request_message_len
BuffersFreed == \A t \in lost : FillsBuffer(t)

\* What can take the server down: a race on the map, a file removed between stat
\* and fopen, a web.xml that unzip has not written yet, a towa process that died,
\* two threads inside sendMsg.
Survives ==
    CASE down = "no" -> TRUE
      [] down = "map" -> race
      [] down = "fopen" -> changes > 0
      [] down = "web.xml" -> war # "dir" \/ overlap
      [] OTHER -> overlap \/ died

\* Every request is answered, unless it fills its buffers exactly and the server
\* waits for more, or towa does not answer because it died or because two
\* threads were inside sendMsg.
Answers ==
    \A t \in Threads :
        ~ Answered(t) ~> Answered(t) \/ ~ Up \/ overlap \/ died \/ (FillsBuffer(t) /\ (parts[t] > 1 \/ t \in lost))
=============================================================================
