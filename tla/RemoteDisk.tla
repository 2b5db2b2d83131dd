----------------------------- MODULE RemoteDisk -----------------------------
(***************************************************************************)
(* The two clients of the SaWa server and the protocol between them:       *)
(*   - the block driver (sawa.c, tcp.c, sawa_driver_init), which opens a   *)
(*     connection for each message and does not wait for the answer to a   *)
(*     WRITE;                                                              *)
(*   - sawa-client (sawa_client_interface.cpp): single commands, and test  *)
(*     threads that write and read back pages over one connection;         *)
(*   - the reading loop of the server (SawaServer::readData), one thread   *)
(*     per connection, and processRequest, which BlockStore lets us take   *)
(*     as one step.                                                        *)
(*                                                                         *)
(* A connection is two streams of units.  A unit is a number: a length, a  *)
(* command, an offset, or a piece of data that is read or written as a     *)
(* whole, so a length counts units.  One read() may return only a part of  *)
(* what it asks for; the code never reads the rest.  Such a cut is counted *)
(* and recorded for its connection.  Memory that is read before it is      *)
(* written holds any unit of Junk.                                         *)
(***************************************************************************)
EXTENDS Integers, Sequences

CONSTANTS
    Driver,        \* the block driver
    Users,         \* sawa-client processes that send single commands
    Testers,       \* the threads of sawa-client test
    Nil,           \* no call
    NbSectors,     \* sectors of the server's file
    Sector,        \* units of a sector (512 bytes)
    Page,          \* units of a page (4096 bytes)
    Pages,         \* pages each test thread goes through (256)
    Word,          \* number of values of an unsigned int offset
    MaxLen,        \* the longest message the server accepts (32768)
    Junk,          \* what uninitialised memory may hold
    Data,          \* the units the driver writes
    Sectors,       \* the sectors the block layer may ask for
    UserCalls,     \* the commands given to sawa-client
    MaxConns,      \* bound: connections
    Loads,         \* bound: how many calls each client makes
    MaxFaults      \* bound: cut reads and deaths of the server

INFO == 1
READ == 2
WRITE == 3
MSG_OK == 5      \* 0x42
MSG_NOAUTH == 6  \* 0x44

Clients == {Driver} \cup Users \cup Testers
Conns == 1 .. MaxConns
NbUnits == NbSectors * Sector
Rep(v, n) == [i \in 1 .. n |-> v]
Junks(n) == [1 .. n -> Junk]
Min2(a, b) == IF a < b THEN a ELSE b
Max2(a, b) == IF a < b THEN b ELSE a

Info == [op |-> "info", off |-> 0, size |-> 2, val |-> <<>>]

\* What sawa_client.cpp lets through: a read or a write of at least one unit.  A
\* payload of more than a page would overrun the buffer of sendWriteCmd.
ACommand(cl) ==
    \/ cl = Info
    \/ cl.op = "read" /\ cl.size \in Nat \ {0}
    \/ cl.op = "write" /\ cl.size \in 1 .. Page /\ cl.val \in [1 .. cl.size -> Nat]

ASSUME DiskAssumption ==
    /\ {NbSectors, Pages, Word, MaxLen, MaxConns, MaxFaults} \subseteq Nat
    /\ Loads \subseteq [Clients -> Nat]
    /\ {Sector, Page} \subseteq Nat \ {0, 1}
    /\ NbUnits < Word
    /\ Pages * Page < Word
    /\ 2 + Sector <= MaxLen /\ 2 + Page <= MaxLen
    /\ Junk \cup Data \cup Sectors \subseteq Nat
    /\ Driver \notin Users \cup Testers
    /\ Users \cap Testers = {}
    /\ \A cl \in UserCalls : ACommand(cl)

VARIABLES
    \* The server.
    alive,          \* is the server process running?
    disk, old,      \* its store, and the store without the last write
    srv, want,      \* the thread of each connection, the length it read
    \* The connections.
    up, down,       \* units on their way to the server, to the client
    shut,           \* has the client closed it?
    \* The clients.
    pc, call, conn, \* control state, the call under way, its connection
    last,           \* the outcome of the last call
    page,           \* i of threadTest
    capacity,       \* nb_sectors of the driver, -1 before sawa_driver_init
    ksocks,         \* sockets the driver holds
    \* History.
    nconn, faults, fails,
    calls,          \* calls each client may still make
    cut,            \* was a read of this connection cut, or its server killed?
    asked, served,  \* the requests sent and the requests processed
    writer          \* the connection that wrote each unit last

server == <<alive, disk, old, srv, want, served, writer>>
streams == <<up, down, cut, faults>>
client == <<call, last, page, capacity>>
vars == <<server, streams, shut, pc, client, conn, ksocks, nconn, calls, fails, asked>>

None == [call |-> Nil, ret |-> 0, buf |-> <<>>, conn |-> 0]

Init ==
    /\ alive = TRUE
    /\ disk = Rep(0, NbUnits) /\ old = disk
    /\ srv = [c \in Conns |-> "none"]
    /\ want = [c \in Conns |-> 0]
    /\ up = [c \in Conns |-> <<>>] /\ down = up /\ asked = up /\ served = up
    /\ shut = [c \in Conns |-> FALSE] /\ cut = shut
    /\ pc = [p \in Clients |-> "idle"]
    /\ call = [p \in Clients |-> Nil]
    /\ conn = [p \in Clients |-> 0]
    /\ last = [p \in Clients |-> None]
    /\ page = [p \in Testers |-> 0]
    /\ capacity = -1
    /\ writer = Rep(0, NbUnits)
    /\ nconn = 0 /\ calls \in Loads /\ faults = 0 /\ fails = 0 /\ ksocks = 0

Goto(p, l) == pc' = [pc EXCEPT ![p] = l]

-----------------------------------------------------------------------------
(***************************************************************************)
(* The calls.  sawa_driver_init asks for the number of sectors; then the   *)
(* block layer reads and writes sectors below the capacity.  The offset is *)
(* an unsigned int.                                                        *)
(***************************************************************************)
DriverCall(op, s, v) ==
    [op |-> op, off |-> (s * Sector) % Word, size |-> Sector, val |-> Rep(v, Sector)]

\* The page a test thread writes: (i + j) % 256.
Pattern(i) == [j \in 1 .. Page |-> (i + j - 1) % 256]

\* threadTest: INFO, then for each page a WRITE and a READ.
TestCall(p) ==
    LET l == last[p].call IN
    CASE l = Nil -> Info
      [] l # Nil /\ l.op = "write" -> [l EXCEPT !.op = "read"]
      [] OTHER -> [op |-> "write", off |-> page[p] * Page, size |-> Page,
                   val |-> Pattern(page[p])]

CallsOf(p) ==
    CASE p = Driver /\ capacity = -1 -> {Info}
      [] p = Driver /\ capacity # -1 ->
           {DriverCall(op, s, v) : op \in {"read", "write"}, s \in {x \in Sectors : x < capacity}, v \in Data}
      [] p \in Users -> UserCalls
      [] p \in Testers -> IF page[p] < Pages THEN {TestCall(p)} ELSE {}

\* The call ends with a result: an outcome that the caller sees.
Return(p, cl, ret, buf) ==
    /\ Goto(p, "idle")
    /\ last' = [last EXCEPT ![p] = [call |-> cl, ret |-> ret, buf |-> buf, conn |-> conn[p]]]
    /\ call' = [call EXCEPT ![p] = Nil]

\* tcp_client_connect, SawaInterface::SawaInterface.
Connect(p, cl) ==
    /\ alive
    /\ nconn' = nconn + 1
    /\ conn' = [conn EXCEPT ![p] = nconn + 1]
    /\ srv' = [srv EXCEPT ![nconn + 1] = "header"]
    /\ ksocks' = IF p = Driver THEN ksocks + 1 ELSE ksocks
    /\ call' = [call EXCEPT ![p] = cl]
    /\ Goto(p, "send")
    /\ UNCHANGED <<last, fails>>

\* The server is not there: the driver returns -1 without releasing what it
\* allocated, sawa-client exits.
ConnectFails(p, cl) ==
    /\ ~ alive
    /\ IF p = Driver
         THEN /\ ksocks' = ksocks + 1
              /\ fails' = fails + 1
              /\ Return(p, cl, -1, <<>>)
         ELSE Goto(p, "exit") /\ UNCHANGED <<ksocks, fails, last, call>>
    /\ UNCHANGED <<nconn, conn, srv>>

\* A call connects first; a test thread keeps its connection.
Call(p, cl) ==
    /\ pc[p] = "idle"
    /\ calls[p] > 0
    /\ nconn < MaxConns
    /\ calls' = [calls EXCEPT ![p] = @ - 1]
    /\ IF p \in Testers /\ conn[p] # 0
         THEN /\ call' = [call EXCEPT ![p] = cl]
              /\ Goto(p, "send")
              /\ UNCHANGED <<last, nconn, conn, srv, ksocks, fails>>
         ELSE Connect(p, cl) \/ ConnectFails(p, cl)
    /\ UNCHANGED <<alive, disk, old, want, served, writer, streams, shut, page, capacity, asked>>

(***************************************************************************)
(* The messages.  sendWriteCmd always sends a page, whatever the size of   *)
(* the payload.                                                            *)
(***************************************************************************)
Bodies(p, cl) ==
    CASE cl.op = "info" -> {<<INFO>>}
      [] cl.op = "read" -> {<<READ, cl.off, cl.size>>}
      [] cl.op = "write" /\ p = Driver -> {<<WRITE, cl.off>> \o cl.val}
      [] cl.op = "write" /\ p # Driver ->
           {<<WRITE, cl.off>> \o cl.val \o tail : tail \in Junks(Page - cl.size)}

\* sawa_write_data closes and returns at once; the other calls wait.
AfterSend(p) ==
    IF p = Driver /\ call[p].op = "write"
      THEN /\ Return(p, call[p], 0, <<>>)
           /\ shut' = [shut EXCEPT ![conn[p]] = TRUE]
           /\ conn' = [conn EXCEPT ![p] = 0]
           /\ ksocks' = ksocks - 1
      ELSE /\ Goto(p, "recv")
           /\ UNCHANGED <<call, last, shut, conn, ksocks>>

\* tcp_client_send and write(); a message to a server that died is lost.  The
\* result of sending is not tested.
Send(p) ==
    /\ pc[p] = "send"
    /\ \E b \in Bodies(p, call[p]) : LET c == conn[p] IN
         /\ asked' = [asked EXCEPT ![c] = Append(@, b)]
         /\ up' = IF srv[c] = "closed" THEN up ELSE [up EXCEPT ![c] = @ \o <<Len(b)>> \o b]
    /\ AfterSend(p)
    /\ UNCHANGED <<server, down, cut, faults, page, capacity, nconn, calls, fails>>

-----------------------------------------------------------------------------
(***************************************************************************)
(* The answers.  n units were received; buf is what the caller finds in    *)
(* its buffer.                                                             *)
(***************************************************************************)
\* Faulty variant: the other byte order.
Count_Swapped(buf) == buf[2] + Word * buf[1]

\* nb_sectors, from the two units of an INFO answer.
Count(buf) == buf[1] + Word * buf[2]

\* Faulty variant: an error code counts as data.
Result_AnyRead(p, cl, n, buf) ==
    CASE p = Driver /\ cl.op = "info" -> 0
      [] p = Driver /\ cl.op = "read" -> IF n > 0 THEN 0 ELSE -1
      [] cl.op = "write" -> IF n = 1 THEN buf[1] ELSE 255
      [] OTHER -> IF n = 1 THEN -1 ELSE 0

\* sawa_read_data, sawa_send_info, sendReadCmd, sendWriteCmd, sendInfoCmd: 0,
\* an error (-1, or the exception an answer of one unit throws), or the
\* response to a WRITE.
Result(p, cl, n, buf) ==
    CASE p = Driver /\ cl.op = "info" -> 0
      [] p = Driver /\ cl.op = "read" -> IF n > 1 THEN 0 ELSE -1
      [] cl.op = "write" -> IF n = 1 THEN buf[1] ELSE 255
      [] OTHER -> IF n = 1 THEN -1 ELSE 0

\* sawa_driver_init: the capacity of the disk, unless the queue, the device number
\* or the disk cannot be had.
DriverInit(buf) == {Count(buf), -1}

Wanted(cl) == IF cl.op = "write" THEN 1 ELSE cl.size

\* What the rest of the buffer holds when n units were received: sawa_send_info
\* sets its first byte to 0x42, sendInfoCmd starts from 0.
Tails(p, cl, n) ==
    LET k == Wanted(cl) - n IN
    CASE p = Driver /\ cl.op = "info" /\ n = 0 -> {<<MSG_OK>> \o j : j \in Junks(k - 1)}
      [] p \in Users /\ cl.op = "info" -> {Rep(0, k)}
      [] OTHER -> Junks(k)

\* Faulty variant: the driver keeps its socket.
Finish_Keep(p, n, buf) ==
    /\ Return(p, call[p], Result(p, call[p], n, buf), buf)
    /\ capacity' \in IF p = Driver /\ call[p].op = "info" THEN DriverInit(buf) ELSE {capacity}
    /\ UNCHANGED <<shut, conn, ksocks, page>>

\* The call returns.  The connection is closed, but for a test thread's, whose
\* process ends if the exception of sendReadCmd is thrown.
Finish(p, n, buf) ==
    LET r == Result(p, call[p], n, buf) IN
    /\ IF p \in Testers
         THEN /\ IF call[p].op = "read" /\ r = -1
                   THEN Goto(p, "exit") /\ call' = [call EXCEPT ![p] = Nil] /\ UNCHANGED last
                   ELSE Return(p, call[p], r, buf)
              /\ page' = [page EXCEPT ![p] = IF call[p].op = "read" THEN @ + 1 ELSE @]
              /\ UNCHANGED <<shut, conn, ksocks>>
         ELSE /\ Return(p, call[p], r, buf)
              /\ shut' = [shut EXCEPT ![conn[p]] = TRUE]
              /\ conn' = [conn EXCEPT ![p] = 0]
              /\ ksocks' = IF p = Driver THEN ksocks - 1 ELSE ksocks
              /\ UNCHANGED page
    /\ capacity' \in IF p = Driver /\ call[p].op = "info" THEN DriverInit(buf) ELSE {capacity}

\* One read takes up to Wanted units of what has arrived.
Receive(p) ==
    LET c == conn[p] w == Wanted(call[p]) have == Min2(w, Len(down[c])) IN
    /\ pc[p] = "recv"
    /\ have > 0
    /\ \E n \in 1 .. have :
         /\ n < have => faults < MaxFaults
         /\ faults' = IF n < have THEN faults + 1 ELSE faults
         /\ cut' = [cut EXCEPT ![c] = @ \/ n < have]
         /\ down' = [down EXCEPT ![c] = SubSeq(@, n + 1, Len(@))]
         /\ \E tail \in Tails(p, call[p], n) : Finish(p, n, SubSeq(down[c], 1, n) \o tail)
    /\ UNCHANGED <<server, up, nconn, calls, fails, asked>>

\* The server closed the connection: nothing is received.
ReceiveNothing(p) ==
    LET c == conn[p] IN
    /\ pc[p] = "recv"
    /\ down[c] = <<>>
    /\ srv[c] = "closed"
    /\ \E tail \in Tails(p, call[p], 0) : Finish(p, 0, tail)
    /\ UNCHANGED <<server, streams, nconn, calls, fails, asked>>

\* sawa_driver_exit: the kernel waits for the requests under way.
DriverExit ==
    /\ pc[Driver] = "idle"
    /\ capacity # -1
    /\ calls[Driver] > 0
    /\ capacity' = -1
    /\ UNCHANGED <<server, streams, shut, pc, call, last, page, conn, ksocks, nconn, calls,
                   fails, asked>>

-----------------------------------------------------------------------------
(***************************************************************************)
(* The server.                                                             *)
(***************************************************************************)
CloseConn(c) == srv' = [srv EXCEPT ![c] = "closed"]

\* readData, lines 124-129: the length of the next message.
ReadHeader(c) ==
    /\ srv[c] = "header"
    /\ \/ /\ up[c] # <<>>
          /\ LET h == Head(up[c]) IN
             \/ /\ IF h > MaxLen THEN CloseConn(c)
                   ELSE srv' = [srv EXCEPT ![c] = IF h > 0 THEN "body" ELSE "header"]
                /\ want' = [want EXCEPT ![c] = h]
                /\ up' = [up EXCEPT ![c] = Tail(@)]
                /\ UNCHANGED <<cut, faults>>
             \* fewer than four bytes have arrived
             \/ /\ faults < MaxFaults
                /\ faults' = faults + 1
                /\ cut' = [cut EXCEPT ![c] = TRUE]
                /\ CloseConn(c)
                /\ UNCHANGED <<up, want>>
       \/ /\ up[c] = <<>>
          /\ shut[c]
          /\ CloseConn(c)
          /\ UNCHANGED <<up, want, cut, faults>>
    /\ UNCHANGED <<alive, disk, old, served, writer, down, shut, pc, client, conn, ksocks, nconn,
                   calls, fails, asked>>

(***************************************************************************)
(* processRequest on the message b, whose length was given as n: the       *)
(* answer, and the store after it.  A message that is too short for its    *)
(* command is completed by what lies behind it in memory; the size of a    *)
(* WRITE that has no offset wraps around.                                  *)
(***************************************************************************)
WriteSize(n) == (n - 2) % Word
Valid(off, size) == (off + size) % Word <= NbUnits
Span(off, size) == {u \in 1 .. NbUnits : off < u /\ u <= off + size}

\* Faulty variant: a request that is not valid gets no answer.
Answer_Silent(b, n) ==
    CASE b[1] = INFO -> <<NbSectors, 0>>
      [] b[1] = READ /\ Valid(b[2], b[3]) -> [i \in 1 .. b[3] |-> disk[b[2] + i]]
      [] b[1] = WRITE /\ Valid(b[2], WriteSize(n)) -> <<MSG_OK>>
      [] OTHER -> <<>>

Answer(b, n) ==
    CASE b[1] = INFO -> <<NbSectors, 0>>
      [] b[1] = READ -> IF Valid(b[2], b[3])
                          THEN [i \in 1 .. b[3] |-> IF b[2] + i <= NbUnits THEN disk[b[2] + i] ELSE 0]
                          ELSE <<MSG_NOAUTH>>
      [] b[1] = WRITE -> IF Valid(b[2], WriteSize(n)) THEN <<MSG_OK>> ELSE <<MSG_NOAUTH>>
      [] OTHER -> <<>>

Written(b, n) == IF b[1] = WRITE /\ Valid(b[2], WriteSize(n)) THEN Span(b[2], n - 2) ELSE {}

\* What the message holds for unit u of the store.
Payload(b, u) == b[u - b[2] + 2]

\* fwrite would read far beyond the message.
Overruns(b, n) == b[1] = WRITE /\ n < 2 /\ Valid(b[2], WriteSize(n))

\* Faulty variant: the last unit of a message is left in the stream.
Rest_Short(s, k) == SubSeq(s, Max2(k, 1), Len(s))

\* What a read of k units leaves.
Rest(s, k) == SubSeq(s, k + 1, Len(s))

Process(c, k, b, n) ==
    /\ disk' = [u \in 1 .. NbUnits |-> IF u \in Written(b, n) THEN Payload(b, u) ELSE disk[u]]
    /\ old' = disk
    /\ down' = [down EXCEPT ![c] = IF shut[c] THEN @ ELSE @ \o Answer(b, n)]
    /\ up' = [up EXCEPT ![c] = Rest(@, k)]
    /\ srv' = [srv EXCEPT ![c] = "header"]
    /\ served' = [served EXCEPT ![c] =
                    Append(@, [body |-> SubSeq(b, 1, n), out |-> Answer(b, n),
                               from |-> IF b[1] = READ THEN {writer[u] : u \in Span(b[2], b[3])}
                                        ELSE {}])]
    /\ writer' = [u \in 1 .. NbUnits |-> IF u \in Written(b, n) THEN c ELSE writer[u]]
    /\ UNCHANGED alive

\* The process is gone: its connections break, what the clients have not
\* received may be lost, and so may the last write.
Gone ==
    /\ alive' = FALSE
    /\ disk' \in {disk, old}
    /\ old' = disk'
    /\ srv' = [c \in Conns |-> IF srv[c] = "none" THEN "none" ELSE "closed"]
    /\ up' = [c \in Conns |-> <<>>]
    /\ down' \in {down, [c \in Conns |-> <<>>]}
    /\ writer' = Rep(0, NbUnits)
    /\ UNCHANGED served

\* readData, lines 131-139: k units of the message have arrived.  An empty
\* read blocks while the client may still send.
ReadBody(c) ==
    LET n == want[c] have == Min2(n, Len(up[c])) IN
    /\ srv[c] = "body"
    /\ have > 0 \/ shut[c]
    /\ \E k \in (IF have = 0 THEN {0} ELSE 1 .. have) :
         /\ k < have => faults < MaxFaults
         /\ faults' = IF k < have THEN faults + 1 ELSE faults
         /\ \E junk \in Junks(n - k), more \in Junks(Max2(3 - n, 0)) :
              LET b == SubSeq(up[c], 1, k) \o junk \o more IN
              IF Overruns(b, n)
                THEN /\ Gone
                     /\ cut' = [d \in Conns |-> cut[d] \/ srv[d] \in {"header", "body"}]
                ELSE /\ Process(c, k, b, n)
                     /\ cut' = [cut EXCEPT ![c] = @ \/ k < n]
    /\ UNCHANGED <<want, shut, pc, client, conn, ksocks, nconn, calls, fails, asked>>

\* The server is killed.
Die ==
    /\ alive
    /\ faults < MaxFaults
    /\ faults' = faults + 1
    /\ Gone
    /\ cut' = [c \in Conns |-> cut[c] \/ srv[c] \in {"header", "body"}]
    /\ UNCHANGED <<want, shut, pc, client, conn, ksocks, nconn, calls, fails, asked>>

Restart ==
    /\ ~ alive
    /\ alive' = TRUE
    /\ UNCHANGED <<disk, old, srv, want, served, writer, streams, shut, pc, client, conn, ksocks,
                   nconn, calls, fails, asked>>

-----------------------------------------------------------------------------
ClientStep(p) == Send(p) \/ Receive(p) \/ ReceiveNothing(p)
ServerStep(c) == ReadHeader(c) \/ ReadBody(c)

Next ==
    \/ \E p \in Clients : ClientStep(p) \/ \E cl \in CallsOf(p) : Call(p, cl)
    \/ \E c \in Conns : ServerStep(c)
    \/ DriverExit \/ Die \/ Restart

Spec == Init /\ [][Next]_vars

(***************************************************************************)
(* Fairness: the clients and the server's threads go on when they can.     *)
(* Nobody has to make a call, and a dead server need not come back.        *)
(***************************************************************************)
FairSpec ==
    /\ Spec
    /\ \A p \in Clients : WF_vars(ClientStep(p))
    /\ \A c \in Conns : WF_vars(ServerStep(c))

-----------------------------------------------------------------------------
(***************************************************************************)
(* Properties.                                                             *)
(***************************************************************************)
\* As long as no read() of a connection was cut, readData finds the messages of
\* its client one by one, whole and in order: lengths and bodies stay in step.
ServedAsSent ==
    \A c \in Conns : ~ cut[c] =>
      /\ Len(served[c]) <= Len(asked[c])
      /\ \A i \in 1 .. Len(served[c]) : served[c][i].body = asked[c][i]

\* A read that is not cut returns the data the server answered to this very
\* request; it fails only if the request was refused, or is for a single unit,
\* which sendReadCmd cannot tell from an error code.
OwnData ==
    \A p \in Clients : LET l == last[p] c == l.conn IN
      l.call # Nil /\ c # 0 /\ l.call.op = "read" /\ ~ cut[c] =>
        /\ \E i \in 1 .. Len(served[c]) :
             /\ served[c][i].body = <<READ, l.call.off, l.call.size>>
             /\ served[c][i].out = SubSeq(l.buf, 1, Len(served[c][i].out))
        /\ l.ret = 0 <=> l.call.size > 1 /\ Valid(l.call.off, l.call.size)

\* What a test thread reads back is what it wrote just before, unless another
\* connection wrote there in between.
OwnPage ==
    \A p \in Testers : LET l == last[p] c == l.conn IN
      l.call # Nil /\ l.call.op = "read" /\ ~ cut[c] /\ Valid(l.call.off, Page) =>
        LET s == served[c][Len(served[c])] IN
        s.body[1] = READ /\ s.from = {c} => l.buf = l.call.val

\* What the clients make of the answers to READ (sawa_read_data, sendReadCmd,
\* threadTest): the outcome of a read is the one of this very request.
ReadOutcome == OwnData /\ OwnPage

\* If no answer was ever cut, the driver knows the size of the server's file, its
\* requests lie within it, and only a server that is down makes one fail, also
\* after the server was killed and restarted.
DriverWithinStore ==
    (\A c \in Conns : ~ cut[c]) =>
      /\ capacity \in {-1, NbSectors}
      /\ last[Driver].call # Nil /\ last[Driver].conn # 0 => last[Driver].ret = 0

\* The driver holds one socket while a call is under way, and none otherwise,
\* but for the sockets it never releases when it cannot connect.
SocketsReleased == ksocks = fails + (IF conn[Driver] # 0 THEN 1 ELSE 0)

\* Every call returns, unless a read of its own connection was cut.
CallsReturn ==
    \A p \in Clients :
      pc[p] # "idle" ~> \/ pc[p] \in {"idle", "exit"}
                        \/ conn[p] # 0 /\ cut[conn[p]]
=============================================================================
