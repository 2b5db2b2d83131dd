-------------------------- MODULE RemoteDiskProofs --------------------------
(***************************************************************************)
(* The safety properties of RemoteDisk, for any clients, any size of the   *)
(* file, of a sector and of a page, any number of connections and faults.  *)
(*                                                                         *)
(* Everything is about a connection none of whose reads was cut.  There    *)
(* the two ends keep in step (Flow and Talk): at most one message is under *)
(* way, whole, and at most one answer, to the last message.  A connection  *)
(* that was cut carries anything, and the invariant says nothing of it.    *)
(***************************************************************************)
EXTENDS RemoteDisk, SequenceTheorems, TLAPS

Labels == {"idle", "send", "recv", "exit"}

\* A sequence, whatever its elements are.
IsSeq(s) == s \in Seq({s[i] : i \in 1 .. Len(s)})

-----------------------------------------------------------------------------
(***************************************************************************)
(* The invariant.                                                          *)
(***************************************************************************)
Typed ==
    /\ nconn \in 0 .. MaxConns
    /\ conn \in [Clients -> 0 .. nconn]
    /\ page \in [Testers -> Nat]
    /\ writer \in [1 .. NbUnits -> 0 .. nconn]
    /\ shut \in [Conns -> BOOLEAN] /\ cut \in [Conns -> BOOLEAN]
    /\ DOMAIN srv = Conns /\ DOMAIN want = Conns
    /\ DOMAIN up = Conns /\ DOMAIN down = Conns
    /\ DOMAIN asked = Conns /\ DOMAIN served = Conns
    /\ DOMAIN pc = Clients /\ DOMAIN call = Clients /\ DOMAIN last = Clients
    /\ \A p \in Clients : pc[p] \in Labels /\ last[p].conn \in 0 .. nconn
    /\ ksocks \in Int /\ fails \in Int

\* Connections are opened one after the other.
Fresh ==
    \A c \in Conns :
      IF c <= nconn THEN srv[c] \in {"header", "body", "closed"}
      ELSE /\ srv[c] = "none" /\ ~ shut[c] /\ ~ cut[c]
           /\ up[c] = <<>> /\ down[c] = <<>> /\ asked[c] = <<>> /\ served[c] = <<>>

\* No two clients use the same connection.
OneOwner == \A p, q \in Clients : conn[p] # 0 /\ conn[p] = conn[q] => p = q

MessageOK(b) ==
    /\ IsSeq(b)
    /\ Len(b) \in 1 .. MaxLen
    /\ \/ b[1] = INFO /\ Len(b) = 1
       \/ b[1] = READ /\ Len(b) = 3 /\ b[3] \in Nat
       \/ b[1] = WRITE /\ Len(b) >= 3

\* The requests a and the processed requests s of a connection, the stream u to
\* the server, and its thread, at r with the length w; sh: the client is gone.
Flow(a, s, u, w, r, sh) ==
    /\ IsSeq(a) /\ IsSeq(s)
    /\ Len(s) <= Len(a) /\ Len(a) <= Len(s) + 1
    /\ \A i \in 1 .. Len(s) : s[i].body = a[i]
    /\ Len(a) = Len(s) =>
         u = <<>> /\ r \in {"none", "header", "closed"} /\ (r = "closed" => sh)
    /\ Len(a) = Len(s) + 1 =>
         /\ MessageOK(a[Len(a)])
         /\ \/ r = "header" /\ u = <<Len(a[Len(a)])>> \o a[Len(a)]
            \/ r = "body" /\ u = a[Len(a)] /\ w = Len(a[Len(a)])

Flows ==
    \A c \in Conns : ~ cut[c] => Flow(asked[c], served[c], up[c], want[c], srv[c], shut[c])

\* The calls a client can have under way.
CallOK(p, cl) ==
    /\ cl.op \in {"info", "read", "write"}
    /\ cl.op = "info" => cl.size = 2
    /\ cl.op = "read" => cl.size \in Nat \ {0}
    /\ cl.op = "write" => IsSeq(cl.val) /\ Len(cl.val) \in Nat \ {0}
    /\ cl.op = "write" /\ p = Driver => Len(cl.val) = Sector
    /\ cl.op = "write" /\ p # Driver => cl.size \in 1 .. Page /\ Len(cl.val) = cl.size

\* What was processed as s is answered to the call cl of p, on connection c.
AnswerOK(p, cl, c, s) ==
    /\ IsSeq(s.out)
    /\ cl.op = "info" => s.out = <<NbSectors, 0>>
    /\ cl.op = "read" => Len(s.out) = IF Valid(cl.off, cl.size) THEN cl.size ELSE 1
    /\ cl.op = "write" => Len(s.out) = 1
    /\ p \in Testers /\ cl.op = "read" /\ Valid(cl.off, Page) /\ s.from = {c} =>
         s.out = cl.val

\* Client p at l with the call cl, and its connection c: d is the stream to it.
Talk(p, l, cl, c, a, s, d, r, sh) ==
    /\ ~ sh /\ r \in {"header", "body"}
    /\ l # "recv" => Len(a) = Len(s) /\ d = <<>>
    /\ l = "recv" =>
         /\ Len(a) > 0 /\ a[Len(a)] \in Bodies(p, cl)
         /\ Len(a) = Len(s) + 1 => d = <<>>
         /\ Len(a) = Len(s) => d = s[Len(s)].out /\ AnswerOK(p, cl, c, s[Len(s)])

Talks ==
    \A p \in Clients : LET c == conn[p] IN
      c # 0 /\ ~ cut[c] => Talk(p, pc[p], call[p], c, asked[c], served[c], down[c], srv[c], shut[c])

\* A client that waits for the server has a connection and a call.
Busy ==
    \A p \in Clients : pc[p] \in {"send", "recv"} => conn[p] # 0 /\ CallOK(p, call[p])

\* A call of threadTest on page j.
TestRec(op, j) == [op |-> op, off |-> j * Page, size |-> Page, val |-> Pattern(j)]

TesterOK(p, l, cl, la, i, c) ==
    /\ l \in {"send", "recv"} =>
         /\ i < Pages
         /\ cl \in {Info, TestRec("write", i), TestRec("read", i)}
         /\ la.call # Nil /\ la.call.op = "read" => cl.op = "write"
    /\ la.call # Nil => c # 0 /\ la.conn = c
    /\ la.call # Nil /\ la.call.op = "write" /\ l # "exit" => la.call = TestRec("write", i)

TestersOK == \A p \in Testers : TesterOK(p, pc[p], call[p], last[p], page[p], conn[p])

\* Unit u of the store holds what threadTest writes there.
Tested(u, v) ==
    \E j \in Nat : j * Page < u /\ u <= j * Page + Page /\ v = Pattern(j)[u - j * Page]

\* What a test thread's connection wrote last holds its pattern.
PagesOK ==
    \A p \in Testers : conn[p] # 0 /\ ~ cut[conn[p]] =>
      \A u \in 1 .. NbUnits : writer[u] = conn[p] => Tested(u, disk[u])

NoCut == \A c \in Conns : ~ cut[c]

\* The request of the driver that is under way lies within the store.
DriverOK ==
    NoCut /\ pc[Driver] \in {"send", "recv"} /\ call[Driver].op = "read" =>
      call[Driver].size > 1 /\ Valid(call[Driver].off, call[Driver].size)

DriverPlace ==
    /\ pc[Driver] # "exit"
    /\ pc[Driver] = "idle" <=> conn[Driver] = 0
    /\ pc[Driver] = "recv" => call[Driver].op # "write"

IInv ==
    /\ Typed /\ Fresh /\ OneOwner /\ Flows /\ Talks /\ Busy
    /\ TestersOK /\ PagesOK /\ OwnData /\ OwnPage
    /\ DriverOK /\ DriverPlace /\ DriverWithinStore /\ SocketsReleased

-----------------------------------------------------------------------------
(***************************************************************************)
(* Sequences of anything.                                                  *)
(***************************************************************************)
\* A sequence over any set is one.
LEMMA SeqIs == ASSUME NEW S, NEW s \in Seq(S) PROVE IsSeq(s)
<1> DEFINE E == {s[i] : i \in 1 .. Len(s)}
<1>1. Len(s) \in Nat /\ s \in [1 .. Len(s) -> S] /\ DOMAIN s = 1 .. Len(s)
  BY LenProperties
<1>2. s \in [1 .. Len(s) -> E]
  BY <1>1
<1>3. s \in Seq(E)
  BY <1>1, <1>2 DEF E
<1> QED BY <1>3 DEF IsSeq

\* A sequence is a function on its positions, and is determined by its elements.
LEMMA SeqFun == ASSUME NEW s, IsSeq(s)
                PROVE Len(s) \in Nat /\ DOMAIN s = 1 .. Len(s)
BY LenProperties DEF IsSeq

LEMMA SeqSame == ASSUME NEW s, NEW t, IsSeq(s), IsSeq(t), Len(s) = Len(t),
                        \A i \in 1 .. Len(s) : s[i] = t[i]
                 PROVE s = t
<1> DEFINE S == {s[i] : i \in 1 .. Len(s)}
           T == {t[i] : i \in 1 .. Len(t)}
           E == S \cup T
<1>1. s \in Seq(S) /\ t \in Seq(T)
  BY DEF IsSeq
<1>2. s \in Seq(E)
  BY <1>1, SeqMonotonic, S \subseteq E
<1>3. t \in Seq(E)
  BY <1>1, SeqMonotonic, T \subseteq E
<1> HIDE DEF E
<1> QED BY <1>2, <1>3, SeqEqual

LEMMA FunIs == ASSUME NEW n \in Nat, NEW S, NEW f \in [1 .. n -> S]
               PROVE IsSeq(f) /\ Len(f) = n /\ (n = 0 => f = <<>>)
<1>1. f \in Seq(S) /\ Len(f) = n
  OBVIOUS
<1>2. n = 0 => f = <<>>
  BY <1>1, EmptySeq
<1> QED BY <1>1, <1>2, SeqIs

LEMMA EmptyIs == IsSeq(<<>>) /\ Len(<<>>) = 0
BY EmptySeq, SeqIs

LEMMA LenZero == ASSUME NEW s, IsSeq(s), Len(s) = 0 PROVE s = <<>>
BY EmptyIs, SeqSame

LEMMA ConcatIs ==
    ASSUME NEW s, NEW t, IsSeq(s), IsSeq(t)
    PROVE /\ IsSeq(s \o t)
          /\ Len(s \o t) = Len(s) + Len(t)
          /\ \A i \in 1 .. Len(s) : (s \o t)[i] = s[i]
          /\ \A i \in 1 .. Len(t) : (s \o t)[Len(s) + i] = t[i]
<1> DEFINE S == {s[i] : i \in 1 .. Len(s)}
           T == {t[i] : i \in 1 .. Len(t)}
           E == S \cup T
<1>1. s \in Seq(S) /\ t \in Seq(T)
  BY DEF IsSeq
<1>2. s \in Seq(E)
  BY <1>1, SeqMonotonic, S \subseteq E
<1>3. t \in Seq(E)
  BY <1>1, SeqMonotonic, T \subseteq E
<1> HIDE DEF E
<1>4. /\ s \o t \in Seq(E)
      /\ Len(s \o t) = Len(s) + Len(t)
      /\ \A i \in 1 .. Len(s) + Len(t) : (s \o t)[i] = IF i <= Len(s) THEN s[i] ELSE t[i - Len(s)]
  BY <1>2, <1>3, ConcatProperties
<1>5. Len(s) \in Nat /\ Len(t) \in Nat
  BY SeqFun
<1>6. IsSeq(s \o t)
  BY <1>4, SeqIs
<1>7. \A i \in 1 .. Len(s) : (s \o t)[i] = s[i]
  BY <1>4, <1>5
<1>8. \A i \in 1 .. Len(t) : (s \o t)[Len(s) + i] = t[i]
  <2> TAKE i \in 1 .. Len(t)
  <2>1. Len(s) + i \in 1 .. Len(s) + Len(t) /\ ~ (Len(s) + i <= Len(s)) /\ Len(s) + i - Len(s) = i
    BY <1>5
  <2> QED BY <2>1, <1>4
<1> QED BY <1>4, <1>6, <1>7, <1>8

LEMMA ConcatEmpty ==
    ASSUME NEW s, IsSeq(s) PROVE s \o <<>> = s /\ <<>> \o s = s
BY ConcatEmptySeq DEF IsSeq

LEMMA AppendIs ==
    ASSUME NEW s, NEW x, IsSeq(s)
    PROVE /\ IsSeq(Append(s, x))
          /\ Len(Append(s, x)) = Len(s) + 1
          /\ \A i \in 1 .. Len(s) : Append(s, x)[i] = s[i]
          /\ Append(s, x)[Len(s) + 1] = x
<1> DEFINE S == {s[i] : i \in 1 .. Len(s)}
           E == S \cup {x}
<1>1. s \in Seq(S)
  BY DEF IsSeq
<1>2. s \in Seq(E)
  BY <1>1, SeqMonotonic, S \subseteq E
<1>3. x \in E
  OBVIOUS
<1> HIDE DEF E
<1>4. /\ Append(s, x) \in Seq(E)
      /\ Len(Append(s, x)) = Len(s)+1
      /\ \A i \in 1.. Len(s) : Append(s, x)[i] = s[i]
      /\ Append(s, x)[Len(s)+1] = x
  BY <1>2, <1>3, AppendProperties
<1> QED BY <1>4, SeqIs

LEMMA PrefixIs ==
    ASSUME NEW s, IsSeq(s), NEW n \in 0 .. Len(s)
    PROVE /\ IsSeq(SubSeq(s, 1, n)) /\ Len(SubSeq(s, 1, n)) = n
          /\ \A i \in 1 .. n : SubSeq(s, 1, n)[i] = s[i]
<1> DEFINE S == {s[i] : i \in 1 .. Len(s)}
<1>1. Len(s) \in Nat
  BY SeqFun
<1>2. \A i \in 1 .. n : s[i] \in S
  BY <1>1
<1> HIDE DEF S
<1>3. 1 \in Int /\ n \in Int /\ n \in Nat
  BY <1>1
<1>4. /\ SubSeq(s, 1, n) \in Seq(S)
      /\ Len(SubSeq(s, 1, n)) = IF 1 <= n THEN n - 1 + 1 ELSE 0
      /\ \A i \in 1 .. n - 1 + 1 : SubSeq(s, 1, n)[i] = s[1 + i - 1]
  BY <1>2, <1>3, SubSeqProperties
<1>5. IsSeq(SubSeq(s, 1, n))
  BY <1>4, SeqIs
<1>6. Len(SubSeq(s, 1, n)) = n
  BY <1>4, <1>3
<1>7. ASSUME NEW i \in 1 .. n PROVE SubSeq(s, 1, n)[i] = s[i]
  <2>1. i \in 1 .. n - 1 + 1 /\ 1 + i - 1 = i
    BY <1>3
  <2> QED BY <2>1, <1>4
<1> QED BY <1>5, <1>6, <1>7

LEMMA WholeIs == ASSUME NEW s, IsSeq(s)
                 PROVE SubSeq(s, 1, Len(s)) = s /\ SubSeq(s, Len(s) + 1, Len(s)) = <<>>
<1>1. Len(s) \in Nat
  BY SeqFun
<1>2. SubSeq(s, 1, Len(s)) = s
  BY SubSeqFull DEF IsSeq
<1> QED BY <1>1, <1>2, SubSeqEmpty

\* The first of two parts.
LEMMA FirstPart == ASSUME NEW s, NEW t, IsSeq(s), IsSeq(t)
                   PROVE SubSeq(s \o t, 1, Len(s)) = s
<1>1. /\ IsSeq(s \o t) /\ Len(s \o t) = Len(s) + Len(t)
      /\ \A i \in 1 .. Len(s) : (s \o t)[i] = s[i]
  BY ConcatIs
<1>2. Len(s) \in Nat /\ Len(t) \in Nat
  BY SeqFun
<1>3. Len(s) \in 0 .. Len(s \o t)
  BY <1>1, <1>2
<1>4. /\ IsSeq(SubSeq(s \o t, 1, Len(s))) /\ Len(SubSeq(s \o t, 1, Len(s))) = Len(s)
      /\ \A i \in 1 .. Len(s) : SubSeq(s \o t, 1, Len(s))[i] = (s \o t)[i]
  BY <1>1, <1>3, PrefixIs
<1> QED BY <1>1, <1>4, SeqSame

\* A unit before a message: what readData reads first.
LEMMA HeaderFirst ==
    ASSUME NEW x, NEW b, IsSeq(b)
    PROVE <<x>> \o b # <<>> /\ Head(<<x>> \o b) = x /\ Tail(<<x>> \o b) = b
<1> DEFINE B == {b[i] : i \in 1 .. Len(b)}
           E == B \cup {x}
           s == <<x>> \o b
<1>1. b \in Seq(B)
  BY DEF IsSeq
<1>2. b \in Seq(E)
  BY <1>1, SeqMonotonic, B \subseteq E
<1>3. x \in E
  OBVIOUS
<1> HIDE DEF E
<1>4. <<x>> \in Seq(E) /\ Len(<<x>>) = 1 /\ <<x>>[1] = x
  BY <1>3
<1>5. IsSeq(<<x>>)
  BY <1>4, SeqIs
<1>6. /\ IsSeq(s) /\ Len(s) = 1 + Len(b) /\ s[1] = x
      /\ \A i \in 1 .. Len(b) : s[1 + i] = b[i]
  BY <1>4, <1>5, ConcatIs
<1>7. s \in Seq(E)
  BY <1>2, <1>4, ConcatProperties
<1>8. Len(b) \in Nat
  BY SeqFun
<1>9. s # <<>>
  BY <1>6, <1>8, EmptyIs
<1> HIDE DEF s
<1>10. Head(s) = x
  BY <1>6, <1>7, <1>9
<1>11. Tail(s) \in Seq(E) /\ Len(Tail(s)) = Len(s) - 1 /\ \A i \in 1 .. Len(Tail(s)) : Tail(s)[i] = s[i + 1]
  BY <1>7, <1>9, HeadTailProperties
<1>12. IsSeq(Tail(s)) /\ Len(Tail(s)) = Len(b)
  <2>1. IsSeq(Tail(s))
    BY <1>11, SeqIs
  <2> QED BY <2>1, <1>6, <1>8, <1>11
<1>13. \A i \in 1 .. Len(Tail(s)) : Tail(s)[i] = b[i]
  BY <1>6, <1>8, <1>11, <1>12
<1>14. Tail(s) = b
  BY <1>12, <1>13, SeqSame
<1> QED BY <1>9, <1>10, <1>14 DEF s

\* Short sequences.
LEMMA Short == ASSUME NEW x, NEW y, NEW z
               PROVE /\ IsSeq(<<x>>) /\ Len(<<x>>) = 1
                     /\ IsSeq(<<x, y>>) /\ Len(<<x, y>>) = 2
                     /\ IsSeq(<<x, y, z>>) /\ Len(<<x, y, z>>) = 3
<1>1. <<x>> \in Seq({x}) /\ <<x, y>> \in Seq({x, y}) /\ <<x, y, z>> \in Seq({x, y, z})
  OBVIOUS
<1> QED BY <1>1, SeqIs

-----------------------------------------------------------------------------
(***************************************************************************)
(* Messages and answers.                                                   *)
(***************************************************************************)
LEMMA Constants ==
    /\ NbSectors \in Nat /\ Pages \in Nat /\ Word \in Nat \ {0} /\ MaxLen \in Nat /\ MaxConns \in Nat
    /\ Sector \in Nat /\ Sector >= 2 /\ Page \in Nat /\ Page >= 2
    /\ NbUnits \in Nat /\ NbUnits < Word
    /\ 2 + Sector <= MaxLen /\ 2 + Page <= MaxLen
    /\ Driver \in Clients /\ Testers \subseteq Clients /\ Users \subseteq Clients
    /\ Driver \notin Testers /\ Driver \notin Users
    /\ Conns = 1 .. MaxConns
<1>1. NbSectors \in Nat /\ Pages \in Nat /\ Word \in Nat /\ MaxLen \in Nat /\ MaxConns \in Nat
  BY DiskAssumption
<1>2. Sector \in Nat /\ Sector >= 2 /\ Page \in Nat /\ Page >= 2
  BY DiskAssumption
<1>3. NbUnits \in Nat
  BY <1>1, <1>2 DEF NbUnits
<1>4. NbUnits < Word
  BY DiskAssumption
<1>5. Word \in Nat \ {0}
  BY <1>1, <1>3, <1>4
<1>6. 2 + Sector <= MaxLen /\ 2 + Page <= MaxLen /\ Driver \notin Testers /\ Driver \notin Users
  BY DiskAssumption
<1> QED BY <1>1, <1>2, <1>3, <1>4, <1>5, <1>6 DEF Clients, Conns

LEMMA JunkIs ==
    ASSUME NEW n \in Nat, NEW j \in Junks(n)
    PROVE IsSeq(j) /\ Len(j) = n /\ (n = 0 => j = <<>>)
BY FunIs DEF Junks

\* The messages of a call: one the server accepts, with the call's data in it.
LEMMA BodyOK ==
    ASSUME NEW p \in Clients, NEW cl, CallOK(p, cl), NEW b \in Bodies(p, cl)
    PROVE /\ MessageOK(b)
          /\ cl.op = "info" => b = <<INFO>>
          /\ cl.op = "read" => b = <<READ, cl.off, cl.size>>
          /\ cl.op = "write" => b[1] = WRITE /\ b[2] = cl.off
          /\ cl.op = "write" /\ p # Driver =>
               Len(b) = 2 + Page /\ \A i \in 1 .. cl.size : b[2 + i] = cl.val[i]
<1> USE DEF INFO, READ, WRITE
<1>c. cl.op \in {"info", "read", "write"}
  BY DEF CallOK
<1>k. Sector \in Nat /\ Sector >= 2 /\ Page \in Nat /\ Page >= 2 /\ MaxLen \in Nat
      /\ 2 + Sector <= MaxLen /\ 2 + Page <= MaxLen
  BY Constants
<1>1. CASE cl.op = "info"
  <2>1. b = <<INFO>>
    BY <1>1 DEF Bodies
  <2>2. IsSeq(b) /\ Len(b) = 1 /\ b[1] = INFO
    BY <2>1, Short
  <2>3. MessageOK(b)
    BY <2>2, <1>k DEF MessageOK
  <2> QED BY <1>1, <2>1, <2>3
<1>2. CASE cl.op = "read"
  <2>1. b = <<READ, cl.off, cl.size>>
    BY <1>2 DEF Bodies
  <2>2. IsSeq(b) /\ Len(b) = 3
    BY <2>1, Short
  <2>3. b[1] = READ /\ b[3] = cl.size /\ cl.size \in Nat
    BY <2>1, <1>2 DEF CallOK
  <2>4. MessageOK(b)
    BY <2>2, <2>3, <1>k DEF MessageOK
  <2> QED BY <1>2, <2>1, <2>4
<1>3. CASE cl.op = "write"
  <2> DEFINE h == <<WRITE, cl.off>>
  <2>1. IsSeq(h) /\ Len(h) = 2 /\ h[1] = WRITE /\ h[2] = cl.off
    BY Short
  <2>2. IsSeq(cl.val) /\ Len(cl.val) \in Nat \ {0}
    BY <1>3 DEF CallOK
  <2> HIDE DEF h
  <2>3. /\ IsSeq(h \o cl.val) /\ Len(h \o cl.val) = 2 + Len(cl.val)
        /\ (h \o cl.val)[1] = WRITE /\ (h \o cl.val)[2] = cl.off
        /\ \A i \in 1 .. Len(cl.val) : (h \o cl.val)[2 + i] = cl.val[i]
    <3> DEFINE v == cl.val
    <3>1. IsSeq(v)
      BY <2>2
    <3>h. IsSeq(h)
      BY <2>1
    <3> HIDE DEF v
    <3>2. /\ IsSeq(h \o v) /\ Len(h \o v) = Len(h) + Len(v)
          /\ \A i \in 1 .. Len(h) : (h \o v)[i] = h[i]
          /\ \A i \in 1 .. Len(v) : (h \o v)[Len(h) + i] = v[i]
      BY <3>h, <3>1, ConcatIs
    <3>3. /\ IsSeq(h \o cl.val) /\ Len(h \o cl.val) = Len(h) + Len(cl.val)
          /\ \A i \in 1 .. Len(h) : (h \o cl.val)[i] = h[i]
          /\ \A i \in 1 .. Len(cl.val) : (h \o cl.val)[Len(h) + i] = cl.val[i]
      BY <3>2 DEF v
    <3>4. 1 \in 1 .. Len(h) /\ 2 \in 1 .. Len(h)
      BY <2>1
    <3> QED BY <3>3, <3>4, <2>1
  <2>4. CASE p = Driver
    <3>1. b = h \o cl.val
      BY <1>3, <2>4 DEF Bodies, h
    <3>2. Len(cl.val) = Sector
      BY <1>3, <2>4 DEF CallOK
    <3>3. IsSeq(b) /\ Len(b) \in 1 .. MaxLen /\ b[1] = WRITE /\ Len(b) >= 3 /\ b[2] = cl.off
      BY <3>1, <3>2, <2>3, <1>k
    <3>4. MessageOK(b)
      BY <3>3 DEF MessageOK
    <3> QED BY <1>3, <2>4, <3>3, <3>4
  <2>5. CASE p # Driver
    <3>1. cl.size \in 1 .. Page /\ Len(cl.val) = cl.size
      BY <1>3, <2>5 DEF CallOK
    <3>2. PICK tail \in Junks(Page - cl.size) : b = h \o cl.val \o tail
      BY <1>3, <2>5 DEF Bodies, h
    <3>3. Page - cl.size \in Nat
      BY <3>1, <1>k
    <3>4. IsSeq(tail) /\ Len(tail) = Page - cl.size
      BY <3>3, JunkIs
    <3> DEFINE g == h \o cl.val
    <3>5. IsSeq(g) /\ Len(g) = 2 + cl.size /\ g[1] = WRITE /\ g[2] = cl.off
          /\ \A i \in 1 .. cl.size : g[2 + i] = cl.val[i]
      BY <2>3, <3>1
    <3>6. b = g \o tail
      BY <3>2
    <3> HIDE DEF g
    <3>7. IsSeq(b) /\ Len(b) = Len(g) + Len(tail) /\ \A i \in 1 .. Len(g) : b[i] = g[i]
      <4>1. IsSeq(g) /\ IsSeq(tail)
        BY <3>4, <3>5
      <4> QED BY <4>1, <3>6, ConcatIs
    <3>8. Len(b) = 2 + Page /\ \A i \in 1 .. 2 + cl.size : b[i] = g[i]
      BY <3>7, <3>4, <3>5, <3>1, <1>k
    <3>9. 1 \in 1 .. 2 + cl.size /\ 2 \in 1 .. 2 + cl.size /\ \A i \in 1 .. cl.size : 2 + i \in 1 .. 2 + cl.size
      BY <3>1
    <3>10. b[1] = WRITE /\ b[2] = cl.off /\ \A i \in 1 .. cl.size : b[2 + i] = cl.val[i]
      BY <3>5, <3>8, <3>9
    <3>11. MessageOK(b)
      BY <3>7, <3>8, <3>10, <1>k DEF MessageOK
    <3> QED BY <1>3, <3>8, <3>10, <3>11
  <2> QED BY <2>4, <2>5
<1> QED BY <1>c, <1>1, <1>2, <1>3

\* The buffer the server has read a whole message into: the message, and what
\* lies behind it.
LEMMA WholeBuffer ==
    ASSUME NEW m, MessageOK(m), NEW junk \in Junks(Len(m) - Len(m)),
           NEW more \in Junks(Max2(3 - Len(m), 0)),
           NEW b, b = SubSeq(m, 1, Len(m)) \o junk \o more
    PROVE SubSeq(b, 1, Len(m)) = m /\ \A i \in 1 .. Len(m) : b[i] = m[i]
<1>1. IsSeq(m) /\ Len(m) \in Nat
  BY SeqFun DEF MessageOK
<1>2. junk = <<>>
  <2>1. Len(m) - Len(m) = 0
    BY <1>1
  <2> QED BY <2>1, JunkIs
<1>3. IsSeq(more)
  <2>1. Max2(3 - Len(m), 0) \in Nat
    BY <1>1 DEF Max2
  <2> QED BY <2>1, JunkIs
<1>4. b = m \o more
  BY <1>1, <1>2, WholeIs, ConcatEmpty
<1> QED BY <1>1, <1>3, <1>4, FirstPart, ConcatIs

\* What fread finds there; the server's buffer is zero behind the end.
Stored(off, size) == [i \in 1 .. size |-> IF off + i <= NbUnits THEN disk[off + i] ELSE 0]

Begins(b, m) == \A i \in 1 .. Len(m) : b[i] = m[i]

\* What processRequest answers to a message of a call.
LEMMA AnswerLen ==
    ASSUME NEW p \in Clients, NEW cl, CallOK(p, cl), NEW m \in Bodies(p, cl), NEW b, Begins(b, m)
    PROVE /\ IsSeq(Answer(b, Len(m)))
          /\ cl.op = "info" => Answer(b, Len(m)) = <<NbSectors, 0>>
          /\ cl.op = "read" =>
               Len(Answer(b, Len(m))) = IF Valid(cl.off, cl.size) THEN cl.size ELSE 1
          /\ cl.op = "read" /\ Valid(cl.off, cl.size) =>
               Answer(b, Len(m)) =
                 Stored(cl.off, cl.size)
          /\ cl.op = "write" => Len(Answer(b, Len(m))) = 1
<1> USE DEF INFO, READ, WRITE
<1> DEFINE A == Answer(b, Len(m))
<1>c. cl.op \in {"info", "read", "write"}
  BY DEF CallOK
<1>m. /\ MessageOK(m)
      /\ cl.op = "info" => m = <<INFO>>
      /\ cl.op = "read" => m = <<READ, cl.off, cl.size>>
      /\ cl.op = "write" => m[1] = WRITE /\ m[2] = cl.off
  BY BodyOK
<1>n. Len(m) \in Nat /\ Len(m) >= 1
  BY <1>m, SeqFun DEF MessageOK
<1>o. b[1] = m[1]
  BY <1>n DEF Begins
<1>1. CASE cl.op = "info"
  <2>1. b[1] = INFO
    BY <1>1, <1>m, <1>o
  <2>2. A = <<NbSectors, 0>>
    BY <2>1 DEF Answer
  <2> HIDE DEF A
  <2>3. IsSeq(A)
    BY <2>2, Short
  <2> QED BY <1>1, <2>2, <2>3 DEF A
<1>2. CASE cl.op = "read"
  <2>1. m = <<READ, cl.off, cl.size>>
    BY <1>2, <1>m
  <2>2. Len(m) = 3 /\ m[1] = READ /\ m[2] = cl.off /\ m[3] = cl.size
    BY <2>1
  <2>3. 1 \in 1 .. Len(m) /\ 2 \in 1 .. Len(m) /\ 3 \in 1 .. Len(m)
    BY <2>2
  <2>4. b[1] = READ /\ b[2] = cl.off /\ b[3] = cl.size
    BY <2>2, <2>3 DEF Begins
  <2>5. cl.size \in Nat
    BY <1>2 DEF CallOK
  <2>6. CASE Valid(cl.off, cl.size)
    <3> DEFINE e(i) == IF cl.off + i <= NbUnits THEN disk[cl.off + i] ELSE 0
               S == {e(i) : i \in 1 .. cl.size}
               f == [i \in 1 .. cl.size |-> e(i)]
    <3>1. A = f /\ f = Stored(cl.off, cl.size)
      BY <2>4, <2>6 DEF Answer, Stored
    <3>2. f \in [1 .. cl.size -> S]
      OBVIOUS
    <3>3. IsSeq(f) /\ Len(f) = cl.size
      <4> HIDE DEF f, S
      <4> QED BY <3>2, <2>5, FunIs
    <3>4. IsSeq(A) /\ Len(A) = cl.size
      BY <3>1, <3>3
    <3> QED BY <1>2, <2>6, <3>1, <3>4
  <2>7. CASE ~ Valid(cl.off, cl.size)
    <3>1. A = <<MSG_NOAUTH>>
      BY <2>4, <2>7 DEF Answer
    <3> HIDE DEF A
    <3>2. IsSeq(A) /\ Len(A) = 1
      BY <3>1, Short
    <3> QED BY <1>2, <2>7, <3>2 DEF A
  <2> QED BY <2>6, <2>7
<1>3. CASE cl.op = "write"
  <2>1. b[1] = WRITE
    BY <1>3, <1>m, <1>o
  <2>2. A = <<MSG_OK>> \/ A = <<MSG_NOAUTH>>
    BY <2>1 DEF Answer
  <2> HIDE DEF A
  <2>3. IsSeq(A) /\ Len(A) = 1
    BY <2>2, Short
  <2> QED BY <1>3, <2>3 DEF A
<1> QED BY <1>c, <1>1, <1>2, <1>3

-----------------------------------------------------------------------------
(***************************************************************************)
(* The steps of a stream that is in step.                                  *)
(***************************************************************************)
LEMMA MessageLen == ASSUME NEW b, MessageOK(b)
                    PROVE IsSeq(b) /\ Len(b) \in Nat /\ Len(b) >= 1 /\ Len(b) <= MaxLen /\ b # <<>>
<1>1. IsSeq(b) /\ Len(b) \in 1 .. MaxLen
  BY DEF MessageOK
<1>2. MaxLen \in Nat
  BY Constants
<1> QED BY <1>1, <1>2, SeqFun, EmptyIs

\* A message under way makes the stream to the server non-empty.
LEMMA FlowHeader ==
    ASSUME NEW a, NEW s, NEW u, NEW w, NEW sh, Flow(a, s, u, w, "header", sh), u # <<>>
    PROVE /\ Head(u) \in Nat /\ Head(u) > 0 /\ Head(u) <= MaxLen
          /\ Flow(a, s, Tail(u), Head(u), "body", sh)
<1> DEFINE b == a[Len(a)]
<1>1. Len(a) \in Nat /\ Len(s) \in Nat
  BY SeqFun DEF Flow
<1>2. Len(a) = Len(s) + 1
  BY <1>1 DEF Flow
<1>3. MessageOK(b) /\ u = <<Len(b)>> \o b
  BY <1>2 DEF Flow
<1> HIDE DEF b
<1>4. Head(u) = Len(b) /\ Tail(u) = b
  BY <1>3, MessageLen, HeaderFirst
<1>5. Len(b) \in Nat /\ Len(b) > 0 /\ Len(b) <= MaxLen
  BY <1>3, MessageLen
<1>6. Flow(a, s, b, Len(b), "body", sh)
  BY <1>1, <1>2, <1>3 DEF Flow, b
<1> QED BY <1>4, <1>5, <1>6

LEMMA FlowClose ==
    ASSUME NEW a, NEW s, NEW w, NEW sh, Flow(a, s, <<>>, w, "header", sh), sh
    PROVE Flow(a, s, <<>>, w, "closed", sh)
<1> DEFINE b == a[Len(a)]
<1>1. Len(a) \in Nat /\ Len(s) \in Nat
  BY SeqFun DEF Flow
<1>2. Len(a) # Len(s) + 1
  <2> SUFFICES ASSUME Len(a) = Len(s) + 1 PROVE FALSE
    OBVIOUS
  <2>1. MessageOK(b) /\ <<>> = <<Len(b)>> \o b
    BY DEF Flow
  <2> HIDE DEF b
  <2> QED BY <2>1, MessageLen, HeaderFirst
<1> QED BY <1>1, <1>2 DEF Flow

LEMMA FlowBody ==
    ASSUME NEW a, NEW s, NEW u, NEW w, NEW sh, Flow(a, s, u, w, "body", sh)
    PROVE /\ Len(a) \in Nat /\ Len(s) \in Nat /\ Len(a) = Len(s) + 1
          /\ a[Len(a)] = u /\ w = Len(u) /\ MessageOK(u)
<1>1. Len(a) \in Nat /\ Len(s) \in Nat
  BY SeqFun DEF Flow
<1>2. Len(a) = Len(s) + 1
  BY <1>1 DEF Flow
<1> QED BY <1>1, <1>2 DEF Flow

LEMMA FlowServed ==
    ASSUME NEW a, NEW s, NEW u, NEW w, NEW sh, Flow(a, s, u, w, "body", sh), NEW x, x.body = u
    PROVE Flow(a, Append(s, x), <<>>, w, "header", sh)
<1>1. Len(a) \in Nat /\ Len(s) \in Nat /\ Len(a) = Len(s) + 1 /\ a[Len(a)] = u
  BY FlowBody
<1>2. IsSeq(a) /\ IsSeq(s) /\ \A i \in 1 .. Len(s) : s[i].body = a[i]
  BY DEF Flow
<1> DEFINE t == Append(s, x)
<1>3. IsSeq(t) /\ Len(t) = Len(s) + 1 /\ (\A i \in 1 .. Len(s) : t[i] = s[i]) /\ t[Len(s) + 1] = x
  BY <1>2, AppendIs
<1> HIDE DEF t
<1>4. \A i \in 1 .. Len(t) : t[i].body = a[i]
  BY <1>1, <1>2, <1>3
<1>5. Len(a) = Len(t)
  BY <1>1, <1>3
<1>6. Flow(a, t, <<>>, w, "header", sh)
  BY <1>1, <1>2, <1>3, <1>4, <1>5 DEF Flow
<1> QED BY <1>6 DEF t

LEMMA FlowSend ==
    ASSUME NEW a, NEW s, NEW u, NEW w, NEW r, NEW sh, Flow(a, s, u, w, r, sh),
           Len(a) = Len(s), r \in {"header", "body"}, NEW b, MessageOK(b), NEW sh2
    PROVE Flow(Append(a, b), s, u \o <<Len(b)>> \o b, w, r, sh2)
<1>1. Len(a) \in Nat /\ Len(s) \in Nat /\ IsSeq(a) /\ IsSeq(s) /\ \A i \in 1 .. Len(s) : s[i].body = a[i]
  BY SeqFun DEF Flow
<1>2. u = <<>> /\ r = "header"
  BY DEF Flow
<1> DEFINE t == Append(a, b)
<1>3. IsSeq(t) /\ Len(t) = Len(a) + 1 /\ (\A i \in 1 .. Len(a) : t[i] = a[i]) /\ t[Len(a) + 1] = b
  BY <1>1, AppendIs
<1>4. u \o <<Len(b)>> \o b = <<Len(b)>> \o b
  BY <1>2, ConcatEmpty, Short
<1> HIDE DEF t
<1>5. t[Len(t)] = b /\ Len(t) = Len(s) + 1
  BY <1>3
<1>6. \A i \in 1 .. Len(s) : s[i].body = t[i]
  BY <1>1, <1>3
<1>7. Flow(t, s, <<Len(b)>> \o b, w, r, sh2)
  BY <1>1, <1>2, <1>3, <1>5, <1>6 DEF Flow
<1> QED BY <1>4, <1>7 DEF t

LEMMA FlowShut ==
    ASSUME NEW a, NEW s, NEW u, NEW w, NEW r, NEW sh, Flow(a, s, u, w, r, sh)
    PROVE Flow(a, s, u, w, r, TRUE)
BY DEF Flow

-----------------------------------------------------------------------------
(***************************************************************************)
(* What a step leaves alone.                                               *)
(***************************************************************************)
CutsStay == \A c \in Conns : ~ cut'[c] => ~ cut[c]

\* Where the connection of a client lies.
LEMMA ConnIn == ASSUME Typed, NEW p \in Clients
                PROVE /\ conn[p] \in 0 .. nconn /\ nconn \in Nat /\ nconn <= MaxConns /\ MaxConns \in Nat
                      /\ conn[p] # 0 => conn[p] \in Conns /\ conn[p] <= nconn
                      /\ last[p].conn # 0 => last[p].conn \in Conns
<1>1. MaxConns \in Nat
  BY Constants
<1>2. nconn \in 0 .. MaxConns /\ conn[p] \in 0 .. nconn /\ last[p].conn \in 0 .. nconn
  BY DEF Typed
<1> QED BY <1>1, <1>2 DEF Conns

\* The outcome l of a read, and the requests s that its connection processed.
Outcome(l, s) ==
    /\ \E i \in 1 .. Len(s) :
         /\ s[i].body = <<READ, l.call.off, l.call.size>>
         /\ s[i].out = SubSeq(l.buf, 1, Len(s[i].out))
    /\ l.ret = 0 <=> l.call.size > 1 /\ Valid(l.call.off, l.call.size)

ReadOn(l) == l.call # Nil /\ l.conn # 0 /\ l.call.op = "read"

LEMMA OwnDataIs ==
    /\ OwnData <=> \A p \in Clients : ReadOn(last[p]) /\ ~ cut[last[p].conn] =>
                                       Outcome(last[p], served[last[p].conn])
    /\ OwnData' <=> \A p \in Clients : ReadOn(last'[p]) /\ ~ cut'[last'[p].conn] =>
                                       Outcome(last'[p], served'[last'[p].conn])
<1>1. OwnData <=> \A p \in Clients : ReadOn(last[p]) /\ ~ cut[last[p].conn] =>
                                       Outcome(last[p], served[last[p].conn])
  BY DEF OwnData, ReadOn, Outcome
<1>2. OwnData' <=> \A p \in Clients : ReadOn(last'[p]) /\ ~ cut'[last'[p].conn] =>
                                       Outcome(last'[p], served'[last'[p].conn])
  BY DEF OwnData, ReadOn, Outcome
<1> QED BY <1>1, <1>2

\* The outcomes of the calls, when nothing more is processed.
LEMMA OwnKeeps ==
    ASSUME Typed, TestersOK, OwnData, OwnPage, CutsStay, last' = last, served' = served
    PROVE OwnData' /\ OwnPage'
<1>1. OwnData'
  BY ConnIn DEF OwnData, CutsStay
<1>2. OwnPage'
  <2> SUFFICES ASSUME NEW p \in Testers, last[p].call # Nil, last[p].call.op = "read",
                      ~ cut'[last[p].conn], Valid(last[p].call.off, Page),
                      served[last[p].conn][Len(served[last[p].conn])].body[1] = READ,
                      served[last[p].conn][Len(served[last[p].conn])].from = {last[p].conn}
               PROVE last[p].buf = last[p].call.val
    BY DEF OwnPage
  <2>1. last[p].conn \in Conns
    <3>1. p \in Clients
      BY Constants
    <3>2. last[p].conn # 0
      BY DEF TestersOK, TesterOK
    <3> QED BY <3>1, <3>2, ConnIn
  <2>2. ~ cut[last[p].conn]
    BY <2>1 DEF CutsStay
  <2> QED BY <2>2 DEF OwnPage
<1> QED BY <1>1, <1>2

\* The clients do not move.
LEMMA ClientsKeep ==
    ASSUME IInv, CutsStay, UNCHANGED <<pc, call, conn, last, page, capacity, ksocks, nconn, fails>>
    PROVE /\ OneOwner' /\ Busy' /\ TestersOK'
          /\ DriverOK' /\ DriverPlace' /\ DriverWithinStore' /\ SocketsReleased'
<1>1. OneOwner'
  BY DEF IInv, OneOwner
<1>2. Busy'
  BY DEF IInv, Busy
<1>3. TestersOK'
  BY DEF IInv, TestersOK
<1>4. NoCut' => NoCut
  BY DEF CutsStay, NoCut
<1>5. DriverOK'
  BY <1>4 DEF IInv, DriverOK
<1>6. DriverPlace'
  BY DEF IInv, DriverPlace
<1>7. DriverWithinStore'
  BY <1>4 DEF IInv, DriverWithinStore, NoCut
<1>8. SocketsReleased'
  BY DEF IInv, SocketsReleased
<1> QED BY <1>1, <1>2, <1>3, <1>5, <1>6, <1>7, <1>8

\* Nothing but the server's life, or the driver's capacity, changes.
LEMMA AllKeep ==
    ASSUME IInv, capacity' \in {capacity, -1},
           UNCHANGED <<disk, old, srv, want, served, writer, streams, shut, pc, call, last, page, conn,
                       ksocks, nconn, fails, asked>>
    PROVE IInv'
<1> USE DEF streams
<1>1. Typed' /\ Fresh' /\ OneOwner'
  BY DEF IInv, Typed, Fresh, OneOwner
<1>2. Flows' /\ Talks'
  BY DEF IInv, Flows, Talks
<1>3. Busy' /\ TestersOK' /\ PagesOK' /\ DriverOK' /\ DriverPlace'
  BY DEF IInv, Busy, TestersOK, PagesOK, DriverOK, DriverPlace, NoCut
<1>4. OwnData' /\ OwnPage'
  BY DEF IInv, OwnData, OwnPage
<1>5. DriverWithinStore' /\ SocketsReleased'
  BY DEF IInv, DriverWithinStore, SocketsReleased
<1> QED BY <1>1, <1>2, <1>3, <1>4, <1>5 DEF IInv

-----------------------------------------------------------------------------
(***************************************************************************)
(* The server's steps.                                                     *)
(***************************************************************************)
\* A step of the thread of c, as the other connections see it.
Apart(c) ==
    \A d \in Conns \ {c} :
      /\ srv'[d] = srv[d] /\ want'[d] = want[d] /\ cut'[d] = cut[d] /\ shut'[d] = shut[d]
      /\ up'[d] = up[d] /\ down'[d] = down[d] /\ asked'[d] = asked[d] /\ served'[d] = served[d]

FlowAt(c) == Flow(asked[c], served[c], up[c], want[c], srv[c], shut[c])

TalkAt(p, c) == Talk(p, pc[p], call[p], c, asked[c], served[c], down[c], srv[c], shut[c])

LEMMA ServerKeeps ==
    ASSUME IInv, NEW c \in Conns, srv[c] \in {"header", "body"}, Apart(c),
           UNCHANGED <<pc, call, conn, nconn>>,
           srv'[c] \in {"header", "body", "closed"},
           ~ cut'[c] => Flow(asked'[c], served'[c], up'[c], want'[c], srv'[c], shut'[c]),
           \A p \in Clients : conn[p] = c /\ ~ cut'[c] =>
             Talk(p, pc[p], call[p], c, asked'[c], served'[c], down'[c], srv'[c], shut'[c])
    PROVE Fresh' /\ Flows' /\ Talks'
<1>1. Fresh'
  <2> SUFFICES ASSUME NEW d \in Conns
               PROVE IF d <= nconn THEN srv'[d] \in {"header", "body", "closed"}
                     ELSE /\ srv'[d] = "none" /\ ~ shut'[d] /\ ~ cut'[d]
                          /\ up'[d] = <<>> /\ down'[d] = <<>> /\ asked'[d] = <<>> /\ served'[d] = <<>>
    BY DEF Fresh
  <2>1. CASE d = c
    BY <2>1 DEF IInv, Fresh
  <2>2. CASE d # c
    BY <2>2 DEF IInv, Fresh, Apart
  <2> QED BY <2>1, <2>2
<1>2. Flows'
  <2> SUFFICES ASSUME NEW d \in Conns, ~ cut'[d]
               PROVE Flow(asked'[d], served'[d], up'[d], want'[d], srv'[d], shut'[d])
    BY DEF Flows
  <2>1. CASE d = c
    BY <2>1
  <2>2. CASE d # c
    BY <2>2 DEF IInv, Flows, Apart
  <2> QED BY <2>1, <2>2
<1>3. Talks'
  <2> SUFFICES ASSUME NEW p \in Clients, NEW d, d = conn[p], d # 0, ~ cut'[d]
               PROVE Talk(p, pc[p], call[p], d, asked'[d], served'[d], down'[d], srv'[d], shut'[d])
    BY DEF Talks
  <2>1. CASE d = c
    BY <2>1
  <2>2. CASE d # c
    <3>1. d \in Conns
      BY ConnIn DEF IInv
    <3>2. ~ cut[d]
      BY <3>1, <2>2 DEF Apart
    <3>3. Talk(p, pc[p], call[p], d, asked[d], served[d], down[d], srv[d], shut[d])
      BY <3>2 DEF IInv, Talks
    <3> QED BY <3>1, <3>3, <2>2 DEF Apart
  <2> QED BY <2>1, <2>2
<1> QED BY <1>1, <1>2, <1>3

\* readData finds the length of the message under way, or the end of the stream.
LEMMA HeaderStep == ASSUME IInv, NEW c \in Conns, ReadHeader(c) PROVE IInv'
<1>t. Typed
  BY DEF IInv
<1>a. /\ UNCHANGED <<disk, served, writer, down, shut, pc, call, last, page, capacity, conn, ksocks, nconn,
                     fails, asked>>
      /\ srv[c] = "header"
  BY DEF ReadHeader, client
<1>b. \/ /\ up[c] # <<>> /\ cut' = cut
         /\ want' = [want EXCEPT ![c] = Head(up[c])]
         /\ up' = [up EXCEPT ![c] = Tail(up[c])]
         /\ srv' = [srv EXCEPT ![c] = IF Head(up[c]) > MaxLen THEN "closed"
                                      ELSE IF Head(up[c]) > 0 THEN "body" ELSE "header"]
      \/ cut' = [cut EXCEPT ![c] = TRUE] /\ srv' = [srv EXCEPT ![c] = "closed"] /\ UNCHANGED <<up, want>>
      \/ up[c] = <<>> /\ shut[c] /\ srv' = [srv EXCEPT ![c] = "closed"] /\ UNCHANGED <<up, want, cut>>
  BY DEF ReadHeader, CloseConn
<1>c. /\ DOMAIN srv = Conns /\ DOMAIN want = Conns /\ DOMAIN up = Conns
      /\ cut \in [Conns -> BOOLEAN]
  BY <1>t DEF Typed
<1>d. Apart(c)
  BY <1>a, <1>b, <1>c DEF Apart
<1>e. CutsStay
  BY <1>b, <1>c DEF CutsStay
<1>f. Typed'
  <2>1. /\ DOMAIN srv' = Conns /\ DOMAIN want' = Conns /\ DOMAIN up' = Conns
        /\ cut' \in [Conns -> BOOLEAN]
    BY <1>b, <1>c
  <2> QED BY <1>a, <1>t, <2>1 DEF Typed
<1>g. srv'[c] \in {"header", "body", "closed"}
  BY <1>b, <1>c
<1>h. ~ cut[c] => FlowAt(c)
  BY DEF IInv, Flows, FlowAt
<1>1. ASSUME ~ cut'[c]
      PROVE /\ Flow(asked'[c], served'[c], up'[c], want'[c], srv'[c], shut'[c])
            /\ srv'[c] = "body" \/ shut[c]
  <2>1. ~ cut[c]
    BY <1>1, <1>e DEF CutsStay
  <2>2. Flow(asked[c], served[c], up[c], want[c], "header", shut[c])
    BY <2>1, <1>a, <1>h DEF FlowAt
  <2>3. CASE /\ up[c] # <<>> /\ cut' = cut
             /\ want' = [want EXCEPT ![c] = Head(up[c])]
             /\ up' = [up EXCEPT ![c] = Tail(up[c])]
             /\ srv' = [srv EXCEPT ![c] = IF Head(up[c]) > MaxLen THEN "closed"
                                          ELSE IF Head(up[c]) > 0 THEN "body" ELSE "header"]
    <3>1. /\ Head(up[c]) \in Nat /\ Head(up[c]) > 0 /\ Head(up[c]) <= MaxLen
          /\ Flow(asked[c], served[c], Tail(up[c]), Head(up[c]), "body", shut[c])
      BY <2>2, <2>3, FlowHeader
    <3>2. ~ (Head(up[c]) > MaxLen)
      BY <3>1, Constants
    <3>3. srv'[c] = "body" /\ want'[c] = Head(up[c]) /\ up'[c] = Tail(up[c])
      BY <3>1, <3>2, <2>3, <1>c
    <3> QED BY <3>1, <3>3, <1>a
  <2>4. CASE cut' = [cut EXCEPT ![c] = TRUE]
    BY <2>4, <1>1, <1>c
  <2>5. CASE up[c] = <<>> /\ shut[c] /\ srv' = [srv EXCEPT ![c] = "closed"] /\ UNCHANGED <<up, want, cut>>
    <3>1. Flow(asked[c], served[c], <<>>, want[c], "closed", shut[c])
      BY <2>2, <2>5, FlowClose
    <3>2. srv'[c] = "closed"
      BY <2>5, <1>c
    <3> QED BY <3>1, <3>2, <2>5, <1>a
  <2> QED BY <2>3, <2>4, <2>5, <1>b
<1>2. ASSUME NEW p \in Clients, conn[p] = c, ~ cut'[c]
      PROVE Talk(p, pc[p], call[p], c, asked'[c], served'[c], down'[c], srv'[c], shut'[c])
  <2>1. ~ cut[c] /\ c # 0
    BY <1>2, <1>e, Constants DEF CutsStay
  <2>2. Talk(p, pc[p], call[p], c, asked[c], served[c], down[c], srv[c], shut[c])
    BY <2>1, <1>2 DEF IInv, Talks
  <2>3. ~ shut[c]
    BY <2>2 DEF Talk
  <2>4. srv'[c] = "body"
    BY <2>3, <1>1, <1>2
  <2> QED BY <2>2, <2>4, <1>a DEF Talk
<1>3. Fresh' /\ Flows' /\ Talks'
  BY <1>1, <1>2, <1>a, <1>d, <1>g, ServerKeeps
<1>4. PagesOK'
  <2> SUFFICES ASSUME NEW p \in Testers, conn[p] # 0, ~ cut'[conn[p]]
               PROVE \A u \in 1 .. NbUnits : writer[u] = conn[p] => Tested(u, disk[u])
    BY <1>a DEF PagesOK
  <2>1. conn[p] \in Conns
    BY <1>t, ConnIn, Constants
  <2> QED BY <2>1, <1>e DEF CutsStay, IInv, PagesOK
<1>5. OwnData' /\ OwnPage'
  BY <1>a, <1>e, <1>t, OwnKeeps DEF IInv
<1>6. OneOwner' /\ Busy' /\ TestersOK' /\ DriverOK' /\ DriverPlace' /\ DriverWithinStore' /\ SocketsReleased'
  BY <1>a, <1>e, ClientsKeep
<1> QED BY <1>f, <1>3, <1>4, <1>5, <1>6 DEF IInv

\* The server's process ends: every connection it had open is cut.
LEMMA GoneStep ==
    ASSUME IInv, Gone, cut' = [c \in Conns |-> cut[c] \/ srv[c] \in {"header", "body"}],
           UNCHANGED <<want, shut, pc, client, conn, ksocks, nconn, fails, asked>>
    PROVE IInv'
<1>t. Typed
  BY DEF IInv
<1>a. UNCHANGED <<want, shut, pc, call, last, page, capacity, conn, ksocks, nconn, fails, asked, served>>
  BY DEF client, Gone
<1>b. /\ srv' = [c \in Conns |-> IF srv[c] = "none" THEN "none" ELSE "closed"]
      /\ up' = [c \in Conns |-> <<>>]
      /\ down' \in {down, [c \in Conns |-> <<>>]}
      /\ writer' = Rep(0, NbUnits)
  BY DEF Gone
<1>c. cut \in [Conns -> BOOLEAN]
  BY <1>t DEF Typed
<1>e. CutsStay
  BY <1>c DEF CutsStay
<1>f. Typed'
  <2>1. writer' \in [1 .. NbUnits -> 0 .. nconn]
    <3>1. 0 \in 0 .. nconn
      BY <1>t, Constants DEF Typed
    <3> QED BY <1>b, <3>1 DEF Rep
  <2>2. DOMAIN srv' = Conns /\ DOMAIN up' = Conns /\ DOMAIN down' = Conns
    BY <1>b, <1>t DEF Typed
  <2>3. cut' \in [Conns -> BOOLEAN]
    BY <1>c
  <2> QED BY <1>a, <1>t, <2>1, <2>2, <2>3 DEF Typed
<1>1. ASSUME NEW c \in Conns, ~ cut'[c]
      PROVE ~ cut[c] /\ srv[c] \in {"none", "closed"} /\ srv'[c] = srv[c] /\ up[c] = <<>> /\ up'[c] = <<>>
  <2>1. ~ cut[c] /\ srv[c] \notin {"header", "body"}
    BY <1>1, <1>c
  <2>2. srv[c] \in {"none", "closed"}
    BY <2>1 DEF IInv, Fresh
  <2>3. FlowAt(c)
    BY <2>1 DEF IInv, Flows, FlowAt
  <2>4. Len(asked[c]) \in Nat /\ Len(served[c]) \in Nat
    BY <2>3, SeqFun DEF FlowAt, Flow
  <2>5. up[c] = <<>>
    BY <2>2, <2>3, <2>4 DEF FlowAt, Flow
  <2> QED BY <2>1, <2>2, <2>5, <1>b
<1>2. Fresh'
  <2> SUFFICES ASSUME NEW d \in Conns
               PROVE IF d <= nconn THEN srv'[d] \in {"header", "body", "closed"}
                     ELSE /\ srv'[d] = "none" /\ ~ shut[d] /\ ~ cut'[d]
                          /\ up'[d] = <<>> /\ down'[d] = <<>> /\ asked[d] = <<>> /\ served[d] = <<>>
    BY <1>a DEF Fresh
  <2>1. CASE d <= nconn
    BY <2>1, <1>b DEF IInv, Fresh
  <2>2. CASE ~ (d <= nconn)
    <3>1. /\ srv[d] = "none" /\ ~ shut[d] /\ ~ cut[d]
          /\ up[d] = <<>> /\ down[d] = <<>> /\ asked[d] = <<>> /\ served[d] = <<>>
      BY <2>2 DEF IInv, Fresh
    <3>2. ~ cut'[d]
      BY <3>1
    <3>3. down'[d] = <<>>
      BY <3>1, <1>b
    <3> QED BY <2>2, <3>1, <3>2, <3>3, <1>b
  <2> QED BY <2>1, <2>2
<1>3. Flows'
  <2> SUFFICES ASSUME NEW d \in Conns, ~ cut'[d]
               PROVE Flow(asked[d], served[d], up'[d], want[d], srv'[d], shut[d])
    BY <1>a DEF Flows
  <2>1. ~ cut[d] /\ srv'[d] = srv[d] /\ up[d] = up'[d]
    BY <1>1
  <2> QED BY <2>1 DEF IInv, Flows
<1>4. ASSUME NEW p \in Clients, conn[p] # 0 PROVE cut'[conn[p]]
  <2>1. conn[p] \in Conns
    BY <1>4, <1>t, ConnIn
  <2> SUFFICES ASSUME ~ cut'[conn[p]] PROVE FALSE
    OBVIOUS
  <2>2. ~ cut[conn[p]] /\ srv[conn[p]] \in {"none", "closed"}
    BY <2>1, <1>1
  <2>3. TalkAt(p, conn[p])
    BY <2>2, <1>4 DEF IInv, Talks, TalkAt
  <2> QED BY <2>2, <2>3 DEF TalkAt, Talk
<1>5. Talks' /\ PagesOK'
  <2>1. Talks'
    BY <1>4, <1>a DEF Talks
  <2>2. PagesOK'
    BY <1>4, <1>a, Constants DEF PagesOK
  <2> QED BY <2>1, <2>2
<1>6. OwnData' /\ OwnPage'
  BY <1>a, <1>e, <1>t, OwnKeeps DEF IInv
<1>7. OneOwner' /\ Busy' /\ TestersOK' /\ DriverOK' /\ DriverPlace' /\ DriverWithinStore' /\ SocketsReleased'
  BY <1>a, <1>e, ClientsKeep
<1> QED BY <1>f, <1>2, <1>3, <1>5, <1>6, <1>7 DEF IInv

-----------------------------------------------------------------------------
\* A unit lies on one page only.
LEMMA OnePage ==
    ASSUME NEW j \in Nat, NEW k \in Nat, NEW u \in Int,
           j * Page < u, u <= j * Page + Page, k * Page < u, u <= k * Page + Page
    PROVE j = k
<1>p. Page \in Nat
  BY Constants
<1>1. ASSUME NEW a \in Nat, NEW b \in Nat, a < b PROVE a * Page + Page <= b * Page
  <2> DEFINE d == b - a - 1
  <2>1. d \in Nat /\ b = a + 1 + d
    BY <1>1
  <2> HIDE DEF d
  <2>2. d * Page \in Nat
    BY <2>1, <1>p
  <2>3. b * Page = a * Page + Page + d * Page
    BY <2>1, <1>p
  <2>4. a * Page \in Nat /\ b * Page \in Nat
    BY <1>p
  <2> QED BY <2>2, <2>3, <2>4, <1>p
<1>2. j * Page \in Nat /\ k * Page \in Nat
  BY <1>p
<1>3. CASE j < k
  BY <1>1, <1>2, <1>3, <1>p
<1>4. CASE k < j
  BY <1>1, <1>2, <1>4, <1>p
<1> QED BY <1>3, <1>4

\* The pages of threadTest end below Word, so the server's check of a range does
\* not wrap around for them.
LEMMA PageEnd ==
    ASSUME NEW i \in Nat, i < Pages
    PROVE /\ i * Page \in Nat
          /\ Valid(i * Page, Page) => i * Page + Page <= NbUnits
<1>k. Page \in Nat /\ Pages \in Nat /\ Word \in Nat \ {0} /\ NbUnits \in Nat
  BY Constants
<1>1. Pages * Page < Word
  BY DiskAssumption
<1>2. i * Page \in Nat
  BY <1>k
<1>3. i * Page + Page <= Pages * Page
  <2> DEFINE d == Pages - i - 1
  <2>1. d \in Nat /\ Pages = i + 1 + d
    BY <1>k
  <2> HIDE DEF d
  <2>2. d * Page \in Nat
    BY <2>1, <1>k
  <2>3. Pages * Page = i * Page + Page + d * Page
    BY <2>1, <1>k
  <2> QED BY <2>2, <2>3, <1>2, <1>k
<1>4. i * Page + Page \in Nat /\ i * Page + Page < Word
  <2>1. Pages * Page \in Nat
    BY <1>k
  <2> QED BY <1>1, <1>2, <1>3, <1>k, <2>1
<1>5. (i * Page + Page) % Word = i * Page + Page
  <2> DEFINE e == i * Page + Page
  <2>1. e \in Nat /\ e < Word
    BY <1>4
  <2> HIDE DEF e
  <2>2. e % Word = e
    BY <2>1, <1>k
  <2> QED BY <2>2 DEF e
<1> QED BY <1>2, <1>5 DEF Valid

\* A page that only the thread's own connection has written is read as the
\* pattern.
LEMMA ReadsBack ==
    ASSUME NEW c, NEW i \in Nat, i < Pages, Valid(i * Page, Page),
           {writer[u] : u \in Span(i * Page, Page)} = {c},
           \A u \in 1 .. NbUnits : writer[u] = c => Tested(u, disk[u])
    PROVE Stored(i * Page, Page) = Pattern(i)
<1>k. Page \in Nat /\ NbUnits \in Nat
  BY Constants
<1> DEFINE o == i * Page
<1>1. o \in Nat /\ o + Page <= NbUnits
  BY PageEnd
<1> HIDE DEF o
<1>2. ASSUME NEW t \in 1 .. Page
      PROVE (IF o + t <= NbUnits THEN disk[o + t] ELSE 0) = (i + t - 1) % 256
  <2>1. o + t \in 1 .. NbUnits /\ o < o + t /\ o + t <= o + Page /\ o + t \in Int
    BY <1>1, <1>k
  <2>2. o + t \in Span(o, Page)
    BY <2>1 DEF Span
  <2>3. writer[o + t] = c
    BY <2>2 DEF o
  <2> DEFINE u == o + t
  <2>4. Tested(u, disk[u]) /\ u \in Int
    BY <2>1, <2>3
  <2>5. o < u /\ u <= o + Page /\ u - o = t
    BY <2>1, <1>1
  <2> HIDE DEF u
  <2>6. PICK j \in Nat : j * Page < u /\ u <= j * Page + Page /\ disk[u] = Pattern(j)[u - j * Page]
    BY <2>4 DEF Tested
  <2>7. j = i
    <3>1. i * Page < u /\ u <= i * Page + Page
      BY <2>5 DEF o
    <3> QED BY <3>1, <2>4, <2>6, OnePage
  <2>8. disk[o + t] = Pattern(i)[t]
    <3>1. u - j * Page = t
      BY <2>5, <2>7 DEF o
    <3>2. disk[u] = Pattern(i)[t]
      BY <3>1, <2>6, <2>7
    <3> QED BY <3>2 DEF u
  <2>9. Pattern(i)[t] = (i + t - 1) % 256
    BY DEF Pattern
  <2> QED BY <2>1, <2>8, <2>9
<1>3. [t \in 1 .. Page |-> IF o + t <= NbUnits THEN disk[o + t] ELSE 0] = Pattern(i)
  BY <1>2 DEF Pattern
<1> QED BY <1>3 DEF o, Stored

\* The call under way on a tester's connection.
LEMMA TesterCall ==
    ASSUME IInv, NEW p \in Testers, pc[p] \in {"send", "recv"}
    PROVE /\ page[p] \in Nat /\ page[p] < Pages
          /\ call[p].op \in {"info", "read", "write"}
          /\ call[p].op = "read" => call[p] = TestRec("read", page[p])
          /\ call[p].op = "write" => call[p] = TestRec("write", page[p])
          /\ last[p].call # Nil /\ last[p].call.op = "read" => call[p].op = "write"
<1>1. TesterOK(p, pc[p], call[p], last[p], page[p], conn[p])
  BY DEF IInv, TestersOK
<1>2. page[p] \in Nat
  BY DEF IInv, Typed
<1>3. call[p] \in {Info, TestRec("write", page[p]), TestRec("read", page[p])}
      /\ page[p] < Pages
      /\ (last[p].call # Nil /\ last[p].call.op = "read" => call[p].op = "write")
  BY <1>1 DEF TesterOK
<1>4. Info.op = "info" /\ TestRec("write", page[p]).op = "write" /\ TestRec("read", page[p]).op = "read"
  BY DEF Info, TestRec
<1> QED BY <1>2, <1>3, <1>4

\* processRequest: a whole message is answered, and a piece of one cuts the
\* connection.
LEMMA ProcessStep ==
    ASSUME IInv, NEW c \in Conns, srv[c] = "body",
           NEW k \in (IF Min2(want[c], Len(up[c])) = 0 THEN {0} ELSE 1 .. Min2(want[c], Len(up[c]))),
           NEW junk \in Junks(want[c] - k), NEW more \in Junks(Max2(3 - want[c], 0)),
           NEW b, b = SubSeq(up[c], 1, k) \o junk \o more,
           Process(c, k, b, want[c]),
           cut' = [cut EXCEPT ![c] = cut[c] \/ k < want[c]],
           UNCHANGED <<want, shut, pc, client, conn, ksocks, nconn, fails, asked>>
    PROVE IInv'
<1> DEFINE n == want[c]
           x == [body |-> SubSeq(b, 1, n), out |-> Answer(b, n),
                 from |-> IF b[1] = READ THEN {writer[u] : u \in Span(b[2], b[3])} ELSE {}]
<1>t. Typed
  BY DEF IInv
<1>a. UNCHANGED <<want, shut, pc, call, last, page, capacity, conn, ksocks, nconn, fails, asked>>
  BY DEF client
<1>b. /\ disk' = [u \in 1 .. NbUnits |-> IF u \in Written(b, n) THEN Payload(b, u) ELSE disk[u]]
      /\ down' = [down EXCEPT ![c] = IF shut[c] THEN down[c] ELSE down[c] \o Answer(b, n)]
      /\ up' = [up EXCEPT ![c] = Rest(up[c], k)]
      /\ srv' = [srv EXCEPT ![c] = "header"]
      /\ served' = [served EXCEPT ![c] = Append(served[c], x)]
      /\ writer' = [u \in 1 .. NbUnits |-> IF u \in Written(b, n) THEN c ELSE writer[u]]
  BY DEF Process
<1>c. /\ DOMAIN srv = Conns /\ DOMAIN up = Conns /\ DOMAIN down = Conns /\ DOMAIN served = Conns
      /\ cut \in [Conns -> BOOLEAN] /\ writer \in [1 .. NbUnits -> 0 .. nconn]
  BY <1>t DEF Typed
<1>d. /\ down'[c] = (IF shut[c] THEN down[c] ELSE down[c] \o Answer(b, n)) /\ up'[c] = Rest(up[c], k)
      /\ srv'[c] = "header" /\ served'[c] = Append(served[c], x)
      /\ cut'[c] = (cut[c] \/ k < n)
  BY <1>b, <1>c
<1>x. x.body = SubSeq(b, 1, n) /\ x.out = Answer(b, n)
      /\ x.from = IF b[1] = READ THEN {writer[u] : u \in Span(b[2], b[3])} ELSE {}
  OBVIOUS
<1> HIDE DEF x
<1>e. Apart(c)
  BY <1>a, <1>b, <1>c DEF Apart
<1>f. CutsStay
  BY <1>c DEF CutsStay
<1>g. c \in Nat /\ c # 0 /\ c <= nconn /\ nconn \in Nat
  <2>1. c \in Nat /\ c # 0
    BY Constants
  <2>2. nconn \in Nat
    BY <1>t, Constants DEF Typed
  <2>3. c <= nconn
    BY DEF IInv, Fresh
  <2> QED BY <2>1, <2>2, <2>3
<1>h. Typed'
  <2>1. DOMAIN srv' = Conns /\ DOMAIN up' = Conns /\ DOMAIN down' = Conns /\ DOMAIN served' = Conns
    BY <1>b, <1>c
  <2>2. cut' \in [Conns -> BOOLEAN]
    BY <1>c
  <2>3. writer' \in [1 .. NbUnits -> 0 .. nconn]
    BY <1>b, <1>c, <1>g
  <2> QED BY <1>a, <1>t, <2>1, <2>2, <2>3 DEF Typed
\* A connection that is still in step: the message was whole.
<1> DEFINE m == up[c]
<1>1. ASSUME ~ cut'[c]
      PROVE /\ ~ cut[c] /\ MessageOK(m) /\ n = Len(m) /\ k = n
            /\ Len(asked[c]) \in Nat /\ Len(served[c]) \in Nat /\ Len(asked[c]) = Len(served[c]) + 1
            /\ asked[c][Len(asked[c])] = m
            /\ x.body = m /\ \A i \in 1 .. Len(m) : b[i] = m[i]
            /\ IsSeq(served[c])
            /\ Flow(asked[c], Append(served[c], x), <<>>, want[c], "header", shut[c])
            /\ up'[c] = <<>>
  <2>1. ~ cut[c] /\ ~ (k < n)
    BY <1>1, <1>d, <1>c
  <2>2. Flow(asked[c], served[c], m, n, "body", shut[c])
    BY <2>1 DEF IInv, Flows
  <2>3. /\ Len(asked[c]) \in Nat /\ Len(served[c]) \in Nat /\ Len(asked[c]) = Len(served[c]) + 1
        /\ asked[c][Len(asked[c])] = m /\ n = Len(m) /\ MessageOK(m)
    BY <2>2, FlowBody
  <2>4. Len(m) \in Nat /\ Len(m) >= 1 /\ IsSeq(m)
    BY <2>3, MessageLen
  <2>5. k = Len(m)
    <3>1. Min2(n, Len(m)) = Len(m)
      BY <2>3, <2>4 DEF Min2
    <3>2. k \in 1 .. Len(m)
      BY <3>1, <2>4
    <3> QED BY <3>2, <2>1, <2>3, <2>4
  <2>6. SubSeq(b, 1, Len(m)) = m /\ \A i \in 1 .. Len(m) : b[i] = m[i]
    <3>1. junk \in Junks(Len(m) - Len(m)) /\ more \in Junks(Max2(3 - Len(m), 0))
      BY <2>3, <2>5
    <3>2. b = SubSeq(m, 1, Len(m)) \o junk \o more
      BY <2>5
    <3>3. MessageOK(m)
      BY <2>3
    <3> HIDE DEF m
    <3> QED BY <3>1, <3>2, <3>3, WholeBuffer
  <2>7. x.body = m
    BY <2>3, <2>6, <1>x
  <2>8. Flow(asked[c], Append(served[c], x), <<>>, n, "header", shut[c])
    BY <2>2, <2>7, FlowServed
  <2>9. up'[c] = <<>>
    BY <2>4, <2>5, <1>d, WholeIs DEF Rest
  <2>10. IsSeq(served[c])
    BY <2>2 DEF Flow
  <2> QED BY <2>1, <2>3, <2>5, <2>6, <2>7, <2>8, <2>9, <2>10
<1> HIDE DEF m, n
\* Its client is waiting for the answer to this message.
<1>2. ASSUME NEW p \in Clients, conn[p] = c, ~ cut'[c]
      PROVE /\ pc[p] = "recv" /\ m \in Bodies(p, call[p]) /\ CallOK(p, call[p])
            /\ down[c] = <<>> /\ ~ shut[c]
  <2>1. TalkAt(p, c)
    BY <1>1, <1>2, <1>g DEF IInv, Talks, TalkAt
  <2>2. pc[p] = "recv"
    BY <1>1, <1>2, <2>1 DEF TalkAt, Talk
  <2>3. m \in Bodies(p, call[p]) /\ down[c] = <<>> /\ ~ shut[c]
    BY <1>1, <1>2, <2>1, <2>2 DEF TalkAt, Talk
  <2>4. CallOK(p, call[p])
    BY <2>2 DEF IInv, Busy
  <2> QED BY <2>2, <2>3, <2>4
<1>3. ASSUME NEW p \in Clients, conn[p] = c, ~ cut'[c]
      PROVE AnswerOK(p, call[p], c, x) /\ down'[c] = x.out
  <2> DEFINE cl == call[p]
  <2>1. pc[p] = "recv" /\ m \in Bodies(p, cl) /\ CallOK(p, cl) /\ down[c] = <<>> /\ ~ shut[c]
    BY <1>2, <1>3
  <2>2. n = Len(m) /\ \A i \in 1 .. Len(m) : b[i] = m[i]
    BY <1>1, <1>3
  <2> HIDE DEF cl
  <2>3. /\ IsSeq(Answer(b, Len(m)))
        /\ cl.op = "info" => Answer(b, Len(m)) = <<NbSectors, 0>>
        /\ cl.op = "read" => Len(Answer(b, Len(m))) = IF Valid(cl.off, cl.size) THEN cl.size ELSE 1
        /\ cl.op = "read" /\ Valid(cl.off, cl.size) =>
             Answer(b, Len(m)) = Stored(cl.off, cl.size)
        /\ cl.op = "write" => Len(Answer(b, Len(m))) = 1
    <3>1. m \in Bodies(p, cl) /\ CallOK(p, cl)
      BY <2>1
    <3>2. Begins(b, m)
      BY <2>2 DEF Begins
    <3> QED BY <3>1, <3>2, AnswerLen
  <2>4. x.out = Answer(b, Len(m))
    BY <1>x, <2>2
  <2>5. down'[c] = x.out
    BY <1>d, <2>1, <2>2, <2>3, <2>4, ConcatEmpty
  <2>6. ASSUME p \in Testers, cl.op = "read", Valid(cl.off, Page), x.from = {c}
        PROVE x.out = cl.val
    <3> DEFINE i == page[p]
    <3>1. i \in Nat /\ i < Pages /\ cl = TestRec("read", i)
      BY <2>1, <2>6, TesterCall DEF cl
    <3> HIDE DEF i
    <3>2. cl.off = i * Page /\ cl.size = Page /\ cl.val = Pattern(i)
      BY <3>1 DEF TestRec
    <3>3. b[1] = READ /\ b[2] = cl.off /\ b[3] = cl.size
      <4>1. m = <<READ, cl.off, cl.size>>
        BY <2>1, <2>6, BodyOK
      <4>2. Len(m) = 3 /\ m[1] = READ /\ m[2] = cl.off /\ m[3] = cl.size
        BY <4>1
      <4>3. 1 \in 1 .. Len(m) /\ 2 \in 1 .. Len(m) /\ 3 \in 1 .. Len(m)
        BY <4>2
      <4> QED BY <4>2, <4>3, <2>2
    <3>4. {writer[u] : u \in Span(i * Page, Page)} = {c}
      BY <3>2, <3>3, <2>6, <1>x
    <3>5. \A u \in 1 .. NbUnits : writer[u] = c => Tested(u, disk[u])
      BY <1>1, <1>3, <1>g, <2>6 DEF IInv, PagesOK
    <3>6. Stored(i * Page, Page) = Pattern(i)
      <4>1. i \in Nat /\ i < Pages /\ Valid(i * Page, Page)
        BY <3>1, <3>2, <2>6
      <4> QED BY <4>1, <3>4, <3>5, ReadsBack
    <3>7. Answer(b, Len(m)) = Stored(i * Page, Page)
      BY <3>2, <2>3, <2>6
    <3> QED BY <3>2, <3>6, <3>7, <2>4
  <2>7. AnswerOK(p, cl, c, x)
    BY <2>3, <2>4, <2>6 DEF AnswerOK
  <2> QED BY <2>5, <2>7 DEF cl
<1>4. ASSUME NEW p \in Clients, conn[p] = c, ~ cut'[c]
      PROVE Talk(p, pc[p], call[p], c, asked'[c], served'[c], down'[c], srv'[c], shut'[c])
  <2> DEFINE s == Append(served[c], x)
  <2>1. IsSeq(served[c]) /\ Len(asked[c]) \in Nat /\ Len(served[c]) \in Nat /\ Len(asked[c]) = Len(served[c]) + 1
        /\ asked[c][Len(asked[c])] = m
    BY <1>1, <1>4
  <2>2. Len(s) = Len(served[c]) + 1 /\ s[Len(served[c]) + 1] = x
    BY <2>1, AppendIs
  <2>3. s = served'[c] /\ srv'[c] = "header" /\ asked'[c] = asked[c] /\ shut'[c] = shut[c]
    BY <1>a, <1>d
  <2> HIDE DEF s
  <2>4. s[Len(s)] = x /\ Len(s) = Len(asked[c]) /\ Len(s) > 0 /\ Len(s) # Len(s) + 1
    BY <2>1, <2>2
  <2>5. pc[p] = "recv" /\ m \in Bodies(p, call[p]) /\ ~ shut[c]
    BY <1>2, <1>4
  <2>6. AnswerOK(p, call[p], c, x) /\ down'[c] = x.out
    BY <1>3, <1>4
  <2>7. Talk(p, pc[p], call[p], c, asked[c], s, down'[c], "header", shut[c])
    BY <2>1, <2>4, <2>5, <2>6 DEF Talk
  <2> QED BY <2>3, <2>7
<1>5. Fresh' /\ Flows' /\ Talks'
  <2>1. ~ cut'[c] => Flow(asked'[c], served'[c], up'[c], want'[c], srv'[c], shut'[c])
    BY <1>1, <1>a, <1>d
  <2>2. srv[c] \in {"header", "body"} /\ srv'[c] \in {"header", "body", "closed"}
    BY <1>d
  <2> QED BY <2>1, <2>2, <1>4, <1>a, <1>e, ServerKeeps
<1>6. PagesOK'
  <2> SUFFICES ASSUME NEW p \in Testers, conn[p] # 0, ~ cut'[conn[p]],
                      NEW u \in 1 .. NbUnits, writer'[u] = conn[p]
               PROVE Tested(u, disk'[u])
    BY <1>a DEF PagesOK
  <2>1. p \in Clients /\ conn[p] \in Conns
    BY <1>t, ConnIn, Constants
  <2>2. ~ cut[conn[p]]
    BY <2>1, <1>f DEF CutsStay
  <2>3. CASE u \notin Written(b, n)
    <3>1. writer'[u] = writer[u] /\ disk'[u] = disk[u]
      BY <2>3, <1>b
    <3> QED BY <3>1, <2>2 DEF IInv, PagesOK
  <2>4. CASE u \in Written(b, n)
    <3>1. conn[p] = c /\ disk'[u] = Payload(b, u)
      BY <2>4, <1>b
    <3>2. b[1] = WRITE /\ u \in Span(b[2], n - 2)
      BY <2>4 DEF Written
    <3>3. /\ n = Len(m) /\ MessageOK(m) /\ (\A i \in 1 .. Len(m) : b[i] = m[i])
          /\ pc[p] = "recv" /\ m \in Bodies(p, call[p]) /\ CallOK(p, call[p])
      BY <3>1, <2>1, <1>1, <1>2
    <3>4. Len(m) \in Nat /\ Len(m) >= 1
      BY <3>3, MessageLen
    <3>5. b[1] = m[1]
      <4>1. 1 \in 1 .. Len(m)
        BY <3>4
      <4> QED BY <4>1, <3>3
    <3>6. call[p].op = "write"
      <4>1. call[p].op = "info" => m = <<INFO>>
        BY <3>3, <2>1, BodyOK
      <4>2. call[p].op = "read" => m = <<READ, call[p].off, call[p].size>>
        BY <3>3, <2>1, BodyOK
      <4>3. call[p].op \in {"info", "read", "write"}
        BY <3>3 DEF CallOK
      <4>4. m[1] = WRITE
        BY <3>2, <3>5
      <4>5. <<INFO>>[1] # WRITE /\ <<READ, call[p].off, call[p].size>>[1] # WRITE
        BY DEF INFO, READ, WRITE
      <4> QED BY <4>1, <4>2, <4>3, <4>4, <4>5
    <3> DEFINE i == page[p]
    <3>7. i \in Nat /\ i < Pages /\ call[p] = TestRec("write", i)
      BY <3>3, <3>6, TesterCall
    <3> HIDE DEF i
    <3>8. call[p].off = i * Page /\ call[p].size = Page /\ call[p].val = Pattern(i)
      BY <3>7 DEF TestRec
    <3>9. /\ m[2] = i * Page /\ Len(m) = 2 + Page
          /\ \A j \in 1 .. Page : m[2 + j] = Pattern(i)[j]
      <4>1. p # Driver
        BY Constants
      <4>2. /\ m[2] = call[p].off /\ Len(m) = 2 + Page
            /\ \A j \in 1 .. call[p].size : m[2 + j] = call[p].val[j]
        BY <4>1, <3>3, <3>6, <2>1, BodyOK
      <4> QED BY <4>2, <3>8
    <3> DEFINE o == i * Page
    <3>10. Page \in Nat /\ o \in Nat /\ NbUnits \in Nat
      BY <3>7, Constants
    <3>11. b[2] = o
      <4>1. 2 \in 1 .. Len(m)
        BY <3>9, <3>10
      <4> QED BY <4>1, <3>3, <3>9
    <3>12. o < u /\ u <= o + Page /\ u \in Int
      <4>1. n - 2 = Page
        BY <3>3, <3>9, <3>10
      <4> HIDE DEF o
      <4>2. u \in Span(o, Page)
        BY <4>1, <3>2, <3>11
      <4> QED BY <4>2, <3>10 DEF Span
    <3> HIDE DEF o
    <3>13. Payload(b, u) = Pattern(i)[u - o]
      <4>1. u - o \in 1 .. Page /\ u - o + 2 \in 1 .. 2 + Page /\ 2 + (u - o) = u - o + 2
        BY <3>12, <3>10
      <4>2. b[u - o + 2] = m[u - o + 2]
        BY <4>1, <3>3, <3>9
      <4>3. m[2 + (u - o)] = Pattern(i)[u - o]
        BY <4>1, <3>9
      <4>4. Payload(b, u) = b[u - o + 2]
        BY <3>11 DEF Payload
      <4> QED BY <4>1, <4>2, <4>3, <4>4
    <3> DEFINE v == disk'[u]
    <3>14. v = Pattern(i)[u - i * Page] /\ i * Page < u /\ u <= i * Page + Page
      BY <3>1, <3>12, <3>13 DEF o
    <3> HIDE DEF v
    <3>15. Tested(u, v)
      BY <3>14, <3>7 DEF Tested
    <3> QED BY <3>15 DEF v
  <2> QED BY <2>3, <2>4
<1>7. ASSUME NEW d \in Conns, ~ cut'[d], NEW i \in 1 .. Len(served[d])
      PROVE i \in 1 .. Len(served'[d]) /\ served'[d][i] = served[d][i]
  <2>1. CASE d # c
    BY <1>7, <2>1, <1>e DEF Apart
  <2>2. CASE d = c
    <3>1. IsSeq(served[c]) /\ Len(served[c]) \in Nat
      BY <1>1, <1>7, <2>2
    <3> QED BY <3>1, <2>2, <1>d, AppendIs
  <2> QED BY <2>1, <2>2
<1>8. OwnData'
  <2>1. ASSUME NEW p \in Clients, ReadOn(last[p]), ~ cut'[last[p].conn]
        PROVE Outcome(last[p], served'[last[p].conn])
    <3> DEFINE l == last[p]
               d == l.conn
    <3>1. d \in Conns
      BY <2>1, <1>t, ConnIn DEF ReadOn
    <3>2. ~ cut[d]
      BY <3>1, <2>1, <1>f DEF CutsStay
    <3>3. Outcome(l, served[d])
      BY <3>2, <2>1, OwnDataIs DEF IInv
    <3>4. \A i \in 1 .. Len(served[d]) : i \in 1 .. Len(served'[d]) /\ served'[d][i] = served[d][i]
      BY <3>1, <2>1, <1>7
    <3> HIDE DEF l, d
    <3>5. Outcome(l, served'[d])
      BY <3>3, <3>4 DEF Outcome
    <3> QED BY <3>5 DEF l, d
  <2>2. last' = last
    BY <1>a
  <2> QED BY <2>1, <2>2, OwnDataIs
<1>9. OwnPage'
  <2> SUFFICES ASSUME NEW p \in Testers, NEW l, l = last[p], NEW d, d = l.conn,
                      l.call # Nil, l.call.op = "read", ~ cut'[d], Valid(l.call.off, Page),
                      served'[d][Len(served'[d])].body[1] = READ,
                      served'[d][Len(served'[d])].from = {d}
               PROVE l.buf = l.call.val
    BY <1>a DEF OwnPage
  <2>1. p \in Clients /\ d = conn[p] /\ d # 0
    BY Constants DEF IInv, TestersOK, TesterOK
  <2>2. d \in Conns
    BY <2>1, <1>t, ConnIn
  <2>3. ~ cut[d]
    BY <2>2, <1>f DEF CutsStay
  <2>4. CASE d # c
    <3>1. served'[d] = served[d]
      BY <2>2, <2>4, <1>e DEF Apart
    <3> QED BY <3>1, <2>3 DEF IInv, OwnPage
  <2>5. CASE d = c
    <3>1. /\ pc[p] = "recv" /\ m \in Bodies(p, call[p]) /\ CallOK(p, call[p])
          /\ x.body = m /\ IsSeq(served[c]) /\ served'[c] = Append(served[c], x)
      BY <2>1, <2>5, <1>1, <1>2, <1>d
    <3>2. served'[d][Len(served'[d])] = x
      BY <3>1, <2>5, AppendIs
    <3>3. call[p].op = "write"
      BY <3>1, TesterCall
    <3>4. m[1] = WRITE
      BY <3>1, <3>3, <2>1, BodyOK
    <3> QED BY <3>1, <3>2, <3>4 DEF READ, WRITE
  <2> QED BY <2>4, <2>5
<1>10. OneOwner' /\ Busy' /\ TestersOK' /\ DriverOK' /\ DriverPlace' /\ DriverWithinStore' /\ SocketsReleased'
  BY <1>a, <1>f, ClientsKeep
<1> QED BY <1>h, <1>5, <1>6, <1>8, <1>9, <1>10 DEF IInv

\* readData, the rest of a message.
LEMMA BodyStep == ASSUME IInv, NEW c \in Conns, ReadBody(c) PROVE IInv'
<1> DEFINE n == want[c]
           have == Min2(n, Len(up[c]))
<1>1. UNCHANGED <<want, shut, pc, client, conn, ksocks, nconn, fails, asked>> /\ srv[c] = "body"
  BY DEF ReadBody
<1>2. PICK k \in (IF have = 0 THEN {0} ELSE 1 .. have) :
        \E junk \in Junks(n - k), more \in Junks(Max2(3 - n, 0)) :
          LET b == SubSeq(up[c], 1, k) \o junk \o more IN
          IF Overruns(b, n)
            THEN /\ Gone
                 /\ cut' = [d \in Conns |-> cut[d] \/ srv[d] \in {"header", "body"}]
            ELSE /\ Process(c, k, b, n)
                 /\ cut' = [cut EXCEPT ![c] = @ \/ k < n]
  BY DEF ReadBody
<1>3. PICK junk \in Junks(n - k), more \in Junks(Max2(3 - n, 0)) :
        LET b == SubSeq(up[c], 1, k) \o junk \o more IN
        IF Overruns(b, n)
          THEN /\ Gone
               /\ cut' = [d \in Conns |-> cut[d] \/ srv[d] \in {"header", "body"}]
          ELSE /\ Process(c, k, b, n)
               /\ cut' = [cut EXCEPT ![c] = @ \/ k < n]
  BY <1>2
<1> DEFINE b == SubSeq(up[c], 1, k) \o junk \o more
<1>4. CASE Overruns(b, n)
  BY <1>1, <1>3, <1>4, GoneStep
<1>5. CASE ~ Overruns(b, n)
  <2>1. Process(c, k, b, n) /\ cut' = [cut EXCEPT ![c] = cut[c] \/ k < n]
    BY <1>3, <1>5
  <2> HIDE DEF b
  <2>2. b = SubSeq(up[c], 1, k) \o junk \o more
    BY DEF b
  <2> QED BY <1>1, <2>1, <2>2, ProcessStep
<1> QED BY <1>4, <1>5

-----------------------------------------------------------------------------
(***************************************************************************)
(* The clients' steps.                                                     *)
(***************************************************************************)
\* A step of client p, as the other clients see it.
Moves(p) ==
    /\ \A q \in Clients \ {p} :
         pc'[q] = pc[q] /\ call'[q] = call[q] /\ conn'[q] = conn[q] /\ last'[q] = last[q]
    /\ \A q \in Testers \ {p} : page'[q] = page[q]
    /\ UNCHANGED <<disk, writer, served>>
    /\ \A d \in Conns : d <= nconn /\ d # conn[p] =>
         /\ asked'[d] = asked[d] /\ down'[d] = down[d]
         /\ srv'[d] = srv[d] /\ shut'[d] = shut[d] /\ cut'[d] = cut[d]
    /\ CutsStay
    /\ conn'[p] \in {0, conn[p], nconn + 1}
    /\ p \in Testers => conn'[p] # 0 \/ conn'[p] = conn[p]

\* What the step leaves p in.
Left(p) ==
    /\ pc'[p] \in {"send", "recv"} => conn'[p] # 0 /\ CallOK(p, call'[p])
    /\ p \in Testers => TesterOK(p, pc'[p], call'[p], last'[p], page'[p], conn'[p])
    /\ conn'[p] # 0 /\ ~ cut'[conn'[p]] =>
         Talk(p, pc'[p], call'[p], conn'[p], asked'[conn'[p]], served'[conn'[p]], down'[conn'[p]],
              srv'[conn'[p]], shut'[conn'[p]])

\* The outcome that p is left with.
Told(p) ==
    \/ last'[p] = last[p]
    \/ /\ ReadOn(last'[p]) /\ ~ cut'[last'[p].conn] => Outcome(last'[p], served[last'[p].conn])
       /\ p \in Testers => LET l == last'[p] s == served[l.conn][Len(served[l.conn])] IN
            l.call # Nil /\ l.call.op = "read" /\ ~ cut'[l.conn] /\ Valid(l.call.off, Page) =>
              (s.body[1] = READ /\ s.from = {l.conn} => l.buf = l.call.val)

LEMMA MovesKeep ==
    ASSUME IInv, NEW p \in Clients, Moves(p), Left(p), Told(p)
    PROVE OneOwner' /\ Talks' /\ Busy' /\ TestersOK' /\ PagesOK' /\ OwnData' /\ OwnPage'
<1>t. Typed
  BY DEF IInv
<1>n. nconn \in Nat /\ MaxConns \in Nat /\ nconn <= MaxConns
  BY <1>t, Constants DEF Typed
<1>a. ASSUME NEW q \in Clients, q # p
      PROVE /\ pc'[q] = pc[q] /\ call'[q] = call[q] /\ conn'[q] = conn[q] /\ last'[q] = last[q]
            /\ conn[q] \in 0 .. nconn /\ (conn[q] # 0 => conn[q] \in Conns /\ conn[q] # conn[p])
            /\ conn[q] # 0 => conn[q] # conn'[p]
  <2>1. pc'[q] = pc[q] /\ call'[q] = call[q] /\ conn'[q] = conn[q] /\ last'[q] = last[q]
    BY <1>a DEF Moves
  <2>2. conn[q] \in 0 .. nconn /\ (conn[q] # 0 => conn[q] \in Conns)
    BY <1>t, ConnIn
  <2>3. conn[q] # 0 => conn[q] # conn[p]
    BY <1>a DEF IInv, OneOwner
  <2>4. conn'[p] \in {0, conn[p], nconn + 1}
    BY DEF Moves
  <2>5. conn[q] # nconn + 1
    BY <2>2, <1>n
  <2> QED BY <2>1, <2>2, <2>3, <2>4, <2>5
<1>1. OneOwner'
  <2> SUFFICES ASSUME NEW q \in Clients, NEW r \in Clients, conn'[q] # 0, conn'[q] = conn'[r], q # r
               PROVE FALSE
    BY DEF OneOwner
  <2>1. CASE q = p
    BY <2>1, <1>a
  <2>2. CASE r = p
    BY <2>2, <1>a
  <2>3. CASE q # p /\ r # p
    BY <2>3, <1>a DEF IInv, OneOwner
  <2> QED BY <2>1, <2>2, <2>3
<1>2. Talks'
  <2> SUFFICES ASSUME NEW q \in Clients, NEW d, d = conn'[q], d # 0, ~ cut'[d]
               PROVE Talk(q, pc'[q], call'[q], d, asked'[d], served'[d], down'[d], srv'[d], shut'[d])
    BY DEF Talks
  <2>1. CASE q = p
    BY <2>1 DEF Left
  <2>2. CASE q # p
    <3>1. d = conn[q] /\ pc'[q] = pc[q] /\ call'[q] = call[q] /\ d \in Conns /\ d # conn[p] /\ d <= nconn
      BY <2>2, <1>a, <1>n
    <3>2. /\ asked'[d] = asked[d] /\ down'[d] = down[d] /\ served' = served
          /\ srv'[d] = srv[d] /\ shut'[d] = shut[d] /\ cut'[d] = cut[d]
      BY <3>1 DEF Moves
    <3>3. Talk(q, pc[q], call[q], d, asked[d], served[d], down[d], srv[d], shut[d])
      BY <3>1, <3>2 DEF IInv, Talks
    <3> QED BY <3>1, <3>2, <3>3
  <2> QED BY <2>1, <2>2
<1>3. Busy'
  <2> SUFFICES ASSUME NEW q \in Clients, pc'[q] \in {"send", "recv"}
               PROVE conn'[q] # 0 /\ CallOK(q, call'[q])
    BY DEF Busy
  <2>1. CASE q = p
    BY <2>1 DEF Left
  <2>2. CASE q # p
    BY <2>2, <1>a DEF IInv, Busy
  <2> QED BY <2>1, <2>2
<1>4. TestersOK'
  <2> SUFFICES ASSUME NEW q \in Testers
               PROVE TesterOK(q, pc'[q], call'[q], last'[q], page'[q], conn'[q])
    BY DEF TestersOK
  <2>1. CASE q = p
    BY <2>1 DEF Left
  <2>2. CASE q # p
    <3>1. q \in Clients /\ page'[q] = page[q]
      BY <2>2, Constants DEF Moves
    <3>2. TesterOK(q, pc[q], call[q], last[q], page[q], conn[q])
      BY DEF IInv, TestersOK
    <3> QED BY <3>1, <3>2, <2>2, <1>a
  <2> QED BY <2>1, <2>2
<1>5. PagesOK'
  <2>1. disk' = disk /\ writer' = writer /\ CutsStay
    BY DEF Moves
  <2> SUFFICES ASSUME NEW q \in Testers, conn'[q] # 0, ~ cut'[conn'[q]],
                      NEW u \in 1 .. NbUnits, writer[u] = conn'[q]
               PROVE Tested(u, disk[u])
    BY <2>1 DEF PagesOK
  <2>2. q \in Clients
    BY Constants
  <2>3. conn'[q] = conn[q]
    <3>1. CASE q # p
      BY <3>1, <2>2, <1>a
    <3>2. CASE q = p
      <4>1. conn'[p] \in {conn[p], nconn + 1}
        BY <3>2 DEF Moves
      <4>2. writer[u] \in 0 .. nconn
        BY <1>t DEF Typed
      <4>3. writer[u] # nconn + 1
        BY <4>2, <1>n
      <4> QED BY <3>2, <4>1, <4>3
    <3> QED BY <3>1, <3>2
  <2>4. conn[q] \in Conns
    BY <2>2, <2>3, <1>t, ConnIn
  <2>5. ~ cut[conn[q]]
    BY <2>1, <2>3, <2>4 DEF CutsStay
  <2> QED BY <2>3, <2>5 DEF IInv, PagesOK
<1>s. served' = served /\ CutsStay
  BY DEF Moves
<1>6. OwnData'
  <2>1. ASSUME NEW q \in Clients, ReadOn(last'[q]), ~ cut'[last'[q].conn]
        PROVE Outcome(last'[q], served'[last'[q].conn])
    <3>1. CASE last'[q] = last[q]
      <4>1. last[q].conn \in Conns
        BY <3>1, <2>1, <1>t, ConnIn DEF ReadOn
      <4>2. ~ cut[last[q].conn]
        BY <4>1, <3>1, <2>1, <1>s DEF CutsStay
      <4>3. Outcome(last[q], served[last[q].conn])
        BY <4>2, <3>1, <2>1, OwnDataIs DEF IInv
      <4> QED BY <4>3, <3>1, <1>s
    <3>2. CASE last'[q] # last[q]
      <4>1. q = p
        BY <3>2, <1>a
      <4> QED BY <4>1, <3>2, <2>1, <1>s DEF Told
    <3> QED BY <3>1, <3>2
  <2> QED BY <2>1, OwnDataIs
<1>7. OwnPage'
  <2> SUFFICES ASSUME NEW q \in Testers, NEW l, l = last'[q], NEW d, d = l.conn,
                      l.call # Nil, l.call.op = "read", ~ cut'[d], Valid(l.call.off, Page),
                      served[d][Len(served[d])].body[1] = READ,
                      served[d][Len(served[d])].from = {d}
               PROVE l.buf = l.call.val
    BY <1>s DEF OwnPage
  <2>1. q \in Clients
    BY Constants
  <2>2. CASE last'[q] = last[q]
    <3>1. d # 0
      BY <2>2 DEF IInv, TestersOK, TesterOK
    <3>2. d \in Conns
      BY <2>1, <2>2, <3>1, <1>t, ConnIn
    <3>3. ~ cut[d]
      BY <3>2, <1>s DEF CutsStay
    <3> QED BY <3>3, <2>2 DEF IInv, OwnPage
  <2>3. CASE last'[q] # last[q]
    <3>1. q = p
      BY <2>1, <2>3, <1>a
    <3> QED BY <3>1, <2>3 DEF Told
  <2> QED BY <2>2, <2>3
<1> QED BY <1>1, <1>2, <1>3, <1>4, <1>5, <1>6, <1>7

\* The driver keeps what it knows while another client moves.
LEMMA DriverKeeps ==
    ASSUME IInv, NEW p \in Clients, Moves(p), p # Driver, UNCHANGED <<capacity, ksocks, fails>>
    PROVE DriverOK' /\ DriverPlace' /\ DriverWithinStore' /\ SocketsReleased'
<1>1. /\ pc'[Driver] = pc[Driver] /\ call'[Driver] = call[Driver] /\ conn'[Driver] = conn[Driver]
      /\ last'[Driver] = last[Driver]
  BY Constants DEF Moves
<1>2. NoCut' => NoCut
  BY DEF Moves, CutsStay, NoCut
<1>3. DriverOK'
  BY <1>1, <1>2 DEF IInv, DriverOK
<1>4. DriverPlace'
  BY <1>1 DEF IInv, DriverPlace
<1>5. DriverWithinStore'
  BY <1>1, <1>2 DEF IInv, DriverWithinStore, NoCut
<1>6. SocketsReleased'
  BY <1>1 DEF IInv, SocketsReleased
<1> QED BY <1>3, <1>4, <1>5, <1>6

\* A step of the owner of c, as the streams see it.
LEMMA StreamsKeep ==
    ASSUME IInv, NEW c \in Conns, c <= nconn, Apart(c), nconn' = nconn, srv'[c] = srv[c],
           ~ cut'[c] => Flow(asked'[c], served'[c], up'[c], want'[c], srv'[c], shut'[c])
    PROVE Fresh' /\ Flows'
<1>1. Fresh'
  <2> SUFFICES ASSUME NEW d \in Conns
               PROVE IF d <= nconn THEN srv'[d] \in {"header", "body", "closed"}
                     ELSE /\ srv'[d] = "none" /\ ~ shut'[d] /\ ~ cut'[d]
                          /\ up'[d] = <<>> /\ down'[d] = <<>> /\ asked'[d] = <<>> /\ served'[d] = <<>>
    BY DEF Fresh
  <2>1. CASE d = c
    BY <2>1 DEF IInv, Fresh
  <2>2. CASE d # c
    BY <2>2 DEF IInv, Fresh, Apart
  <2> QED BY <2>1, <2>2
<1>2. Flows'
  <2> SUFFICES ASSUME NEW d \in Conns, ~ cut'[d]
               PROVE Flow(asked'[d], served'[d], up'[d], want'[d], srv'[d], shut'[d])
    BY DEF Flows
  <2>1. CASE d = c
    BY <2>1
  <2>2. CASE d # c
    BY <2>2 DEF IInv, Flows, Apart
  <2> QED BY <2>1, <2>2
<1> QED BY <1>1, <1>2

-----------------------------------------------------------------------------
\* A message is sent: it is the only one under way on its connection.
LEMMA SendStep == ASSUME IInv, NEW p \in Clients, Send(p) PROVE IInv'
<1> DEFINE c == conn[p]
           cl == call[p]
<1>t. Typed
  BY DEF IInv
<1>a. /\ pc[p] = "send"
      /\ UNCHANGED <<disk, old, srv, want, served, writer, down, cut, page, capacity, nconn, fails>>
  BY DEF Send, server
<1>b. PICK b \in Bodies(p, cl) :
        /\ asked' = [asked EXCEPT ![c] = Append(asked[c], b)]
        /\ up' = IF srv[c] = "closed" THEN up ELSE [up EXCEPT ![c] = up[c] \o <<Len(b)>> \o b]
  BY DEF Send
<1>c. \/ /\ p = Driver /\ cl.op = "write"
         /\ pc' = [pc EXCEPT ![p] = "idle"]
         /\ last' = [last EXCEPT ![p] = [call |-> cl, ret |-> 0, buf |-> <<>>, conn |-> c]]
         /\ call' = [call EXCEPT ![p] = Nil]
         /\ shut' = [shut EXCEPT ![c] = TRUE]
         /\ conn' = [conn EXCEPT ![p] = 0]
         /\ ksocks' = ksocks - 1
      \/ /\ ~ (p = Driver /\ cl.op = "write")
         /\ pc' = [pc EXCEPT ![p] = "recv"]
         /\ UNCHANGED <<call, last, shut, conn, ksocks>>
  BY DEF Send, AfterSend, Return, Goto
<1>d. /\ DOMAIN asked = Conns /\ DOMAIN up = Conns /\ shut \in [Conns -> BOOLEAN]
      /\ DOMAIN pc = Clients /\ DOMAIN call = Clients /\ DOMAIN last = Clients
      /\ conn \in [Clients -> 0 .. nconn] /\ ksocks \in Int /\ nconn \in 0 .. MaxConns
  BY <1>t DEF Typed
<1>e. c # 0 /\ CallOK(p, cl) /\ c \in Conns /\ c <= nconn
  <2>1. c # 0 /\ CallOK(p, cl)
    BY <1>a DEF IInv, Busy
  <2> QED BY <2>1, <1>t, ConnIn
<1>f. MessageOK(b)
  BY <1>e, BodyOK
<1>g. /\ asked'[c] = Append(asked[c], b)
      /\ up'[c] = IF srv[c] = "closed" THEN up[c] ELSE up[c] \o <<Len(b)>> \o b
      /\ \A d \in Conns : d # c => asked'[d] = asked[d] /\ up'[d] = up[d] /\ shut'[d] = shut[d]
      /\ DOMAIN asked' = Conns /\ DOMAIN up' = Conns /\ shut' \in [Conns -> BOOLEAN]
  <2>1. asked'[c] = Append(asked[c], b) /\ DOMAIN asked' = Conns
        /\ \A d \in Conns : d # c => asked'[d] = asked[d]
    BY <1>b, <1>d, <1>e
  <2>2. up'[c] = (IF srv[c] = "closed" THEN up[c] ELSE up[c] \o <<Len(b)>> \o b) /\ DOMAIN up' = Conns
        /\ \A d \in Conns : d # c => up'[d] = up[d]
    BY <1>b, <1>d, <1>e
  <2>3. shut' \in [Conns -> BOOLEAN] /\ \A d \in Conns : d # c => shut'[d] = shut[d]
    BY <1>c, <1>d, <1>e
  <2> QED BY <2>1, <2>2, <2>3
<1>h. Apart(c) /\ CutsStay
  BY <1>a, <1>g DEF Apart, CutsStay
<1> HIDE DEF c, cl
\* On a connection that is still in step, nothing was under way.
<1>1. ASSUME ~ cut[c]
      PROVE /\ srv[c] \in {"header", "body"} /\ Len(asked[c]) = Len(served[c]) /\ down[c] = <<>> /\ ~ shut[c]
            /\ FlowAt(c) /\ IsSeq(asked[c]) /\ Len(asked[c]) \in Nat
  <2>1. TalkAt(p, c)
    BY <1>1, <1>e DEF IInv, Talks, TalkAt, c
  <2>2. srv[c] \in {"header", "body"} /\ Len(asked[c]) = Len(served[c]) /\ down[c] = <<>> /\ ~ shut[c]
    BY <2>1, <1>a DEF TalkAt, Talk
  <2>3. FlowAt(c)
    BY <1>1, <1>e DEF IInv, Flows, FlowAt
  <2>4. IsSeq(asked[c])
    BY <2>3 DEF FlowAt, Flow
  <2> QED BY <2>2, <2>3, <2>4, SeqFun
<1>2. ~ cut'[c] => Flow(asked'[c], served'[c], up'[c], want'[c], srv'[c], shut'[c])
  <2> SUFFICES ASSUME ~ cut'[c]
               PROVE Flow(asked'[c], served[c], up'[c], want[c], srv[c], shut'[c])
    BY <1>a
  <2>1. /\ srv[c] \in {"header", "body"} /\ Len(asked[c]) = Len(served[c])
        /\ Flow(asked[c], served[c], up[c], want[c], srv[c], shut[c])
    BY <1>1, <1>a DEF FlowAt
  <2>2. Flow(Append(asked[c], b), served[c], up[c] \o <<Len(b)>> \o b, want[c], srv[c], shut'[c])
    BY <2>1, <1>f, FlowSend
  <2> QED BY <2>1, <2>2, <1>g
<1>3. Fresh' /\ Flows'
  BY <1>2, <1>a, <1>e, <1>h, StreamsKeep
<1>i. ASSUME NEW d \in Conns, d # c
      PROVE asked'[d] = asked[d] /\ down'[d] = down[d] /\ srv'[d] = srv[d] /\ shut'[d] = shut[d] /\ cut'[d] = cut[d]
  BY <1>i, <1>h DEF Apart
<1>4. CASE p = Driver /\ cl.op = "write"
  <2>1. /\ pc' = [pc EXCEPT ![p] = "idle"]
        /\ last' = [last EXCEPT ![p] = [call |-> cl, ret |-> 0, buf |-> <<>>, conn |-> c]]
        /\ call' = [call EXCEPT ![p] = Nil]
        /\ conn' = [conn EXCEPT ![p] = 0]
        /\ ksocks' = ksocks - 1
    BY <1>c, <1>4
  <2>2. /\ pc'[p] = "idle" /\ conn'[p] = 0
        /\ last'[p].call = cl /\ last'[p].ret = 0 /\ last'[p].conn = c
    BY <2>1, <1>d
  <2>3. \A q \in Clients \ {p} :
           pc'[q] = pc[q] /\ call'[q] = call[q] /\ conn'[q] = conn[q] /\ last'[q] = last[q]
    BY <2>1, <1>d
  <2>4. Typed'
    <3>1. conn' \in [Clients -> 0 .. nconn]
      <4>1. 0 \in 0 .. nconn
        BY <1>d, Constants
      <4> QED BY <4>1, <2>1, <1>d
    <3>2. DOMAIN pc' = Clients /\ DOMAIN call' = Clients /\ DOMAIN last' = Clients /\ ksocks' \in Int
      BY <2>1, <1>d
    <3>3. c \in 0 .. nconn
      BY <1>d DEF c
    <3>4. \A q \in Clients : pc'[q] \in Labels /\ last'[q].conn \in 0 .. nconn
      BY <2>2, <2>3, <3>3, <1>t DEF Typed, Labels
    <3> QED BY <3>1, <3>2, <3>4, <1>a, <1>g, <1>t DEF Typed
  <2>5. p \notin Testers
    BY <1>4, Constants
  <2>6. Moves(p)
    BY <2>2, <2>3, <2>5, <1>a, <1>h, <1>i DEF Moves, c
  <2>7. Left(p)
    BY <2>2, <2>5 DEF Left
  <2>8. Told(p)
    BY <2>2, <2>5, <1>4 DEF Told, ReadOn
  <2>9. DriverOK' /\ DriverPlace'
    BY <2>2, <1>4 DEF DriverOK, DriverPlace
  <2>10. DriverWithinStore'
    BY <2>2, <1>4, <1>a DEF IInv, DriverWithinStore
  <2>11. SocketsReleased'
    <3>1. conn[Driver] # 0
      BY <1>4, <1>e DEF c
    <3>2. ksocks = fails + 1 /\ fails \in Int
      BY <3>1, <1>t DEF IInv, SocketsReleased, Typed
    <3> QED BY <3>2, <2>1, <2>2, <1>4, <1>a DEF SocketsReleased
  <2> QED BY <2>4, <2>6, <2>7, <2>8, <2>9, <2>10, <2>11, <1>3, MovesKeep DEF IInv
<1>5. CASE ~ (p = Driver /\ cl.op = "write")
  <2>1. pc' = [pc EXCEPT ![p] = "recv"] /\ UNCHANGED <<call, last, shut, conn, ksocks>>
    BY <1>c, <1>5
  <2>2. pc'[p] = "recv" /\ DOMAIN pc' = Clients /\ \A q \in Clients \ {p} : pc'[q] = pc[q]
    BY <2>1, <1>d
  <2>3. Typed'
    <3>1. \A q \in Clients : pc'[q] \in Labels /\ last'[q].conn \in 0 .. nconn
      BY <2>1, <2>2, <1>t DEF Typed, Labels
    <3> QED BY <3>1, <2>1, <2>2, <1>a, <1>g, <1>t DEF Typed
  <2>4. Moves(p)
    BY <2>1, <2>2, <1>a, <1>h, <1>i DEF Moves, c
  <2>5. ASSUME ~ cut'[c]
        PROVE Talk(p, "recv", cl, c, asked'[c], served[c], down[c], srv[c], shut[c])
    <3>1. /\ srv[c] \in {"header", "body"} /\ Len(asked[c]) = Len(served[c]) /\ down[c] = <<>> /\ ~ shut[c]
          /\ IsSeq(asked[c]) /\ Len(asked[c]) \in Nat
      BY <2>5, <1>1, <1>a
    <3> DEFINE a == asked'[c]
    <3>2. Len(a) = Len(asked[c]) + 1 /\ a[Len(asked[c]) + 1] = b
      BY <3>1, <1>g, AppendIs
    <3> HIDE DEF a
    <3>3. Len(a) = Len(served[c]) + 1 /\ Len(a) > 0 /\ a[Len(a)] = b /\ Len(a) # Len(served[c])
      BY <3>1, <3>2
    <3>4. Talk(p, "recv", cl, c, a, served[c], down[c], srv[c], shut[c])
      BY <3>1, <3>3, <1>b DEF Talk
    <3> QED BY <3>4 DEF a
  <2>6. Left(p)
    <3>1. conn'[p] = c /\ call'[p] = cl
      BY <2>1 DEF c, cl
    <3>2. Talk(p, pc'[p], call'[p], conn'[p], asked'[conn'[p]], served'[conn'[p]], down'[conn'[p]],
              srv'[conn'[p]], shut'[conn'[p]]) \/ cut'[conn'[p]]
      BY <3>1, <2>1, <2>2, <2>5, <1>a
    <3>3. p \in Testers => TesterOK(p, pc'[p], call'[p], last'[p], page'[p], conn'[p])
      <4> SUFFICES ASSUME p \in Testers PROVE TesterOK(p, "recv", call[p], last[p], page[p], conn[p])
        BY <2>1, <2>2, <1>a
      <4>1. TesterOK(p, "send", call[p], last[p], page[p], conn[p])
        BY <1>a DEF IInv, TestersOK
      <4> QED BY <4>1 DEF TesterOK
    <3> QED BY <3>1, <3>2, <3>3, <1>e DEF Left
  <2>7. Told(p)
    BY <2>1 DEF Told
  <2>8. DriverOK' /\ DriverPlace' /\ DriverWithinStore' /\ SocketsReleased'
    <3>1. CASE p # Driver
      BY <3>1, <2>1, <2>4, <1>a, DriverKeeps
    <3>2. CASE p = Driver
      <4>1. NoCut' => NoCut
        BY <1>a DEF NoCut
      <4>2. DriverOK'
        BY <3>2, <4>1, <2>1, <2>2, <1>a DEF IInv, DriverOK
      <4>3. DriverPlace'
        BY <3>2, <2>1, <2>2, <1>a, <1>5 DEF IInv, DriverPlace, cl
      <4>4. DriverWithinStore'
        BY <2>1, <1>a DEF IInv, DriverWithinStore
      <4>5. SocketsReleased'
        BY <2>1, <1>a DEF IInv, SocketsReleased
      <4> QED BY <4>2, <4>3, <4>4, <4>5
    <3> QED BY <3>1, <3>2
  <2> QED BY <2>3, <2>4, <2>6, <2>7, <2>8, <1>3, MovesKeep DEF IInv
<1> QED BY <1>4, <1>5

-----------------------------------------------------------------------------
\* The error code of a read tells an answer of more than one unit from the rest.
LEMMA ResultRead ==
    ASSUME NEW p, NEW cl, cl.op = "read", NEW n \in Nat \ {0}, NEW buf
    PROVE Result(p, cl, n, buf) = 0 <=> n > 1
<1>1. CASE p = Driver
  <2>1. Result(p, cl, n, buf) = IF n > 1 THEN 0 ELSE -1
    BY <1>1 DEF Result
  <2> QED BY <2>1
<1>2. CASE p # Driver
  <2>1. Result(p, cl, n, buf) = IF n = 1 THEN -1 ELSE 0
    BY <1>2 DEF Result
  <2> QED BY <2>1
<1> QED BY <1>1, <1>2

\* What a call wants of its answer.
LEMMA WantedIs ==
    ASSUME NEW p, NEW cl, CallOK(p, cl)
    PROVE /\ Wanted(cl) \in Nat \ {0}
          /\ cl.op = "info" => Wanted(cl) = 2
          /\ cl.op = "read" => Wanted(cl) = cl.size /\ cl.size \in Nat \ {0}
          /\ cl.op = "write" => Wanted(cl) = 1
BY DEF CallOK, Wanted

LEMMA TailIs ==
    ASSUME NEW p, NEW cl, Wanted(cl) \in Nat, NEW n \in 1 .. Wanted(cl), NEW tail \in Tails(p, cl, n)
    PROVE IsSeq(tail) /\ Len(tail) = Wanted(cl) - n
<1> DEFINE k == Wanted(cl) - n
<1>1. k \in Nat
  OBVIOUS
<1>2. tail \in {Rep(0, k)} \/ tail \in Junks(k)
  BY DEF Tails
<1> HIDE DEF k
<1>3. CASE tail \in {Rep(0, k)}
  <2>1. tail \in [1 .. k -> {0}]
    BY <1>3 DEF Rep
  <2>2. IsSeq(tail) /\ Len(tail) = k
    BY <2>1, <1>1, FunIs
  <2> QED BY <2>2 DEF k
<1>4. CASE tail \in Junks(k)
  BY <1>1, <1>4, JunkIs DEF k
<1> QED BY <1>2, <1>3, <1>4

\* buf holds the n units d, and the memory behind them.
Fills(cl, d, n, buf) == \E tail : IsSeq(tail) /\ Len(tail) = Wanted(cl) - n /\ buf = d \o tail

\* One read() has taken n units of connection c for the call cl, into buf: all
\* there was, unless the read was cut.
Heard(cl, c, n, buf) ==
    /\ DOMAIN down' = Conns /\ cut' \in [Conns -> BOOLEAN] /\ CutsStay
    /\ \A d \in Conns : d # c => down'[d] = down[d] /\ cut'[d] = cut[d]
    /\ ~ cut'[c] =>
         /\ n = Len(down[c]) /\ n # 0 /\ down'[c] = <<>>
         /\ Fills(cl, down[c], n, buf)

\* On a connection that is still in step, the answer is the one to this call.
Answered(p, cl, c) ==
    LET a == asked[c] s == served[c] x == s[Len(s)] IN
    /\ IsSeq(a) /\ IsSeq(s) /\ Len(s) \in Nat \ {0} /\ Len(a) = Len(s)
    /\ down[c] = x.out /\ AnswerOK(p, cl, c, x)
    /\ x.body \in Bodies(p, cl)
    /\ ~ shut[c] /\ srv[c] \in {"header", "body"} /\ FlowAt(c)

LEMMA AnsweredIs ==
    ASSUME IInv, NEW p \in Clients, pc[p] = "recv", ~ cut[conn[p]], down[conn[p]] # <<>>
    PROVE Answered(p, call[p], conn[p])
<1> DEFINE c == conn[p]
           a == asked[c]
           s == served[c]
<1>1. c # 0 /\ c \in Conns
  BY ConnIn DEF IInv, Busy
<1>2. TalkAt(p, c)
  BY <1>1 DEF IInv, Talks, TalkAt
<1>3. FlowAt(c)
  BY <1>1 DEF IInv, Flows, FlowAt
<1> HIDE DEF c
<1>4. IsSeq(a) /\ IsSeq(s) /\ Len(s) \in Nat /\ Len(a) \in Nat
      /\ Len(s) <= Len(a) /\ Len(a) <= Len(s) + 1 /\ \A i \in 1 .. Len(s) : s[i].body = a[i]
  BY <1>3, SeqFun DEF FlowAt, Flow
<1>5. Len(a) # Len(s) + 1
  BY <1>2 DEF TalkAt, Talk, c
<1>6. Len(a) = Len(s)
  BY <1>4, <1>5
<1>7. /\ Len(a) > 0 /\ a[Len(a)] \in Bodies(p, call[p])
      /\ down[c] = s[Len(s)].out /\ AnswerOK(p, call[p], c, s[Len(s)])
      /\ ~ shut[c] /\ srv[c] \in {"header", "body"}
  BY <1>2, <1>6 DEF TalkAt, Talk
<1>8. Len(s) \in Nat \ {0} /\ Len(s) \in 1 .. Len(s)
  BY <1>4, <1>6, <1>7
<1>9. s[Len(s)].body \in Bodies(p, call[p])
  BY <1>4, <1>6, <1>7, <1>8
<1> QED BY <1>3, <1>4, <1>6, <1>7, <1>8, <1>9 DEF Answered, c

\* The outcome of a read that was answered.
LEMMA OutcomeIs ==
    ASSUME NEW p \in Clients, NEW cl, CallOK(p, cl), NEW c, Answered(p, cl, c), cl.op = "read",
           NEW n, n = Len(down[c]), n # 0,
           NEW buf, Fills(cl, down[c], n, buf),
           NEW l, l.call = cl, l.ret = Result(p, cl, n, buf), l.buf = buf
    PROVE /\ Outcome(l, served[c])
          /\ Valid(cl.off, cl.size) => buf = down[c]
<1> DEFINE s == served[c]
           x == s[Len(s)]
           d == down[c]
<1>1. /\ Len(s) \in Nat \ {0} /\ d = x.out /\ AnswerOK(p, cl, c, x) /\ x.body \in Bodies(p, cl)
  BY DEF Answered
<1>2. x.body = <<READ, cl.off, cl.size>>
  BY <1>1, BodyOK
<1>3. IsSeq(d) /\ Len(d) = IF Valid(cl.off, cl.size) THEN cl.size ELSE 1
  BY <1>1 DEF AnswerOK
<1>4. cl.size \in Nat \ {0} /\ Wanted(cl) = cl.size
  BY WantedIs
<1>5. PICK tail : IsSeq(tail) /\ Len(tail) = Wanted(cl) - n /\ buf = d \o tail
  BY DEF Fills
<1> HIDE DEF s, d, x
<1>6. SubSeq(buf, 1, Len(d)) = d
  BY <1>3, <1>5, FirstPart
<1>7. n \in Nat \ {0} /\ n = Len(d)
  BY <1>3, SeqFun DEF d
<1>8. Result(p, cl, n, buf) = 0 <=> n > 1
  BY <1>7, ResultRead
<1>9. n > 1 <=> cl.size > 1 /\ Valid(cl.off, cl.size)
  BY <1>3, <1>4, <1>7
<1>10. Valid(cl.off, cl.size) => buf = d
  <2> SUFFICES ASSUME Valid(cl.off, cl.size) PROVE buf = d
    OBVIOUS
  <2>1. Len(tail) = 0
    BY <1>3, <1>4, <1>5, <1>7
  <2>2. tail = <<>>
    BY <2>1, <1>5, LenZero
  <2> QED BY <2>2, <1>3, <1>5, ConcatEmpty
<1>11. Outcome(l, s)
  <2>1. Len(s) \in 1 .. Len(s) /\ s[Len(s)] = x
    BY <1>1 DEF x
  <2>2. s[Len(s)].body = <<READ, l.call.off, l.call.size>>
    BY <2>1, <1>2
  <2>3. s[Len(s)].out = SubSeq(l.buf, 1, Len(s[Len(s)].out))
    BY <2>1, <1>1, <1>6
  <2>4. l.ret = 0 <=> l.call.size > 1 /\ Valid(l.call.off, l.call.size)
    BY <1>8, <1>9
  <2> QED BY <2>1, <2>2, <2>3, <2>4 DEF Outcome
<1> QED BY <1>10, <1>11 DEF s, d

\* A call returns.
LEMMA FinishStep ==
    ASSUME IInv, NEW p \in Clients, pc[p] = "recv", NEW n, NEW buf,
           Finish(p, n, buf), Heard(call[p], conn[p], n, buf),
           UNCHANGED <<disk, srv, want, served, writer, up, nconn, fails, asked>>
    PROVE IInv'
<1> DEFINE c == conn[p]
           cl == call[p]
           r == Result(p, cl, n, buf)
           rec == [call |-> cl, ret |-> r, buf |-> buf, conn |-> c]
<1>t. Typed
  BY DEF IInv
<1>d. /\ shut \in [Conns -> BOOLEAN] /\ page \in [Testers -> Nat]
      /\ DOMAIN pc = Clients /\ DOMAIN call = Clients /\ DOMAIN last = Clients
      /\ conn \in [Clients -> 0 .. nconn] /\ ksocks \in Int /\ fails \in Int /\ nconn \in 0 .. MaxConns
  BY <1>t DEF Typed
<1>e. c # 0 /\ CallOK(p, cl) /\ c \in Conns /\ c <= nconn /\ c \in 0 .. nconn
  <2>1. c # 0 /\ CallOK(p, cl)
    BY DEF IInv, Busy
  <2> QED BY <2>1, <1>t, ConnIn
<1>h. /\ DOMAIN down' = Conns /\ cut' \in [Conns -> BOOLEAN] /\ CutsStay
      /\ \A d \in Conns : d # c => down'[d] = down[d] /\ cut'[d] = cut[d]
  BY DEF Heard
<1>r. rec.call = cl /\ rec.ret = r /\ rec.buf = buf /\ rec.conn = c
  OBVIOUS
<1>f. \/ /\ p \in Testers /\ cl.op = "read" /\ r = -1
         /\ pc' = [pc EXCEPT ![p] = "exit"] /\ call' = [call EXCEPT ![p] = Nil] /\ last' = last
         /\ page' = [page EXCEPT ![p] = page[p] + 1]
         /\ UNCHANGED <<shut, conn, ksocks>>
      \/ /\ p \in Testers
         /\ pc' = [pc EXCEPT ![p] = "idle"] /\ call' = [call EXCEPT ![p] = Nil]
         /\ last' = [last EXCEPT ![p] = rec]
         /\ page' = [page EXCEPT ![p] = IF cl.op = "read" THEN page[p] + 1 ELSE page[p]]
         /\ UNCHANGED <<shut, conn, ksocks>>
      \/ /\ p \notin Testers
         /\ pc' = [pc EXCEPT ![p] = "idle"] /\ call' = [call EXCEPT ![p] = Nil]
         /\ last' = [last EXCEPT ![p] = rec]
         /\ shut' = [shut EXCEPT ![c] = TRUE]
         /\ conn' = [conn EXCEPT ![p] = 0]
         /\ ksocks' = IF p = Driver THEN ksocks - 1 ELSE ksocks
         /\ UNCHANGED page
  BY DEF Finish, Return, Goto
<1>g. capacity' \in IF p = Driver /\ cl.op = "info" THEN DriverInit(buf) ELSE {capacity}
  BY DEF Finish
\* What a connection that is still in step has told its client.
<1>1. ASSUME ~ cut'[c]
      PROVE /\ ~ cut[c] /\ Answered(p, cl, c) /\ down'[c] = <<>>
            /\ n = Len(down[c]) /\ n # 0
            /\ Fills(cl, down[c], n, buf)
  <2>1. ~ cut[c]
    BY <1>1, <1>e, <1>h DEF CutsStay
  <2>2. /\ down'[c] = <<>> /\ n = Len(down[c]) /\ n # 0
        /\ Fills(cl, down[c], n, buf)
    BY <1>1 DEF Heard
  <2>3. down[c] # <<>>
    BY <2>2, EmptyIs
  <2>4. Answered(p, cl, c)
    BY <2>1, <2>3, AnsweredIs
  <2> QED BY <2>1, <2>2, <2>4
<1> HIDE DEF rec, r, c, cl
<1>2. ASSUME ~ cut'[c], cl.op = "read"
      PROVE Outcome(rec, served[c]) /\ (Valid(cl.off, cl.size) => buf = down[c])
  <2>1. Answered(p, cl, c) /\ n = Len(down[c]) /\ n # 0
    BY <1>1, <1>2
  <2>2. Fills(cl, down[c], n, buf)
    BY <1>1, <1>2
  <2>3. rec.call = cl /\ rec.ret = Result(p, cl, n, buf) /\ rec.buf = buf
    BY <1>r DEF r
  <2> QED BY <1>2, <1>e, <2>1, <2>2, <2>3, OutcomeIs
<1>s. shut'[c] \in {shut[c], TRUE} /\ shut' \in [Conns -> BOOLEAN] /\ \A d \in Conns : d # c => shut'[d] = shut[d]
  BY <1>d, <1>e, <1>f
<1>a. Apart(c)
  BY <1>h, <1>s DEF Apart
<1>3. Fresh' /\ Flows'
  <2>1. ASSUME ~ cut'[c] PROVE Flow(asked'[c], served'[c], up'[c], want'[c], srv'[c], shut'[c])
    <3>1. Flow(asked[c], served[c], up[c], want[c], srv[c], shut[c])
      BY <2>1, <1>1 DEF Answered, FlowAt
    <3>2. Flow(asked[c], served[c], up[c], want[c], srv[c], TRUE)
      BY <3>1, FlowShut
    <3> QED BY <3>1, <3>2, <1>s
  <2> QED BY <2>1, <1>a, <1>e, StreamsKeep
<1>i. ASSUME NEW d \in Conns, d # c
      PROVE asked'[d] = asked[d] /\ down'[d] = down[d] /\ srv'[d] = srv[d] /\ shut'[d] = shut[d] /\ cut'[d] = cut[d]
  BY <1>i, <1>a DEF Apart
<1>b. /\ pc' \in {[pc EXCEPT ![p] = "exit"], [pc EXCEPT ![p] = "idle"]}
      /\ call' = [call EXCEPT ![p] = Nil]
      /\ last' \in {last, [last EXCEPT ![p] = rec]}
      /\ conn' \in {conn, [conn EXCEPT ![p] = 0]}
      /\ page' \in [Testers -> Nat] /\ \A q \in Testers \ {p} : page'[q] = page[q]
      /\ ksocks' \in Int
  <2>1. /\ pc' \in {[pc EXCEPT ![p] = "exit"], [pc EXCEPT ![p] = "idle"]}
        /\ call' = [call EXCEPT ![p] = Nil]
        /\ last' \in {last, [last EXCEPT ![p] = rec]}
        /\ conn' \in {conn, [conn EXCEPT ![p] = 0]}
    BY <1>f
  <2>2. page' \in [Testers -> Nat] /\ \A q \in Testers \ {p} : page'[q] = page[q]
    BY <1>d, <1>f
  <2>3. ksocks' \in Int
    BY <1>d, <1>f
  <2> QED BY <2>1, <2>2, <2>3
<1>4. Typed'
  <2>1. conn' \in [Clients -> 0 .. nconn]
    <3>1. 0 \in 0 .. nconn
      BY <1>d, Constants
    <3> QED BY <3>1, <1>b, <1>d
  <2>2. DOMAIN pc' = Clients /\ DOMAIN call' = Clients /\ DOMAIN last' = Clients
    BY <1>b, <1>d
  <2>3. ASSUME NEW q \in Clients PROVE pc'[q] \in Labels /\ last'[q].conn \in 0 .. nconn
    <3>1. pc[q] \in Labels /\ last[q].conn \in 0 .. nconn
      BY <1>t DEF Typed
    <3>2. pc'[q] \in Labels
      BY <3>1, <1>b, <1>d DEF Labels
    <3>3. last'[q] \in {last[q], rec}
      BY <1>b, <1>d
    <3> QED BY <3>1, <3>2, <3>3, <1>e, <1>r
  <2> QED BY <2>1, <2>2, <2>3, <1>b, <1>d, <1>h, <1>s, <1>t DEF Typed
<1>5. Moves(p)
  <2>1. \A q \in Clients \ {p} :
           pc'[q] = pc[q] /\ call'[q] = call[q] /\ conn'[q] = conn[q] /\ last'[q] = last[q]
    BY <1>b, <1>d
  <2>2. conn'[p] \in {0, conn[p], nconn + 1} /\ (p \in Testers => conn'[p] # 0 \/ conn'[p] = conn[p])
    BY <1>d, <1>f
  <2> QED BY <2>1, <2>2, <1>b, <1>h, <1>i DEF Moves, c
<1>6. pc'[p] \in {"idle", "exit"} /\ last'[p] \in {last[p], rec}
  BY <1>b, <1>d
<1>7. Told(p)
  <2>1. CASE last'[p] = last[p]
    BY <2>1 DEF Told
  <2> SUFFICES ASSUME last'[p] = rec PROVE Told(p)
    BY <2>1, <1>6
  <2>2. ReadOn(rec) /\ ~ cut'[rec.conn] => Outcome(rec, served[rec.conn])
    BY <1>2, <1>r DEF ReadOn
  <2>3. ASSUME p \in Testers, cl.op = "read", ~ cut'[c], Valid(cl.off, Page),
               NEW s, s = served[c][Len(served[c])], s.from = {c}
        PROVE buf = cl.val
    <3>1. AnswerOK(p, cl, c, s) /\ down[c] = s.out
      BY <2>3, <1>1 DEF Answered
    <3>2. down[c] = cl.val
      BY <3>1, <2>3 DEF AnswerOK
    <3>3. cl.size = Page
      <4>1. cl = TestRec("read", page[p])
        BY <2>3, TesterCall DEF cl
      <4> QED BY <4>1 DEF TestRec
    <3>4. buf = down[c]
      BY <3>3, <2>3, <1>2
    <3> QED BY <3>2, <3>4
  <2>4. p \in Testers => LET l == rec s == served[l.conn][Len(served[l.conn])] IN
            l.call # Nil /\ l.call.op = "read" /\ ~ cut'[l.conn] /\ Valid(l.call.off, Page) =>
              (s.body[1] = READ /\ s.from = {l.conn} => l.buf = l.call.val)
    BY <2>3, <1>r
  <2> QED BY <2>2, <2>4 DEF Told
<1>8. Left(p)
  <2>1. ASSUME conn'[p] # 0, ~ cut'[conn'[p]]
        PROVE Talk(p, pc'[p], call'[p], conn'[p], asked'[conn'[p]], served'[conn'[p]], down'[conn'[p]],
                   srv'[conn'[p]], shut'[conn'[p]])
    <3>1. conn'[p] = c /\ shut' = shut
      BY <2>1, <1>d, <1>f DEF c
    <3>2. Answered(p, cl, c) /\ down'[c] = <<>>
      BY <3>1, <2>1, <1>1
    <3>3. ~ shut[c] /\ srv[c] \in {"header", "body"} /\ Len(asked[c]) = Len(served[c])
      BY <3>2 DEF Answered
    <3> QED BY <3>1, <3>2, <3>3, <1>6 DEF Talk
  <2>2. ASSUME p \in Testers
        PROVE TesterOK(p, pc'[p], call'[p], last'[p], page'[p], conn'[p])
    <3>1. TesterOK(p, pc[p], call[p], last[p], page[p], conn[p]) /\ conn'[p] = c /\ c # 0
      BY <2>2, <1>d, <1>e, <1>f DEF IInv, TestersOK, c
    <3>2. CASE pc'[p] = "exit" /\ last'[p] = last[p]
      BY <3>1, <3>2 DEF TesterOK, c
    <3>3. CASE pc'[p] = "idle" /\ last'[p] = rec /\ page'[p] = IF cl.op = "read" THEN page[p] + 1 ELSE page[p]
      <4>1. cl.op = "write" => cl = TestRec("write", page[p]) /\ page'[p] = page[p]
        BY <3>3, <2>2, TesterCall DEF cl
      <4> QED BY <4>1, <3>1, <3>3, <1>r DEF TesterOK
    <3> QED BY <3>2, <3>3, <2>2, <1>d, <1>f
  <2> QED BY <2>1, <2>2, <1>6 DEF Left
<1>9. DriverOK' /\ DriverPlace' /\ DriverWithinStore' /\ SocketsReleased'
  <2>1. CASE p # Driver
    <3>1. UNCHANGED <<capacity, ksocks>>
      BY <2>1, <1>f, <1>g
    <3> QED BY <2>1, <3>1, <1>5, DriverKeeps
  <2>2. CASE p = Driver
    <3>1. p \notin Testers
      BY <2>2, Constants
    <3>2. pc'[p] = "idle" /\ last'[p] = rec /\ conn'[p] = 0 /\ ksocks' = ksocks - 1
      BY <2>2, <3>1, <1>d, <1>f
    <3>3. DriverOK' /\ DriverPlace'
      BY <3>2, <2>2 DEF DriverOK, DriverPlace
    <3>4. SocketsReleased'
      <4>1. ksocks = fails + 1
        BY <2>2, <1>e DEF IInv, SocketsReleased, c
      <4> QED BY <4>1, <3>2, <2>2, <1>d DEF SocketsReleased
    <3>5. ASSUME NoCut' PROVE capacity' \in {-1, NbSectors} /\ r = 0
      <4>1. NoCut
        BY <3>5, <1>h DEF NoCut, CutsStay
      <4>2. capacity \in {-1, NbSectors}
        BY <4>1 DEF IInv, DriverWithinStore, NoCut
      <4>3. ~ cut'[c]
        BY <3>5, <1>e DEF NoCut
      <4>4. cl.op \in {"info", "read"}
        BY <1>e, <2>2 DEF CallOK, IInv, DriverPlace, cl
      <4>5. CASE cl.op = "read"
        <5>1. capacity' = capacity
          BY <4>5, <1>g
        <5>2. cl.size > 1 /\ Valid(cl.off, cl.size)
          BY <4>1, <4>5, <2>2 DEF IInv, DriverOK, cl
        <5>3. Outcome(rec, served[c])
          BY <4>3, <4>5, <1>2
        <5>4. r = 0
          BY <5>2, <5>3, <1>r DEF Outcome
        <5> QED BY <5>1, <5>4, <4>2
      <4>6. CASE cl.op = "info"
        <5>1. r = 0
          BY <4>6, <2>2 DEF Result, r
        <5>2. down[c] = <<NbSectors, 0>>
          BY <4>3, <4>6, <1>1 DEF Answered, AnswerOK
        <5>3. PICK tail : IsSeq(tail) /\ buf = down[c] \o tail
          BY <4>3, <1>1 DEF Fills
        <5>4. buf[1] = NbSectors /\ buf[2] = 0
          <6> DEFINE f == <<NbSectors, 0>>
          <6>1. IsSeq(f) /\ Len(f) = 2 /\ f[1] = NbSectors /\ f[2] = 0
            BY Short
          <6> HIDE DEF f
          <6>2. IsSeq(f) /\ IsSeq(tail)
            BY <6>1, <5>3
          <6>3. buf = f \o tail
            BY <5>2, <5>3 DEF f
          <6>4. \A i \in 1 .. Len(f) : buf[i] = f[i]
            BY <6>2, <6>3, ConcatIs
          <6>5. 1 \in 1 .. Len(f) /\ 2 \in 1 .. Len(f)
            BY <6>1
          <6> QED BY <6>1, <6>4, <6>5
        <5>5. Count(buf) = NbSectors
          BY <5>4, Constants DEF Count
        <5> QED BY <5>1, <5>5, <4>6, <2>2, <1>g DEF DriverInit
      <4> QED BY <4>4, <4>5, <4>6
    <3>6. DriverWithinStore'
      BY <3>2, <3>5, <2>2, <1>r DEF DriverWithinStore, NoCut
    <3> QED BY <3>3, <3>4, <3>6
  <2> QED BY <2>1, <2>2
<1> QED BY <1>3, <1>4, <1>5, <1>7, <1>8, <1>9, MovesKeep DEF IInv

LEMMA ReceiveStep == ASSUME IInv, NEW p \in Clients, Receive(p) PROVE IInv'
<1> DEFINE c == conn[p]
           cl == call[p]
           w == Wanted(cl)
           have == Min2(w, Len(down[c]))
<1>t. Typed
  BY DEF IInv
<1>a. /\ pc[p] = "recv" /\ have > 0
      /\ UNCHANGED <<disk, srv, want, served, writer, up, nconn, fails, asked>>
  BY DEF Receive, server
<1>b. PICK n \in 1 .. have :
        /\ cut' = [cut EXCEPT ![c] = cut[c] \/ n < have]
        /\ down' = [down EXCEPT ![c] = SubSeq(down[c], n + 1, Len(down[c]))]
        /\ \E tail \in Tails(p, cl, n) : Finish(p, n, SubSeq(down[c], 1, n) \o tail)
  BY DEF Receive
<1>c. PICK tail \in Tails(p, cl, n) : Finish(p, n, SubSeq(down[c], 1, n) \o tail)
  BY <1>b
<1> DEFINE buf == SubSeq(down[c], 1, n) \o tail
<1>d. DOMAIN down = Conns /\ cut \in [Conns -> BOOLEAN]
  BY <1>t DEF Typed
<1>e. c # 0 /\ CallOK(p, cl) /\ c \in Conns
  <2>1. c # 0 /\ CallOK(p, cl)
    BY <1>a DEF IInv, Busy
  <2> QED BY <2>1, <1>t, ConnIn
<1> HIDE DEF c, cl, w
<1>f. w \in Nat \ {0}
  BY <1>e, WantedIs DEF w
<1>1. ASSUME ~ cut'[c]
      PROVE n = Len(down[c]) /\ n # 0 /\ down'[c] = <<>> /\ Fills(cl, down[c], n, buf)
  <2> DEFINE d == down[c]
  <2>1. ~ cut[c] /\ ~ (n < have)
    BY <1>1, <1>b, <1>d, <1>e
  <2>2. d # <<>>
    <3> SUFFICES ASSUME d = <<>> PROVE FALSE
      OBVIOUS
    <3>1. Len(down[c]) = 0
      BY EmptyIs
    <3>2. have = 0
      BY <3>1, <1>f DEF Min2
    <3> QED BY <3>2, <1>a
  <2>3. Answered(p, cl, c)
    BY <2>1, <2>2, <1>a, AnsweredIs DEF c, cl
  <2>4. \E s : d = s.out /\ AnswerOK(p, cl, c, s)
    BY <2>3 DEF Answered
  <2> HIDE DEF d
  <2>5. IsSeq(d) /\ Len(d) \in Nat /\ Len(d) <= w
    <3>1. PICK s : d = s.out /\ AnswerOK(p, cl, c, s)
      BY <2>4
    <3>2. IsSeq(d)
      BY <3>1 DEF AnswerOK
    <3>3. Len(d) \in Nat
      BY <3>2, SeqFun
    <3>4. CASE cl.op = "info"
      <4>1. d = <<NbSectors, 0>>
        BY <3>1, <3>4 DEF AnswerOK
      <4>2. Len(d) = 2
        BY <4>1
      <4> QED BY <4>2, <3>2, <3>4, <1>e, WantedIs DEF w
    <3>5. CASE cl.op = "read"
      <4>1. Len(d) = IF Valid(cl.off, cl.size) THEN cl.size ELSE 1
        BY <3>1, <3>5 DEF AnswerOK
      <4>2. w = cl.size /\ cl.size \in Nat \ {0}
        BY <3>5, <1>e, WantedIs DEF w
      <4> QED BY <4>1, <4>2, <3>2, <3>3
    <3>6. CASE cl.op = "write"
      <4>1. Len(d) = 1 /\ w = 1
        BY <3>1, <3>6, <1>e, WantedIs DEF AnswerOK, w
      <4> QED BY <4>1, <3>2
    <3>7. cl.op \in {"info", "read", "write"}
      BY <1>e DEF CallOK
    <3> QED BY <3>4, <3>5, <3>6, <3>7
  <2>6. have = Len(d)
    BY <2>5, <1>f DEF Min2, d
  <2>7. n = Len(d) /\ n # 0
    BY <2>1, <2>5, <2>6
  <2>8. down'[c] = <<>>
    <3>1. down'[c] = SubSeq(d, n + 1, Len(d))
      BY <1>b, <1>d, <1>e DEF d
    <3> QED BY <3>1, <2>5, <2>7, WholeIs
  <2>9. SubSeq(d, 1, n) = d
    BY <2>5, <2>7, WholeIs
  <2>10. IsSeq(tail) /\ Len(tail) = Wanted(cl) - n
    <3>1. Wanted(cl) \in Nat /\ n \in 1 .. Wanted(cl)
      BY <1>f, <2>5, <2>7 DEF w
    <3> QED BY <3>1, <1>c, TailIs
  <2>11. Fills(cl, d, n, buf)
    BY <2>9, <2>10 DEF Fills, d
  <2> QED BY <2>7, <2>8, <2>11 DEF d
<1>2. Heard(cl, c, n, buf)
  <2>1. DOMAIN down' = Conns /\ cut' \in [Conns -> BOOLEAN]
    BY <1>b, <1>d
  <2>2. CutsStay /\ \A d \in Conns : d # c => down'[d] = down[d] /\ cut'[d] = cut[d]
    BY <1>b, <1>d DEF CutsStay
  <2> HIDE DEF buf
  <2> QED BY <2>1, <2>2, <1>1 DEF Heard
<1>3. Finish(p, n, buf)
  BY <1>c
<1> HIDE DEF buf
<1> QED BY <1>2, <1>3, <1>a, FinishStep DEF c, cl

\* Only the end of the server's process closes a connection that a client uses.
LEMMA ReceiveNothingStep == ASSUME IInv, NEW p \in Clients, ReceiveNothing(p) PROVE IInv'
<1> DEFINE c == conn[p]
           cl == call[p]
<1>t. Typed
  BY DEF IInv
<1>a. /\ pc[p] = "recv" /\ srv[c] = "closed"
      /\ UNCHANGED <<disk, srv, want, served, writer, up, down, cut, nconn, fails, asked>>
  BY DEF ReceiveNothing, server, streams
<1>b. PICK tail \in Tails(p, cl, 0) : Finish(p, 0, tail)
  BY DEF ReceiveNothing
<1>1. cut[c]
  <2> SUFFICES ASSUME ~ cut[c] PROVE FALSE
    OBVIOUS
  <2>1. c # 0
    BY <1>a DEF IInv, Busy
  <2>2. TalkAt(p, c)
    BY <2>1 DEF IInv, Talks, TalkAt
  <2> QED BY <2>2, <1>a DEF TalkAt, Talk
<1>2. Heard(cl, c, 0, tail)
  BY <1>1, <1>a, <1>t DEF Heard, CutsStay, Typed
<1> QED BY <1>a, <1>b, <1>2, FinishStep

-----------------------------------------------------------------------------
\* A sector below the capacity lies within the store, and its offset does not
\* wrap around.
LEMMA SectorIn ==
    ASSUME NEW s \in Nat, s < NbSectors
    PROVE Valid((s * Sector) % Word, Sector)
<1>k. NbSectors \in Nat /\ Sector \in Nat /\ Word \in Nat \ {0} /\ NbUnits \in Nat /\ NbUnits < Word
  BY Constants
<1> DEFINE d == NbSectors - s - 1
           o == s * Sector
<1>1. d \in Nat /\ NbSectors = s + 1 + d
  BY <1>k
<1> HIDE DEF d
<1>2. d * Sector \in Nat /\ o \in Nat
  BY <1>1, <1>k
<1>3. NbSectors * Sector = o + Sector + d * Sector
  BY <1>1, <1>k
<1> HIDE DEF o
<1>4. NbUnits = o + Sector + d * Sector
  BY <1>3 DEF NbUnits
<1>5. o + Sector <= NbUnits /\ o < Word /\ o + Sector < Word /\ o + Sector \in Nat
  BY <1>2, <1>4, <1>k
<1>6. o % Word = o
  BY <1>2, <1>5, <1>k
<1>7. (o + Sector) % Word = o + Sector
  BY <1>5, <1>k
<1> QED BY <1>5, <1>6, <1>7 DEF Valid, o

LEMMA PatternIs == ASSUME NEW i \in Nat PROVE IsSeq(Pattern(i)) /\ Len(Pattern(i)) = Page
<1>1. Page \in Nat
  BY Constants
<1> DEFINE S == {(i + j - 1) % 256 : j \in 1 .. Page}
<1>2. Pattern(i) \in [1 .. Page -> S]
  BY DEF Pattern
<1> HIDE DEF S
<1> QED BY <1>1, <1>2, FunIs

\* The calls that a client at rest can make.
LEMMA CallsFit ==
    ASSUME IInv, NEW p \in Clients, pc[p] = "idle", NEW cl \in CallsOf(p)
    PROVE /\ CallOK(p, cl)
          /\ p \in Testers =>
               /\ page[p] < Pages
               /\ cl \in {Info, TestRec("write", page[p]), TestRec("read", page[p])}
               /\ last[p].call # Nil /\ last[p].call.op = "read" => cl.op = "write"
          /\ p = Driver /\ NoCut /\ cl.op = "read" => cl.size > 1 /\ Valid(cl.off, cl.size)
<1>k. Sector \in Nat /\ Sector >= 2 /\ Page \in Nat /\ Page >= 2 /\ NbSectors \in Nat
      /\ Driver \notin Testers /\ Driver \notin Users
  BY Constants
<1>i. ASSUME NEW q PROVE CallOK(q, Info) /\ Info.op = "info"
  BY DEF CallOK, Info
<1>1. CASE p = Driver /\ capacity = -1
  <2>1. cl = Info
    BY <1>1, <1>k DEF CallsOf
  <2> QED BY <2>1, <1>1, <1>i, <1>k
<1>2. CASE p = Driver /\ capacity # -1
  <2>1. PICK op \in {"read", "write"}, s \in {x \in Sectors : x < capacity}, v \in Data : cl = DriverCall(op, s, v)
    BY <1>2, <1>k DEF CallsOf
  <2>2. cl.op = op /\ cl.off = (s * Sector) % Word /\ cl.size = Sector /\ cl.val = Rep(v, Sector)
    BY <2>1 DEF DriverCall
  <2>3. IsSeq(cl.val) /\ Len(cl.val) = Sector
    <3> DEFINE f == Rep(v, Sector)
    <3>1. f \in [1 .. Sector -> {v}]
      BY DEF Rep
    <3> HIDE DEF f
    <3>2. IsSeq(f) /\ Len(f) = Sector
      BY <3>1, <1>k, FunIs
    <3> QED BY <3>2, <2>2 DEF f
  <2>4. CallOK(p, cl)
    BY <2>1, <2>2, <2>3, <1>2, <1>k DEF CallOK
  <2>5. ASSUME NoCut PROVE Valid(cl.off, cl.size) /\ cl.size > 1
    <3>1. capacity = NbSectors
      BY <2>5, <1>2 DEF IInv, DriverWithinStore, NoCut
    <3>2. s \in Nat /\ s < NbSectors
      BY <3>1, <2>1, DiskAssumption
    <3>3. Valid((s * Sector) % Word, Sector)
      BY <3>2, SectorIn
    <3> QED BY <3>3, <2>2, <1>k
  <2> QED BY <2>4, <2>5, <1>2, <1>k
<1>3. CASE p \in Users
  <2>1. cl \in UserCalls
    <3>1. p \notin Testers /\ p # Driver
      BY <1>3, <1>k, DiskAssumption
    <3> QED BY <1>3, <3>1 DEF CallsOf
  <2>2. ACommand(cl)
    BY <2>1, DiskAssumption
  <2>3. p \notin Testers /\ p # Driver
    BY <1>3, <1>k, DiskAssumption
  <2>4. CallOK(p, cl)
    <3>1. CASE cl = Info
      BY <3>1, <1>i
    <3>2. CASE cl.op = "read" /\ cl.size \in Nat \ {0}
      BY <3>2 DEF CallOK
    <3>3. CASE cl.op = "write" /\ cl.size \in 1 .. Page /\ cl.val \in [1 .. cl.size -> Nat]
      <4>1. cl.size \in Nat \ {0}
        BY <3>3, <1>k
      <4>2. IsSeq(cl.val) /\ Len(cl.val) = cl.size
        BY <4>1, <3>3, FunIs
      <4> QED BY <4>1, <4>2, <3>3, <2>3 DEF CallOK
    <3> QED BY <2>2, <3>1, <3>2, <3>3 DEF ACommand
  <2> QED BY <2>3, <2>4
<1>4. CASE p \in Testers
  <2> DEFINE l == last[p].call
             i == page[p]
  <2>1. p # Driver /\ p \notin Users
    BY <1>4, <1>k, DiskAssumption
  <2>2. i < Pages /\ cl = TestCall(p)
    BY <1>4, <2>1 DEF CallsOf
  <2>3. i \in Nat
    BY <1>4 DEF IInv, Typed
  <2>4. l # Nil /\ l.op = "write" => l = TestRec("write", i)
    BY <1>4 DEF IInv, TestersOK, TesterOK
  <2>5. \/ l = Nil /\ cl = Info
        \/ l # Nil /\ l.op = "write" /\ cl = [l EXCEPT !.op = "read"]
        \/ l # Nil /\ l.op # "write" /\ cl = TestRec("write", i)
    BY <2>2 DEF TestCall, TestRec
  <2> HIDE DEF l, i
  <2>6. \/ l = Nil /\ cl = Info
        \/ l # Nil /\ l.op = "write" /\ cl = TestRec("read", i)
        \/ l # Nil /\ cl = TestRec("write", i)
    <3>1. [TestRec("write", i) EXCEPT !.op = "read"] = TestRec("read", i)
      BY DEF TestRec
    <3> QED BY <3>1, <2>4, <2>5
  <2>7. ASSUME NEW op \in {"read", "write"} PROVE CallOK(p, TestRec(op, i)) /\ TestRec(op, i).op = op
    <3> DEFINE t == TestRec(op, i)
    <3>1. t.op = op /\ t.size = Page /\ t.val = Pattern(i)
      BY DEF TestRec
    <3>2. IsSeq(t.val) /\ Len(t.val) = Page
      BY <3>1, <2>3, PatternIs
    <3> HIDE DEF t
    <3>3. CallOK(p, t)
      BY <3>1, <3>2, <2>1, <1>k DEF CallOK
    <3> QED BY <3>1, <3>3 DEF t
  <2>8. CallOK(p, cl)
    BY <2>6, <2>7, <1>i
  <2>9. cl \in {Info, TestRec("write", i), TestRec("read", i)}
    BY <2>6
  <2>10. l # Nil /\ l.op = "read" => cl.op = "write"
    BY <2>6, <2>7
  <2> QED BY <2>1, <2>2, <2>8, <2>9, <2>10 DEF l, i
<1> QED BY <1>1, <1>2, <1>3, <1>4 DEF Clients

\* A client connects: the connection is a fresh one.
LEMMA ConnectStep ==
    ASSUME IInv, NEW p \in Clients, pc[p] = "idle", NEW cl \in CallsOf(p), nconn < MaxConns,
           ~ (p \in Testers /\ conn[p] # 0), Connect(p, cl),
           UNCHANGED <<disk, want, served, writer, streams, shut, page, capacity, asked>>
    PROVE IInv'
<1> DEFINE c == nconn + 1
<1>t. Typed
  BY DEF IInv
<1>d. /\ DOMAIN srv = Conns /\ DOMAIN pc = Clients /\ DOMAIN call = Clients
      /\ conn \in [Clients -> 0 .. nconn] /\ ksocks \in Int /\ fails \in Int /\ nconn \in 0 .. MaxConns
      /\ writer \in [1 .. NbUnits -> 0 .. nconn]
  BY <1>t DEF Typed
<1>a. /\ UNCHANGED <<disk, want, served, writer, up, down, cut, shut, page, capacity, asked, last, fails>>
      /\ nconn' = c
      /\ conn' = [conn EXCEPT ![p] = c]
      /\ srv' = [srv EXCEPT ![c] = "header"]
      /\ ksocks' = IF p = Driver THEN ksocks + 1 ELSE ksocks
      /\ call' = [call EXCEPT ![p] = cl]
      /\ pc' = [pc EXCEPT ![p] = "send"]
  BY DEF Connect, streams, Goto
<1>n. nconn \in Nat /\ MaxConns \in Nat /\ c \in Nat /\ c # 0 /\ c <= MaxConns /\ ~ (c <= nconn)
  BY <1>d, Constants
<1>c. c \in Conns
  BY <1>n, Constants
<1>f. /\ CallOK(p, cl)
      /\ p \in Testers =>
           /\ page[p] < Pages
           /\ cl \in {Info, TestRec("write", page[p]), TestRec("read", page[p])}
           /\ last[p].call # Nil /\ last[p].call.op = "read" => cl.op = "write"
      /\ p = Driver /\ NoCut /\ cl.op = "read" => cl.size > 1 /\ Valid(cl.off, cl.size)
  BY CallsFit
<1>1. /\ ~ shut[c] /\ ~ cut[c]
      /\ up[c] = <<>> /\ down[c] = <<>> /\ asked[c] = <<>> /\ served[c] = <<>>
  BY <1>c, <1>n DEF IInv, Fresh
<1> HIDE DEF c
<1>b. /\ conn'[p] = c /\ srv'[c] = "header" /\ call'[p] = cl /\ pc'[p] = "send"
      /\ \A q \in Clients \ {p} : pc'[q] = pc[q] /\ call'[q] = call[q] /\ conn'[q] = conn[q] /\ last'[q] = last[q]
      /\ \A d \in Conns \ {c} : srv'[d] = srv[d]
  BY <1>a, <1>c, <1>d
<1>2. Typed'
  <2>1. \A k \in 0 .. nconn : k \in 0 .. c
    BY <1>n DEF c
  <2>2. c \in 0 .. MaxConns /\ c \in 0 .. c
    BY <1>n
  <2>3. conn' \in [Clients -> 0 .. c]
    BY <2>1, <2>2, <1>a, <1>d
  <2>4. writer \in [1 .. NbUnits -> 0 .. c]
    BY <2>1, <1>d
  <2>5. DOMAIN srv' = Conns /\ DOMAIN pc' = Clients /\ DOMAIN call' = Clients /\ ksocks' \in Int
    BY <1>a, <1>d
  <2>6. \A q \in Clients : pc'[q] \in Labels /\ last[q].conn \in 0 .. c
    BY <2>1, <1>b, <1>t DEF Typed, Labels
  <2> QED BY <2>2, <2>3, <2>4, <2>5, <2>6, <1>a, <1>t DEF Typed
<1>3. Fresh'
  <2> SUFFICES ASSUME NEW d \in Conns
               PROVE IF d <= c THEN srv'[d] \in {"header", "body", "closed"}
                     ELSE /\ srv'[d] = "none" /\ ~ shut[d] /\ ~ cut[d]
                          /\ up[d] = <<>> /\ down[d] = <<>> /\ asked[d] = <<>> /\ served[d] = <<>>
    BY <1>a DEF Fresh
  <2>1. CASE d = c
    BY <2>1, <1>b, <1>n
  <2>2. CASE d # c
    <3>1. d <= c <=> d <= nconn
      BY <2>2, <1>n, Constants DEF c
    <3> QED BY <3>1, <2>2, <1>b DEF IInv, Fresh
  <2> QED BY <2>1, <2>2
<1>4. Flows'
  <2> SUFFICES ASSUME NEW d \in Conns, ~ cut[d]
               PROVE Flow(asked[d], served[d], up[d], want[d], srv'[d], shut[d])
    BY <1>a DEF Flows
  <2>1. CASE d = c
    <3>1. Flow(<<>>, <<>>, <<>>, want[c], "header", shut[c])
      BY EmptyIs DEF Flow
    <3> QED BY <3>1, <2>1, <1>1, <1>b
  <2>2. CASE d # c
    BY <2>2, <1>b DEF IInv, Flows
  <2> QED BY <2>1, <2>2
<1>5. Moves(p)
  <2>1. \A d \in Conns : d <= nconn => srv'[d] = srv[d]
    BY <1>b, <1>n
  <2>2. conn'[p] = nconn + 1 /\ conn'[p] # 0
    BY <1>b, <1>n DEF c
  <2> QED BY <2>1, <2>2, <1>a, <1>b DEF Moves, CutsStay
<1>6. Left(p)
  <2>1. Talk(p, "send", cl, c, <<>>, <<>>, <<>>, "header", shut[c])
    BY <1>1 DEF Talk
  <2>2. ASSUME p \in Testers PROVE TesterOK(p, "send", cl, last[p], page[p], c)
    <3>1. TesterOK(p, pc[p], call[p], last[p], page[p], conn[p]) /\ conn[p] = 0
      BY <2>2 DEF IInv, TestersOK
    <3>2. last[p].call = Nil
      BY <3>1 DEF TesterOK
    <3> QED BY <3>2, <2>2, <1>f DEF TesterOK
  <2> QED BY <2>1, <2>2, <1>1, <1>a, <1>b, <1>f, <1>n DEF Left
<1>7. Told(p)
  BY <1>a DEF Told
<1>8. DriverOK' /\ DriverPlace' /\ DriverWithinStore' /\ SocketsReleased'
  <2>1. CASE p # Driver
    BY <2>1, <1>5, <1>a, DriverKeeps
  <2>2. CASE p = Driver
    <3>1. NoCut' => NoCut
      BY <1>a DEF NoCut
    <3>2. DriverOK'
      BY <3>1, <2>2, <1>b, <1>f DEF DriverOK
    <3>3. DriverPlace'
      BY <2>2, <1>b, <1>n DEF DriverPlace
    <3>4. DriverWithinStore'
      BY <1>a DEF IInv, DriverWithinStore
    <3>5. conn[Driver] = 0
      BY <2>2 DEF IInv, DriverPlace
    <3>6. ksocks = fails
      BY <3>5, <1>d DEF IInv, SocketsReleased
    <3>7. SocketsReleased'
      BY <3>6, <2>2, <1>a, <1>b, <1>d, <1>n DEF SocketsReleased
    <3> QED BY <3>2, <3>3, <3>4, <3>7
  <2> QED BY <2>1, <2>2
<1> QED BY <1>2, <1>3, <1>4, <1>5, <1>6, <1>7, <1>8, MovesKeep DEF IInv

\* A call that moves nothing but its client: a test thread uses its connection
\* again, or the server is not there.
LEMMA QuietCall ==
    ASSUME IInv, NEW p \in Clients, pc[p] = "idle",
           UNCHANGED <<disk, srv, want, served, writer, up, down, cut, shut, page, capacity, asked, nconn, conn>>,
           \/ /\ p \in Testers /\ conn[p] # 0
              /\ \E cl \in CallsOf(p) : call' = [call EXCEPT ![p] = cl]
              /\ pc' = [pc EXCEPT ![p] = "send"] /\ UNCHANGED <<last, ksocks, fails>>
           \/ p # Driver /\ pc' = [pc EXCEPT ![p] = "exit"] /\ UNCHANGED <<call, last, ksocks, fails>>
           \/ /\ p = Driver /\ pc' = [pc EXCEPT ![p] = "idle"] /\ ksocks' = ksocks + 1 /\ fails' = fails + 1
              /\ \E cl, buf : last' = [last EXCEPT ![p] = [call |-> cl, ret |-> -1, buf |-> buf, conn |-> conn[p]]]
              /\ call' = [call EXCEPT ![p] = Nil]
    PROVE IInv'
<1>t. Typed
  BY DEF IInv
<1>d. /\ DOMAIN pc = Clients /\ DOMAIN call = Clients /\ DOMAIN last = Clients
      /\ conn \in [Clients -> 0 .. nconn] /\ ksocks \in Int /\ fails \in Int
  BY <1>t DEF Typed
<1>k. Driver \notin Testers
  BY Constants
<1>a. /\ DOMAIN pc' = Clients /\ DOMAIN call' = Clients /\ DOMAIN last' = Clients
      /\ ksocks' \in Int /\ fails' \in Int
      /\ pc'[p] \in Labels \ {"recv"}
      /\ \A q \in Clients \ {p} : pc'[q] = pc[q] /\ call'[q] = call[q] /\ last'[q] = last[q]
      /\ last'[p] = last[p] \/ (p = Driver /\ last'[p].conn = conn[p])
  BY <1>d DEF Labels
<1>1. Typed'
  <2>1. \A q \in Clients : pc'[q] \in Labels /\ last'[q].conn \in 0 .. nconn
    BY <1>a, <1>d, <1>t DEF Typed
  <2> QED BY <2>1, <1>a, <1>t DEF Typed
<1>2. Fresh' /\ Flows'
  BY DEF IInv, Fresh, Flows
<1>3. Moves(p)
  BY <1>a DEF Moves, CutsStay
<1>4. p = Driver => conn[p] = 0
  BY DEF IInv, DriverPlace
<1>5. Told(p)
  <2>1. CASE last'[p] = last[p]
    BY <2>1 DEF Told
  <2>2. CASE p = Driver /\ last'[p].conn = conn[p]
    BY <2>2, <1>4, <1>k DEF Told, ReadOn
  <2> QED BY <2>1, <2>2, <1>a
<1>6. ASSUME conn[p] # 0, ~ cut[conn[p]], NEW cl
      PROVE Talk(p, pc'[p], cl, conn[p], asked[conn[p]], served[conn[p]], down[conn[p]],
                 srv[conn[p]], shut[conn[p]])
  <2>1. TalkAt(p, conn[p])
    BY <1>6 DEF IInv, Talks, TalkAt
  <2> QED BY <2>1, <1>a DEF TalkAt, Talk
<1>7. Left(p)
  <2>1. pc'[p] \in {"send", "recv"} => conn[p] # 0 /\ CallOK(p, call'[p])
    <3> SUFFICES ASSUME pc'[p] \in {"send", "recv"} PROVE conn[p] # 0 /\ CallOK(p, call'[p])
      OBVIOUS
    <3>1. conn[p] # 0 /\ \E cl \in CallsOf(p) : call' = [call EXCEPT ![p] = cl]
      BY <1>d
    <3>2. PICK cl \in CallsOf(p) : call'[p] = cl
      BY <3>1, <1>d
    <3> QED BY <3>1, <3>2, CallsFit
  <2>2. ASSUME p \in Testers PROVE TesterOK(p, pc'[p], call'[p], last'[p], page[p], conn[p])
    <3>1. TesterOK(p, "idle", call[p], last[p], page[p], conn[p]) /\ last'[p] = last[p]
      BY <2>2, <1>a, <1>k DEF IInv, TestersOK
    <3>2. CASE pc'[p] = "exit"
      BY <3>1, <3>2 DEF TesterOK
    <3>3. CASE pc'[p] = "send" /\ \E cl \in CallsOf(p) : call' = [call EXCEPT ![p] = cl]
      <4>1. PICK cl \in CallsOf(p) : call'[p] = cl
        BY <3>3, <1>d
      <4>2. /\ page[p] < Pages
            /\ cl \in {Info, TestRec("write", page[p]), TestRec("read", page[p])}
            /\ last[p].call # Nil /\ last[p].call.op = "read" => cl.op = "write"
        BY <2>2, CallsFit
      <4> QED BY <4>1, <4>2, <3>1, <3>3 DEF TesterOK
    <3> QED BY <3>2, <3>3, <2>2, <1>d, <1>k
  <2> QED BY <2>1, <2>2, <1>6 DEF Left
<1>8. DriverOK' /\ DriverPlace' /\ DriverWithinStore' /\ SocketsReleased'
  <2>1. CASE p # Driver
    BY <2>1, <1>3, DriverKeeps
  <2>2. CASE p = Driver
    <3>1. pc'[p] = "idle" /\ last'[p].conn = 0 /\ ksocks' = ksocks + 1 /\ fails' = fails + 1
      BY <2>2, <1>4, <1>d, <1>k
    <3>2. DriverOK' /\ DriverPlace'
      BY <3>1, <2>2, <1>4 DEF DriverOK, DriverPlace
    <3>3. DriverWithinStore'
      BY <3>1, <2>2 DEF IInv, DriverWithinStore
    <3>4. SocketsReleased'
      BY <3>1, <2>2, <1>4, <1>d DEF IInv, SocketsReleased
    <3> QED BY <3>2, <3>3, <3>4
  <2> QED BY <2>1, <2>2
<1> QED BY <1>1, <1>2, <1>3, <1>5, <1>7, <1>8, MovesKeep DEF IInv

LEMMA CallStep == ASSUME IInv, NEW p \in Clients, NEW cl \in CallsOf(p), Call(p, cl) PROVE IInv'
<1>1. /\ pc[p] = "idle" /\ nconn < MaxConns
      /\ UNCHANGED <<disk, want, served, writer, streams, shut, page, capacity, asked>>
  BY DEF Call
<1>2. UNCHANGED <<up, down, cut>>
  BY <1>1 DEF streams
<1>3. CASE p \in Testers /\ conn[p] # 0
  <2>1. /\ call' = [call EXCEPT ![p] = cl] /\ pc' = [pc EXCEPT ![p] = "send"]
        /\ UNCHANGED <<last, nconn, conn, srv, ksocks, fails>>
    BY <1>3 DEF Call, Goto
  <2> QED BY <1>1, <1>2, <1>3, <2>1, QuietCall
<1>4. CASE ~ (p \in Testers /\ conn[p] # 0) /\ Connect(p, cl)
  BY <1>1, <1>4, ConnectStep
<1>5. CASE ~ (p \in Testers /\ conn[p] # 0) /\ ConnectFails(p, cl)
  <2>1. UNCHANGED <<nconn, conn, srv>>
    BY <1>5 DEF ConnectFails
  <2>2. CASE p = Driver
    <3>1. /\ ksocks' = ksocks + 1 /\ fails' = fails + 1 /\ pc' = [pc EXCEPT ![p] = "idle"]
          /\ last' = [last EXCEPT ![p] = [call |-> cl, ret |-> -1, buf |-> <<>>, conn |-> conn[p]]]
          /\ call' = [call EXCEPT ![p] = Nil]
      BY <1>5, <2>2 DEF ConnectFails, Return, Goto
    <3>2. \E x, buf : last' = [last EXCEPT ![p] = [call |-> x, ret |-> -1, buf |-> buf, conn |-> conn[p]]]
      BY <3>1
    <3> QED BY <1>1, <1>2, <2>1, <2>2, <3>1, <3>2, QuietCall
  <2>3. CASE p # Driver
    <3>1. pc' = [pc EXCEPT ![p] = "exit"] /\ UNCHANGED <<ksocks, fails, last, call>>
      BY <1>5, <2>3 DEF ConnectFails, Goto
    <3> QED BY <1>1, <1>2, <2>1, <2>3, <3>1, QuietCall
  <2> QED BY <2>2, <2>3
<1> QED BY <1>3, <1>4, <1>5 DEF Call

-----------------------------------------------------------------------------
(***************************************************************************)
(* The theorems.                                                           *)
(***************************************************************************)
LEMMA Inits == Init => IInv
<1> SUFFICES ASSUME Init PROVE IInv
  OBVIOUS
<1>k. MaxConns \in Nat /\ NbUnits \in Nat /\ Driver \in Clients /\ Testers \subseteq Clients /\ Conns = 1 .. MaxConns
  BY Constants
<1>a. /\ srv = [c \in Conns |-> "none"] /\ want = [c \in Conns |-> 0]
      /\ up = [c \in Conns |-> <<>>] /\ down = up /\ asked = up /\ served = up
      /\ shut = [c \in Conns |-> FALSE] /\ cut = shut
      /\ pc = [p \in Clients |-> "idle"] /\ call = [p \in Clients |-> Nil] /\ conn = [p \in Clients |-> 0]
      /\ last = [p \in Clients |-> None] /\ page = [p \in Testers |-> 0]
      /\ capacity = -1 /\ nconn = 0 /\ fails = 0 /\ ksocks = 0
  BY DEF Init
<1>b. None.call = Nil /\ None.conn = 0
  BY DEF None
<1>w. writer \in [1 .. NbUnits -> 0 .. 0]
  BY DEF Init, Rep
<1>1. Typed
  BY <1>a, <1>b, <1>k, <1>w DEF Typed, Labels
<1>2. Fresh
  BY <1>a, <1>k DEF Fresh
<1>3. OneOwner /\ Talks /\ Busy /\ PagesOK
  BY <1>a, <1>k DEF OneOwner, Talks, Busy, PagesOK
<1>4. Flows
  <2>1. \A w, sh : Flow(<<>>, <<>>, <<>>, w, "none", sh)
    BY EmptyIs DEF Flow
  <2> QED BY <2>1, <1>a DEF Flows
<1>5. TestersOK
  BY <1>a, <1>b, <1>k DEF TestersOK, TesterOK
<1>6. OwnData /\ OwnPage
  BY <1>a, <1>b, <1>k DEF OwnData, OwnPage
<1>7. DriverOK /\ DriverPlace /\ DriverWithinStore
  BY <1>a, <1>b, <1>k DEF DriverOK, DriverPlace, DriverWithinStore
<1>8. SocketsReleased
  BY <1>a, <1>k DEF SocketsReleased
<1> QED BY <1>1, <1>2, <1>3, <1>4, <1>5, <1>6, <1>7, <1>8 DEF IInv

LEMMA Steps == IInv /\ [Next]_vars => IInv'
<1> SUFFICES ASSUME IInv, [Next]_vars PROVE IInv'
  OBVIOUS
<1>1. CASE \E p \in Clients : ClientStep(p) \/ \E cl \in CallsOf(p) : Call(p, cl)
  BY <1>1, SendStep, ReceiveStep, ReceiveNothingStep, CallStep DEF ClientStep
<1>2. CASE \E c \in Conns : ServerStep(c)
  BY <1>2, HeaderStep, BodyStep DEF ServerStep
<1>3. CASE DriverExit
  <2>1. /\ capacity' = -1
        /\ UNCHANGED <<disk, old, srv, want, served, writer, streams, shut, pc, call, last, page, conn,
                       ksocks, nconn, fails, asked>>
    BY <1>3 DEF DriverExit, server
  <2> QED BY <2>1, AllKeep
<1>4. CASE Die
  BY <1>4, GoneStep DEF Die
<1>5. CASE Restart
  <2>1. /\ capacity' = capacity
        /\ UNCHANGED <<disk, old, srv, want, served, writer, streams, shut, pc, call, last, page, conn,
                       ksocks, nconn, fails, asked>>
    BY <1>5 DEF Restart, client
  <2> QED BY <2>1, AllKeep
<1>6. CASE UNCHANGED vars
  <2>1. /\ capacity' = capacity
        /\ UNCHANGED <<disk, old, srv, want, served, writer, streams, shut, pc, call, last, page, conn,
                       ksocks, nconn, fails, asked>>
    BY <1>6 DEF vars, server, client
  <2> QED BY <2>1, AllKeep
<1> QED BY <1>1, <1>2, <1>3, <1>4, <1>5, <1>6 DEF Next

\* The inductive invariant of the clients, the streams and the server's threads
\* (tcp.c, sawa.c, sawa_client_interface.cpp and SawaServer::readData).
THEOREM Invariant == Spec => []IInv
BY Inits, Steps, PTL DEF Spec

\* As long as no read of a connection is cut, readData finds the messages of its
\* client one by one, whole and in order.
THEOREM ServedAsSentTheorem == Spec => []ServedAsSent
<1>1. IInv => ServedAsSent
  BY DEF IInv, Flows, Flow, ServedAsSent
<1> QED BY <1>1, Invariant, PTL

\* A read that is not cut returns what the server answered to this very request
\* (sawa_read_data, sendReadCmd), and a test thread reads back the page it wrote
\* (threadTest), unless another connection wrote there.
THEOREM ReadOutcomeTheorem == Spec => []ReadOutcome
<1>1. IInv => ReadOutcome
  BY DEF IInv, ReadOutcome
<1> QED BY <1>1, Invariant, PTL

\* If no answer was ever cut, the driver knows the size of the server's file, asks
\* only for what lies within it, and fails only when it cannot connect.
THEOREM DriverWithinStoreTheorem == Spec => []DriverWithinStore
<1>1. IInv => DriverWithinStore
  BY DEF IInv
<1> QED BY <1>1, Invariant, PTL

\* The driver releases its socket with every call that got a connection, and
\* leaks exactly the ones with which it could not connect.
THEOREM SocketsReleasedTheorem == Spec => []SocketsReleased
<1>1. IInv => SocketsReleased
  BY DEF IInv
<1> QED BY <1>1, Invariant, PTL
=============================================================================
