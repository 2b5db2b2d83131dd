---------------------------- MODULE StrPairProofs ---------------------------
(***************************************************************************)
(* The safety properties of StrPair, for every string: the decoding in     *)
(* place stays behind itself and in its buffer, and what is printed is     *)
(* read back.                                                              *)
(***************************************************************************)
EXTENDS StrPair, SequenceTheorems, TLAPS

-----------------------------------------------------------------------------
(***************************************************************************)
(* What the operators do.                                                  *)
(***************************************************************************)
\* Put changes the bytes from at on, as many as there are, and no others.
LEMMA PutChanges ==
    ASSUME NEW s \in Seq(Byte), NEW at \in Nat \ {0}, NEW bytes \in Seq(Byte)
    PROVE  /\ Put(s, at, bytes) \in Seq(Byte)
           /\ Len(Put(s, at, bytes)) = Len(s)
           /\ \A i \in 1 .. Len(s) :
                Put(s, at, bytes)[i] =
                  IF i \in at .. at + Len(bytes) - 1 THEN bytes[i - at + 1] ELSE s[i]
<1> DEFINE r == [i \in 1 .. Len(s) |->
                   IF i \in at .. at + Len(bytes) - 1 THEN bytes[i - at + 1] ELSE s[i]]
<1>1. ASSUME NEW i \in 1 .. Len(s)
      PROVE  (IF i \in at .. at + Len(bytes) - 1 THEN bytes[i - at + 1] ELSE s[i]) \in Byte
  BY <1>1
<1>2. r \in [1 .. Len(s) -> Byte]
  BY <1>1
<1>3. Len(s) \in Nat
  OBVIOUS
<1>4. r \in Seq(Byte) /\ Len(r) = Len(s)
  <2>1. r \in Seq(Byte)
    BY <1>2, <1>3, IsASeq
  <2>2. Len(r) \in Nat /\ DOMAIN r = 1 .. Len(r) /\ DOMAIN r = 1 .. Len(s)
    BY <2>1, LenProperties
  <2> QED
    BY <2>1, <2>2, <1>3
<1>5. \A i \in 1 .. Len(s) :
        r[i] = IF i \in at .. at + Len(bytes) - 1 THEN bytes[i - at + 1] ELSE s[i]
  OBVIOUS
<1>6. Put(s, at, bytes) = r
  BY DEF Put
<1> HIDE DEF r
<1> QED
  BY <1>4, <1>5, <1>6

\* Low and High split a number.
LEMMA LowHigh ==
    ASSUME NEW u \in Nat
    PROVE  High(u) \in Nat /\ Low(u) \in 128 .. 191 /\ u = 64 * High(u) + (Low(u) - 128)
BY SMT DEF High, Low

\* A code point becomes at most four bytes, and zero becomes one; below 2^21 the
\* bytes stand for the code point, and are as few as possible.
THEOREM Utf8RoundTrip ==
    ASSUME NEW u \in Nat
    PROVE  LET bs == ConvertUTF32ToUTF8(u) IN
           /\ bs \in Seq(Byte)
           /\ u >= 2097152 => bs = <<>>
           /\ u < 2097152 =>
                /\ Utf8Value(bs) = u
                /\ \A i \in 2 .. Len(bs) : bs[i] \in 128 .. 191
                /\ Len(bs) = IF u < 128 THEN 1 ELSE IF u < 2048 THEN 2
                             ELSE IF u < 65536 THEN 3 ELSE 4
<1> DEFINE v == High(u)
           w == High(v)
           x == High(w)
           lu == Low(u)
           lv == Low(v)
           lw == Low(w)
<1>1. v \in Nat /\ lu \in 128 .. 191 /\ u = 64 * v + (lu - 128)
  BY LowHigh
<1>2. w \in Nat /\ lv \in 128 .. 191 /\ v = 64 * w + (lv - 128)
  BY <1>1, LowHigh
<1>3. x \in Nat /\ lw \in 128 .. 191 /\ w = 64 * x + (lw - 128)
  BY <1>2, LowHigh
<1>4. ConvertUTF32ToUTF8(u) =
        IF u < 128 THEN <<u>>
        ELSE IF u < 2048 THEN <<192 + v, lu>>
        ELSE IF u < 65536 THEN <<224 + w, lv, lu>>
        ELSE IF u < 2097152 THEN <<240 + x, lw, lv, lu>>
        ELSE <<>>
  BY DEF ConvertUTF32ToUTF8
<1> HIDE DEF v, w, x, lu, lv, lw
<1>5. CASE u < 128
  <2>1. ConvertUTF32ToUTF8(u) = <<u>>
    BY SMT, <1>4, <1>5
  <2>2. <<u>> \in Seq(Byte) /\ Len(<<u>>) = 1 /\ Utf8Value(<<u>>) = u
    BY SMT, <1>5 DEF Byte, Utf8Value
  <2> QED
    BY SMT, <2>1, <2>2, <1>5
<1>6. CASE u >= 128 /\ u < 2048
  <2> DEFINE bs == <<192 + v, lu>>
  <2>1. ConvertUTF32ToUTF8(u) = bs
    BY SMT, <1>4, <1>6
  <2>2. v <= 31
    BY SMT, <1>1, <1>6
  <2>3. bs \in Seq(Byte) /\ Len(bs) = 2 /\ bs[1] = 192 + v /\ bs[2] = lu
    BY SMT, <1>1, <2>2 DEF Byte
  <2> HIDE DEF bs
  <2>4. Utf8Value(bs) = u
    BY SMT, <2>3, <1>1 DEF Utf8Value
  <2>5. ASSUME NEW i \in 2 .. Len(bs)
        PROVE  bs[i] \in 128 .. 191
    <3>1. i = 2
      BY SMT, <2>3
    <3> QED
      BY <3>1, <2>3, <1>1
  <2> QED
    BY SMT, <2>1, <2>3, <2>4, <2>5, <1>6
<1>7. CASE u >= 2048 /\ u < 65536
  <2> DEFINE bs == <<224 + w, lv, lu>>
  <2>1. ConvertUTF32ToUTF8(u) = bs
    BY SMT, <1>4, <1>7
  <2>2. w <= 15
    BY SMT, <1>1, <1>2, <1>7
  <2>3. bs \in Seq(Byte) /\ Len(bs) = 3 /\ bs[1] = 224 + w /\ bs[2] = lv /\ bs[3] = lu
    BY SMT, <1>1, <1>2, <2>2 DEF Byte
  <2> HIDE DEF bs
  <2>4. Utf8Value(bs) = u
    BY SMT, <2>3, <1>1, <1>2 DEF Utf8Value
  <2>5. ASSUME NEW i \in 2 .. Len(bs)
        PROVE  bs[i] \in 128 .. 191
    <3>1. i = 2 \/ i = 3
      BY SMT, <2>3
    <3> QED
      BY <3>1, <2>3, <1>1, <1>2
  <2> QED
    BY SMT, <2>1, <2>3, <2>4, <2>5, <1>7
<1>8. CASE u >= 65536 /\ u < 2097152
  <2> DEFINE bs == <<240 + x, lw, lv, lu>>
  <2>1. ConvertUTF32ToUTF8(u) = bs
    BY SMT, <1>4, <1>8
  <2>2. x <= 7
    BY SMT, <1>1, <1>2, <1>3, <1>8
  <2>3. /\ bs \in Seq(Byte) /\ Len(bs) = 4
        /\ bs[1] = 240 + x /\ bs[2] = lw /\ bs[3] = lv /\ bs[4] = lu
    BY SMT, <1>1, <1>2, <1>3, <2>2 DEF Byte
  <2> HIDE DEF bs
  <2>4. Utf8Value(bs) = u
    BY SMT, <2>3, <1>1, <1>2, <1>3 DEF Utf8Value
  <2>5. ASSUME NEW i \in 2 .. Len(bs)
        PROVE  bs[i] \in 128 .. 191
    <3>1. i = 2 \/ i = 3 \/ i = 4
      BY SMT, <2>3
    <3> QED
      BY <3>1, <2>3, <1>1, <1>2, <1>3
  <2> QED
    BY SMT, <2>1, <2>3, <2>4, <2>5, <1>8
<1>9. CASE u >= 2097152
  <2>1. ConvertUTF32ToUTF8(u) = <<>>
    BY SMT, <1>4, <1>9
  <2> QED
    BY SMT, <2>1, <1>9
<1> QED
  BY SMT, <1>5, <1>6, <1>7, <1>8, <1>9

\* So a reference gives at most four bytes, and one for zero.
LEMMA Utf8Short ==
    ASSUME NEW u \in Nat
    PROVE  /\ ConvertUTF32ToUTF8(u) \in Seq(Byte)
           /\ Len(ConvertUTF32ToUTF8(u)) \in 0 .. 4
           /\ u = 0 => Len(ConvertUTF32ToUTF8(u)) = 1
<1>1. ConvertUTF32ToUTF8(u) \in Seq(Byte)
  BY SMT, Utf8RoundTrip
<1>2. CASE u >= 2097152
  <2>1. ConvertUTF32ToUTF8(u) = <<>>
    BY SMT, <1>2, Utf8RoundTrip
  <2> QED
    BY SMT, <1>2, <2>1
<1>3. CASE u < 2097152
  <2>1. Len(ConvertUTF32ToUTF8(u)) =
          IF u < 128 THEN 1 ELSE IF u < 2048 THEN 2 ELSE IF u < 65536 THEN 3 ELSE 4
    BY SMT, <1>3, Utf8RoundTrip
  <2> QED
    BY SMT, <1>1, <2>1
<1> QED
  BY SMT, <1>1, <1>2, <1>3

-----------------------------------------------------------------------------
(***************************************************************************)
(* The buffer.  FlowInv says how the two pointers and the bytes lie, and   *)
(* that the null byte at the end is never passed; RefInv that the pointer  *)
(* of GetCharacterRef stays between the mark and the ";".                  *)
(***************************************************************************)
FlowInv ==
    /\ pc \in {"print", "parse"} => q = 1
    /\ pc \in {"flush", "digits", "trim", "collapse"} =>
         Len(src) > 0 /\ src[Len(src)] = NUL /\ Len(b) = Len(src)
    /\ pc = "trim" => b = src
    /\ WritesBehindReads

RefInv ==
    pc = "digits" =>
    /\ b[p + 1] = HASH
    /\ p + (IF Hex THEN 2 ELSE 1) <= ref.at
    /\ ref.at <= ref.to - 2 /\ ref.to <= Len(b)
    /\ ref.at = ref.to - 2 => ref.ucs = 0

BufferInv == job \in Jobs /\ TypeOK /\ FlowInv /\ RefInv

\* What the inductive steps need to know of the bytes that are still unread.
LEMMA Unread ==
    ASSUME TypeOK, FlowInv, pc \in {"flush", "digits", "collapse"}
    PROVE  /\ p \in Nat \ {0} /\ q \in Nat \ {0} /\ q <= p /\ p <= Len(b)
           /\ Len(b) = Len(src) /\ Len(b) \in Nat \ {0}
           /\ b[Len(b)] = NUL
           /\ \A i \in p .. Len(b) : b[i] \in Byte /\ b[i] = src[i]
           /\ \A i \in p .. Len(b) : b[i] # NUL => i < Len(b)
<1>1. /\ p \in Nat \ {0} /\ q \in Nat \ {0} /\ q <= p /\ p <= Len(b)
      /\ Len(b) = Len(src) /\ Len(b) \in Nat \ {0} /\ src[Len(src)] = NUL
      /\ \A i \in p .. Len(b) : b[i] = src[i]
  BY DEF TypeOK, FlowInv, WritesBehindReads
<1>2. b[Len(b)] = NUL
  BY <1>1
<1>3. \A i \in p .. Len(b) : b[i] \in Byte
  BY <1>1 DEF TypeOK
<1>4. \A i \in p .. Len(b) : b[i] # NUL => i < Len(b)
  BY <1>1, <1>2
<1> QED
  BY <1>1, <1>2, <1>3, <1>4

\* Emit keeps the pointers and the unread bytes in order, if it writes no further
\* than the place where the reading goes on.
LEMMA EmitKeeps ==
    ASSUME TypeOK, FlowInv, pc \in {"flush", "digits", "collapse"},
           NEW bytes \in Seq(Byte), NEW to \in Nat,
           p <= to, to <= Len(b), q + Len(bytes) <= to,
           Emit(bytes, to)
    PROVE  /\ b' \in Seq(Byte) /\ Len(b') = Len(b)
           /\ p' \in Nat \ {0} /\ q' \in Nat \ {0}
           /\ q' <= p' /\ p' <= Len(b')
           /\ \A i \in p' .. Len(b') : b'[i] = src[i]
<1>1. /\ p \in Nat \ {0} /\ q \in Nat \ {0} /\ q <= p /\ p <= Len(b)
      /\ Len(b) = Len(src) /\ Len(b) \in Nat
      /\ \A i \in p .. Len(b) : b[i] = src[i]
  BY Unread
<1>2. b \in Seq(Byte)
  BY DEF TypeOK
<1>3. b' = Put(b, q, bytes) /\ q' = q + Len(bytes) /\ p' = to
  BY DEF Emit
<1>4. /\ b' \in Seq(Byte) /\ Len(b') = Len(b)
      /\ \A i \in 1 .. Len(b) :
           b'[i] = IF i \in q .. q + Len(bytes) - 1 THEN bytes[i - q + 1] ELSE b[i]
  BY <1>1, <1>2, <1>3, PutChanges
<1>5. Len(bytes) \in Nat
  OBVIOUS
<1>6. \A i \in to .. Len(b) : b'[i] = b[i] /\ b[i] = src[i]
  BY <1>1, <1>4, <1>5
<1> QED
  BY <1>1, <1>3, <1>4, <1>5, <1>6

\* A step of the loop of GetStr that emits and goes on in the loop.
LEMMA FlushStep ==
    ASSUME BufferInv, pc \in {"flush", "digits"},
           NEW bytes \in Seq(Byte), NEW to \in Nat,
           p <= to, to <= Len(b), q + Len(bytes) <= to,
           Emit(bytes, to),
           pc' = "flush", ref' \in [at : Nat, to : Nat, mult : Nat, ucs : Nat],
           UNCHANGED <<job, text, start, src>>
    PROVE  BufferInv'
<1>1. /\ b' \in Seq(Byte) /\ Len(b') = Len(b)
      /\ p' \in Nat \ {0} /\ q' \in Nat \ {0}
      /\ q' <= p' /\ p' <= Len(b')
      /\ \A i \in p' .. Len(b') : b'[i] = src[i]
  BY EmitKeeps DEF BufferInv
<1>2. TypeOK'
  BY <1>1 DEF BufferInv, TypeOK
<1>3. Len(src) > 0 /\ src[Len(src)] = NUL /\ Len(b) = Len(src)
  BY DEF BufferInv, FlowInv
<1>4. FlowInv'
  BY <1>1, <1>3 DEF FlowInv, WritesBehindReads
<1>5. RefInv'
  BY DEF RefInv
<1> QED
  BY <1>2, <1>4, <1>5 DEF BufferInv

\* What the rules about jobs say of the one at hand.
LEMMA JobType ==
    ASSUME job \in Jobs
    PROVE  /\ job.s \in Seq(1 .. 255) /\ job.end \in {LT, QUOT, APOS}
           /\ job.print \in BOOLEAN /\ job.closed \in BOOLEAN
           /\ job.entities \in BOOLEAN /\ job.collapse \in BOOLEAN
           /\ job.print => job.closed /\ job.entities /\ job.end # APOS
BY JobsAssumption

\* The table of entities: small letters, two to four of them.
LEMMA EntityForm ==
    ASSUME NEW e \in Entities
    PROVE  /\ e[1] \in Seq(1 .. 255) /\ Len(e[1]) \in 2 .. 4
           /\ \A i \in 1 .. Len(e[1]) : e[1][i] \in 97 .. 122
           /\ e[2] \in {QUOT, AMP, APOS, LT, GT}
<1>1. \/ e = <<<<113, 117, 111, 116>>, QUOT>> \/ e = <<<<97, 109, 112>>, AMP>>
      \/ e = <<<<97, 112, 111, 115>>, APOS>> \/ e = <<<<108, 116>>, LT>>
      \/ e = <<<<103, 116>>, GT>>
  BY DEF Entities
<1>2. CASE e = <<<<113, 117, 111, 116>>, QUOT>>
  BY <1>2, SMT
<1>3. CASE e = <<<<97, 109, 112>>, AMP>>
  BY <1>3, SMT
<1>4. CASE e = <<<<97, 112, 111, 115>>, APOS>>
  BY <1>4, SMT
<1>5. CASE e = <<<<108, 116>>, LT>>
  BY <1>5, SMT
<1>6. CASE e = <<<<103, 116>>, GT>>
  BY <1>6, SMT
<1> QED
  BY <1>1, <1>2, <1>3, <1>4, <1>5, <1>6

\* Every character that is escaped is one of the table.
LEMMA PrintedIs ==
    ASSUME NEW c \in 1 .. 255, NEW restricted \in BOOLEAN
    PROVE  \/ c \notin EntityFlags(restricted) /\ Printed(c, restricted) = <<c>>
           \/ \E e \in Entities :
                /\ e[2] = c /\ c \in EntityFlags(restricted)
                /\ Printed(c, restricted) = <<AMP>> \o e[1] \o <<SEMI>>
<1>1. CASE c \notin EntityFlags(restricted)
  BY <1>1 DEF Printed
<1>2. CASE c \in EntityFlags(restricted)
  <2>1. \E e \in Entities : e[2] = c
    BY <1>2 DEF EntityFlags, Entities, QUOT, AMP, APOS, LT, GT
  <2> DEFINE e == CHOOSE e \in Entities : e[2] = c
  <2>2. e \in Entities /\ e[2] = c
    BY <2>1
  <2>3. Printed(c, restricted) = <<AMP>> \o e[1] \o <<SEMI>>
    BY <1>2 DEF Printed, Pattern
  <2> HIDE DEF e
  <2> QED
    BY <1>2, <2>2, <2>3
<1> QED
  BY <1>1, <1>2

\* A sequence between two elements.
LEMMA Between ==
    ASSUME NEW S, NEW s \in Seq(S), NEW x \in S, NEW y \in S,
           NEW cs, cs = <<x>> \o s \o <<y>>
    PROVE  /\ cs \in Seq(S) /\ Len(cs) = Len(s) + 2
           /\ cs[1] = x /\ cs[Len(s) + 2] = y
           /\ \A i \in 2 .. Len(s) + 1 : cs[i] = s[i - 1]
<1> DEFINE t == <<x>> \o s
<1>1. <<x>> \in Seq(S) /\ Len(<<x>>) = 1 /\ <<x>>[1] = x /\ <<y>> \in Seq(S) /\ Len(<<y>>) = 1 /\ <<y>>[1] = y
  OBVIOUS
<1>2. Len(s) \in Nat
  OBVIOUS
<1>3. /\ t \in Seq(S) /\ Len(t) = Len(s) + 1
      /\ \A i \in 1 .. Len(t) : t[i] = IF i <= 1 THEN <<x>>[i] ELSE s[i - 1]
  BY <1>1, <1>2, ConcatProperties
<1>4. cs = t \o <<y>>
  OBVIOUS
<1> HIDE DEF t
<1>5. /\ cs \in Seq(S) /\ Len(cs) = Len(t) + 1
      /\ \A i \in 1 .. Len(cs) : cs[i] = IF i <= Len(t) THEN t[i] ELSE <<y>>[i - Len(t)]
  BY <1>1, <1>3, <1>4, ConcatProperties
<1> QED
  BY <1>1, <1>2, <1>3, <1>4, <1>5

\* What is printed for a character: bytes, none of which is the end tag.
LEMMA PrintedChars ==
    ASSUME NEW c \in 1 .. 255, NEW restricted \in BOOLEAN
    PROVE  LET cs == Printed(c, restricted) IN
           /\ cs \in Seq(1 .. 255)
           /\ \A i \in 1 .. Len(cs) : cs[i] # IF restricted THEN LT ELSE QUOT
<1>1. CASE c \notin EntityFlags(restricted) /\ Printed(c, restricted) = <<c>>
  <2>1. c # IF restricted THEN LT ELSE QUOT
    BY <1>1 DEF EntityFlags
  <2> QED
    BY <1>1, <2>1
<1>2. ASSUME NEW e \in Entities, Printed(c, restricted) = <<AMP>> \o e[1] \o <<SEMI>>
      PROVE  LET cs == Printed(c, restricted) IN
             /\ cs \in Seq(1 .. 255)
             /\ \A i \in 1 .. Len(cs) : cs[i] # IF restricted THEN LT ELSE QUOT
  <2> DEFINE es == e[1]
             cs == <<AMP>> \o es \o <<SEMI>>
  <2>1. es \in Seq(1 .. 255) /\ Len(es) \in Nat /\ \A i \in 1 .. Len(es) : es[i] \in 97 .. 122
    BY EntityForm
  <2> HIDE DEF es
  <2>2. /\ cs \in Seq(1 .. 255) /\ Len(cs) = Len(es) + 2
        /\ cs[1] = AMP /\ cs[Len(es) + 2] = SEMI
        /\ \A i \in 2 .. Len(es) + 1 : cs[i] = es[i - 1]
    <3>1. AMP \in 1 .. 255 /\ SEMI \in 1 .. 255
      BY DEF AMP, SEMI
    <3> QED
      BY <2>1, <3>1, Between
  <2> HIDE DEF cs
  <2>3. AMP \notin {LT, QUOT} /\ SEMI \notin {LT, QUOT} /\ \A x \in 97 .. 122 : x \notin {LT, QUOT}
    BY DEF AMP, SEMI, LT, QUOT
  <2>4. ASSUME NEW i \in 1 .. Len(cs)
        PROVE  cs[i] # IF restricted THEN LT ELSE QUOT
    <3>1. i = 1 \/ i = Len(es) + 2 \/ (i \in 2 .. Len(es) + 1 /\ i - 1 \in 1 .. Len(es))
      BY <2>1, <2>2
    <3>2. CASE i = 1
      BY <3>2, <2>2, <2>3
    <3>3. CASE i = Len(es) + 2
      BY <3>3, <2>2, <2>3
    <3>4. CASE i \in 2 .. Len(es) + 1 /\ i - 1 \in 1 .. Len(es)
      <4>1. cs[i] = es[i - 1] /\ es[i - 1] \in 97 .. 122
        BY <3>4, <2>1, <2>2
      <4> QED
        BY <4>1, <2>3
    <3> QED
      BY <3>1, <3>2, <3>3, <3>4
  <2>5. Printed(c, restricted) = cs
    BY <1>2 DEF cs, es
  <2> QED
    BY <2>2, <2>4, <2>5
<1> QED
  BY <1>1, <1>2, PrintedIs

-----------------------------------------------------------------------------
(***************************************************************************)
(* BufferInv is inductive: one lemma for each action.                      *)
(***************************************************************************)
LEMMA InitBuffer == Init => BufferInv
<1> SUFFICES ASSUME Init
             PROVE  BufferInv
  OBVIOUS
<1>1. job \in Jobs
  BY DEF Init
<1>2. TypeOK
  BY <1>1, JobType DEF Init, TypeOK, Byte, NUL, NoRef
<1>3. FlowInv
  BY DEF Init, FlowInv, WritesBehindReads
<1>4. RefInv
  BY DEF Init, RefInv
<1> QED
  BY <1>1, <1>2, <1>3, <1>4 DEF BufferInv

LEMMA PrintStringBuffer == BufferInv /\ PrintString => BufferInv'
<1> SUFFICES ASSUME BufferInv, PrintString
             PROVE  BufferInv'
  OBVIOUS
<1>1. /\ pc = "print" /\ pc' \in {"print", "parse"}
      /\ UNCHANGED <<job, b, start, q, ref, src>>
  BY DEF PrintString
<1>2. text' \in Seq(1 .. 255) /\ p' \in Nat \ {0}
  <2>1. CASE p <= Len(job.s)
    <3>1. job.s \in Seq(1 .. 255) /\ p \in 1 .. Len(job.s)
      BY <2>1, JobType DEF BufferInv, TypeOK
    <3>2. job.s[p] \in 1 .. 255
      BY <3>1, ElementOfSeq
    <3>3. (job.end = LT) \in BOOLEAN
      OBVIOUS
    <3>4. Printed(job.s[p], job.end = LT) \in Seq(1 .. 255)
      BY <3>2, <3>3, PrintedChars
    <3>5. text' = text \o Printed(job.s[p], job.end = LT) /\ p' = p + 1
      BY <2>1 DEF PrintString
    <3> QED
      BY <3>4, <3>5, ConcatProperties DEF BufferInv, TypeOK
  <2>2. CASE ~ (p <= Len(job.s))
    BY <2>2 DEF PrintString, BufferInv, TypeOK
  <2> QED
    BY <2>1, <2>2
<1>3. TypeOK'
  BY <1>1, <1>2 DEF BufferInv, TypeOK
<1>4. FlowInv'
  BY <1>1 DEF BufferInv, FlowInv, WritesBehindReads
<1>5. RefInv'
  BY <1>1 DEF RefInv
<1> QED
  BY <1>1, <1>3, <1>4, <1>5 DEF BufferInv

\* The text that ParseText looks at: a C string.
LEMMA WholeText ==
    ASSUME BufferInv, NEW whole, whole = IF job.closed THEN Append(text, job.end) ELSE text
    PROVE  whole \in Seq(1 .. 255)
<1>1. job.end \in 1 .. 255 /\ text \in Seq(1 .. 255)
  BY JobType DEF BufferInv, TypeOK, LT, QUOT, APOS
<1> QED
  BY <1>1

LEMMA ParseTextBuffer == BufferInv /\ ParseText => BufferInv'
<1> SUFFICES ASSUME BufferInv, ParseText
             PROVE  BufferInv'
  OBVIOUS
<1> DEFINE whole == IF job.closed THEN Append(text, job.end) ELSE text
<1>1. /\ pc = "parse"
      /\ \/ \E n \in StrChr(whole, 1, job.end) :
              /\ b' = Append(SubSeq(whole, 1, n - 1), NUL) /\ src' = b'
              /\ p' = 1 /\ pc' = "flush"
         \/ pc' = "error" /\ UNCHANGED <<b, src, p>>
      /\ UNCHANGED <<job, text, start, q, ref>>
  BY DEF ParseText
<1>2. whole \in Seq(1 .. 255)
  BY WholeText
<1> HIDE DEF whole
<1>3. CASE pc' = "error" /\ UNCHANGED <<b, src, p>>
  <2>1. TypeOK'
    BY <1>1, <1>3 DEF BufferInv, TypeOK
  <2>2. FlowInv'
    BY <1>1, <1>3 DEF FlowInv, WritesBehindReads
  <2>3. RefInv'
    BY <1>3 DEF RefInv
  <2> QED
    BY <1>1, <2>1, <2>2, <2>3 DEF BufferInv
<1>4. ASSUME NEW n \in StrChr(whole, 1, job.end),
             b' = Append(SubSeq(whole, 1, n - 1), NUL), src' = b', p' = 1, pc' = "flush"
      PROVE  BufferInv'
  <2> DEFINE t == SubSeq(whole, 1, n - 1)
  <2>1. n \in 1 .. Len(whole)
    BY DEF StrChr
  <2>2. whole \in Seq(Byte)
    BY <1>2, SeqMonotonic DEF Byte
  <2>3. t \in Seq(Byte) /\ Len(t) = n - 1
    BY <2>1, <2>2, SubSeqProperties
  <2>4. b' = Append(t, NUL)
    BY <1>4
  <2> HIDE DEF t
  <2>5. NUL \in Byte
    BY DEF NUL, Byte
  <2>6. b' \in Seq(Byte) /\ Len(b') = n /\ b'[n] = NUL
    BY <2>1, <2>3, <2>4, <2>5, AppendProperties
  <2>7. q = 1
    BY <1>1 DEF BufferInv, FlowInv
  <2>8. TypeOK'
    BY <1>1, <1>4, <2>6 DEF BufferInv, TypeOK
  <2>9. FlowInv'
    BY <1>1, <1>4, <2>1, <2>6, <2>7 DEF FlowInv, WritesBehindReads
  <2>10. RefInv'
    BY <1>4 DEF RefInv
  <2> QED
    BY <1>1, <2>8, <2>9, <2>10 DEF BufferInv
<1> QED
  BY <1>1, <1>3, <1>4

\* Where Reading holds, the next byte is in the buffer.
LEMMA ReadingNext ==
    ASSUME BufferInv, Reading
    PROVE  /\ pc = "flush" /\ p \in Nat \ {0} /\ q \in Nat \ {0} /\ q <= p
           /\ p + 1 <= Len(b) /\ Len(b) \in Nat
           /\ b[p] \in Byte /\ b[p + 1] \in Byte
           /\ b[p + 1] # NUL => p + 2 <= Len(b) /\ b[p + 2] \in Byte
<1>1. /\ p \in Nat \ {0} /\ q \in Nat \ {0} /\ q <= p /\ p <= Len(b)
      /\ Len(b) \in Nat \ {0}
      /\ \A i \in p .. Len(b) : b[i] \in Byte
      /\ \A i \in p .. Len(b) : b[i] # NUL => i < Len(b)
      /\ p < Len(b) /\ pc = "flush"
  BY Unread DEF BufferInv, Reading
<1> QED
  BY <1>1

LEMMA OneByte == ASSUME NEW c \in Byte PROVE <<c>> \in Seq(Byte) /\ Len(<<c>>) = 1
OBVIOUS

LEMMA LineEndBuffer == BufferInv /\ LineEnd => BufferInv'
<1> SUFFICES ASSUME BufferInv, LineEnd
             PROVE  BufferInv'
  OBVIOUS
<1>1. /\ pc = "flush" /\ p \in Nat \ {0} /\ q \in Nat \ {0} /\ q <= p
      /\ p + 1 <= Len(b) /\ Len(b) \in Nat
      /\ b[p + 1] # NUL => p + 2 <= Len(b)
  BY ReadingNext DEF LineEnd
<1>2. Newline(b, p) \in 1 .. 2 /\ p + Newline(b, p) <= Len(b)
  BY <1>1 DEF LineEnd, Newline, CR, LF, NUL
<1>3. <<LF>> \in Seq(Byte) /\ Len(<<LF>>) = 1
  BY OneByte DEF LF, Byte
<1>4. /\ Emit(<<LF>>, p + Newline(b, p)) /\ pc' = "flush"
      /\ UNCHANGED <<job, text, start, src>> /\ ref' = ref
  BY <1>1 DEF LineEnd
<1>5. ref' \in [at : Nat, to : Nat, mult : Nat, ucs : Nat]
  BY <1>4 DEF BufferInv, TypeOK
<1>6. /\ p + Newline(b, p) \in Nat /\ p <= p + Newline(b, p)
      /\ q + Len(<<LF>>) <= p + Newline(b, p) /\ pc \in {"flush", "digits"}
  BY <1>1, <1>2, <1>3
<1> QED
  BY <1>2, <1>3, <1>4, <1>5, <1>6, FlushStep

LEMMA PlainBuffer == BufferInv /\ Plain => BufferInv'
<1> SUFFICES ASSUME BufferInv, Plain
             PROVE  BufferInv'
  OBVIOUS
<1>1. /\ pc = "flush" /\ p \in Nat \ {0} /\ q \in Nat \ {0} /\ q <= p
      /\ p + 1 <= Len(b) /\ Len(b) \in Nat /\ b[p] \in Byte
  BY ReadingNext DEF Plain
<1>2. <<b[p]>> \in Seq(Byte) /\ Len(<<b[p]>>) = 1
  BY <1>1, OneByte
<1>3. /\ Emit(<<b[p]>>, p + 1) /\ pc' = "flush"
      /\ UNCHANGED <<job, text, start, src>> /\ ref' = ref
  BY <1>1 DEF Plain
<1>4. ref' \in [at : Nat, to : Nat, mult : Nat, ucs : Nat]
  BY <1>3 DEF BufferInv, TypeOK
<1>5. /\ p + 1 \in Nat /\ p <= p + 1 /\ q + Len(<<b[p]>>) <= p + 1
      /\ pc \in {"flush", "digits"}
  BY <1>1, <1>2
<1> QED
  BY <1>1, <1>2, <1>3, <1>4, <1>5, FlushStep

LEMMA EntityBuffer == BufferInv /\ Entity => BufferInv'
<1> SUFFICES ASSUME BufferInv, Entity
             PROVE  BufferInv'
  OBVIOUS
<1>1. /\ pc = "flush" /\ p \in Nat \ {0} /\ q \in Nat \ {0} /\ q <= p
      /\ p + 1 <= Len(b) /\ Len(b) \in Nat
  BY ReadingNext DEF Entity
<1>2. pc' = "flush" /\ UNCHANGED <<job, text, start, src>> /\ ref' = ref
  BY <1>1 DEF Entity
<1>3. ref' \in [at : Nat, to : Nat, mult : Nat, ucs : Nat]
  BY <1>2 DEF BufferInv, TypeOK
<1>4. ASSUME NEW e \in EntityAt(b, p), Emit(<<e[2]>>, p + Len(e[1]) + 2)
      PROVE  BufferInv'
  <2> DEFINE es == e[1]
             n == Len(es)
  <2>1. e \in Entities /\ p + n + 1 <= Len(b) /\ SubSeq(b, p + 1, p + n + 1) = es \o <<SEMI>>
    BY DEF EntityAt
  <2>2. es \in Seq(1 .. 255) /\ n \in 2 .. 4 /\ e[2] \in Byte
    BY <2>1, EntityForm DEF QUOT, AMP, APOS, LT, GT, Byte
  <2> HIDE DEF es, n
  <2>3. (es \o <<SEMI>>)[n + 1] = SEMI
    BY <2>2 DEF n
  <2>4. SubSeq(b, p + 1, p + n + 1)[n + 1] = b[p + n + 1]
    <3>1. b \in Seq(Byte) /\ p + 1 \in 1 .. Len(b) + 1 /\ p + n + 1 \in p .. Len(b)
          /\ n + 1 \in 1 .. ((p + n + 1) - (p + 1) + 1) /\ (p + 1) + (n + 1) - 1 = p + n + 1
      BY <1>1, <2>1, <2>2 DEF BufferInv, TypeOK
    <3>2. SubSeq(b, p + 1, p + n + 1)[n + 1] = b[(p + 1) + (n + 1) - 1]
      BY <3>1, SubSeqProperties
    <3> QED
      BY <3>1, <3>2
  <2>5. b[p + n + 1] # NUL
    <3>1. b[p + n + 1] = SEMI
      BY <2>1, <2>3, <2>4, Zenon
    <3> QED
      BY <3>1 DEF SEMI, NUL
  <2>6. p + n + 2 <= Len(b)
    BY <2>1, <2>2, <2>5, <1>1, Unread DEF BufferInv
  <2>7. <<e[2]>> \in Seq(Byte) /\ Len(<<e[2]>>) = 1
    BY <2>2, OneByte
  <2>8. Emit(<<e[2]>>, p + n + 2)
    BY <1>4 DEF n, es
  <2>9. /\ p + n + 2 \in Nat /\ p <= p + n + 2 /\ q + Len(<<e[2]>>) <= p + n + 2
        /\ pc \in {"flush", "digits"}
    BY <1>1, <2>2, <2>7
  <2> QED
    BY <1>2, <1>3, <2>6, <2>7, <2>8, <2>9, FlushStep
<1>5. CASE p' = p + 1 /\ q' = q + 1 /\ UNCHANGED b
  <2>1. TypeOK'
    BY <1>1, <1>2, <1>5 DEF BufferInv, TypeOK
  <2>2. FlowInv'
    BY <1>1, <1>2, <1>5 DEF BufferInv, FlowInv, WritesBehindReads
  <2>3. RefInv'
    BY <1>2 DEF RefInv
  <2> QED
    BY <1>2, <2>1, <2>2, <2>3 DEF BufferInv
<1> QED
  BY <1>4, <1>5 DEF Entity

LEMMA CharacterRefBuffer == BufferInv /\ CharacterRef => BufferInv'
<1> SUFFICES ASSUME BufferInv, CharacterRef
             PROVE  BufferInv'
  OBVIOUS
<1>1. /\ pc = "flush" /\ p \in Nat \ {0} /\ q \in Nat \ {0} /\ q <= p
      /\ p + 1 <= Len(b) /\ Len(b) \in Nat
      /\ b[p] = AMP /\ b[p + 1] = HASH
      /\ p + 2 <= Len(b)
  BY ReadingNext DEF CharacterRef, HASH, NUL
<1>2. UNCHANGED <<job, text, start, src>>
  BY DEF CharacterRef
<1>3. p + 1 \in Nat /\ p <= p + 1 /\ pc \in {"flush", "digits"}
  BY <1>1
<1>4. ref \in [at : Nat, to : Nat, mult : Nat, ucs : Nat]
  BY DEF BufferInv, TypeOK
<1>5. CASE Emit(<<>>, p + 1) /\ UNCHANGED <<pc, ref>>
  <2>1. <<>> \in Seq(Byte) /\ q + Len(<<>>) <= p + 1
    BY <1>1
  <2> QED
    BY <1>1, <1>2, <1>3, <1>4, <1>5, <2>1, FlushStep
<1>6. CASE Emit(<<AMP>>, p + 1) /\ UNCHANGED <<pc, ref>>
  <2>1. <<AMP>> \in Seq(Byte) /\ q + Len(<<AMP>>) <= p + 1
    BY <1>1 DEF AMP, Byte
  <2> QED
    BY <1>1, <1>2, <1>3, <1>4, <1>6, <2>1, FlushStep
<1>7. ASSUME NEW n \in StrChr(b, IF Hex THEN p + 3 ELSE p + 2, SEMI),
             pc' = "digits", ref' = [at |-> n - 1, to |-> n + 1, mult |-> 1, ucs |-> 0],
             UNCHANGED <<b, p, q>>
      PROVE  BufferInv'
  <2>1. n \in p + 2 .. Len(b) /\ (Hex => n >= p + 3) /\ b[n] = SEMI
    BY <1>1 DEF StrChr
  <2>2. n < Len(b)
    BY <1>1, <2>1, Unread DEF BufferInv, SEMI, NUL
  <2>3. /\ ref' \in [at : Nat, to : Nat, mult : Nat, ucs : Nat]
        /\ ref'.at = n - 1 /\ ref'.to = n + 1 /\ ref'.ucs = 0
    BY <1>1, <1>7, <2>1
  <2>4. TypeOK'
    BY <1>2, <1>7, <2>3 DEF BufferInv, TypeOK
  <2>5. FlowInv'
    BY <1>1, <1>2, <1>7 DEF BufferInv, FlowInv, WritesBehindReads
  <2>6. Hex' <=> Hex
    BY <1>7 DEF Hex
  <2>7. RefInv'
    BY <1>1, <1>7, <2>1, <2>2, <2>3, <2>6 DEF RefInv
  <2> QED
    BY <1>2, <2>4, <2>5, <2>7 DEF BufferInv
<1> QED
  BY <1>5, <1>6, <1>7 DEF CharacterRef

\* What the steps of GetCharacterRef know.
LEMMA DigitsNow ==
    ASSUME BufferInv, pc = "digits"
    PROVE  /\ p \in Nat \ {0} /\ q \in Nat \ {0} /\ q <= p /\ Len(b) \in Nat
           /\ ref.at \in Nat /\ ref.to \in Nat /\ ref.mult \in Nat /\ ref.ucs \in Nat
           /\ b[p + 1] = HASH
           /\ p + (IF Hex THEN 2 ELSE 1) <= ref.at
           /\ ref.at <= ref.to - 2 /\ ref.to <= Len(b)
           /\ ref.at = ref.to - 2 => ref.ucs = 0
           /\ b[ref.at] \in Byte
<1>1. /\ p \in Nat \ {0} /\ q \in Nat \ {0} /\ q <= p /\ Len(b) \in Nat
      /\ \A i \in p .. Len(b) : b[i] \in Byte
  BY Unread DEF BufferInv
<1>2. ref.at \in Nat /\ ref.to \in Nat /\ ref.mult \in Nat /\ ref.ucs \in Nat
  BY DEF BufferInv, TypeOK
<1>3. /\ b[p + 1] = HASH
      /\ p + (IF Hex THEN 2 ELSE 1) <= ref.at
      /\ ref.at <= ref.to - 2 /\ ref.to <= Len(b)
      /\ ref.at = ref.to - 2 => ref.ucs = 0
  BY DEF BufferInv, RefInv
<1>4. ref.at \in p .. Len(b)
  BY <1>1, <1>2, <1>3
<1> QED
  BY <1>1, <1>2, <1>3, <1>4

LEMMA ModNat == ASSUME NEW x \in Nat, NEW y \in Nat PROVE (x * y) % UintSize \in Nat
<1>1. x * y \in Nat
  OBVIOUS
<1> QED
  BY <1>1, JobsAssumption

LEMMA DigitValue == ASSUME NEW c \in Byte, NEW base PROVE Digit(c, base) \in -1 .. 15
<1>1. c \in 0 .. 255
  BY DEF Byte
<1>2. CASE c \in 48 .. 57
  BY <1>2 DEF Digit
<1>3. CASE base = 16 /\ c \in 97 .. 102
  BY <1>3 DEF Digit
<1>4. CASE base = 16 /\ c \in 65 .. 70
  BY <1>4 DEF Digit
<1>5. CASE c \notin 48 .. 57 /\ ~ (base = 16 /\ c \in 97 .. 102) /\ ~ (base = 16 /\ c \in 65 .. 70)
  <2>1. Digit(c, base) = -1
    BY <1>5 DEF Digit
  <2> QED
    BY <2>1
<1> QED
  BY <1>2, <1>3, <1>4, <1>5

LEMMA ReadDigitBuffer == BufferInv /\ ReadDigit => BufferInv'
<1> SUFFICES ASSUME BufferInv, ReadDigit
             PROVE  BufferInv'
  OBVIOUS
<1> DEFINE d == Digit(b[ref.at], Base)
<1>1. /\ pc = "digits" /\ b[ref.at] # Mark
      /\ UNCHANGED <<job, text, start, src>>
      /\ \/ /\ d >= 0
            /\ ref' = [ref EXCEPT !.at = ref.at - 1, !.mult = (ref.mult * Base) % UintSize,
                                  !.ucs = ref.ucs + ((ref.mult * d) % UintSize)]
            /\ UNCHANGED <<pc, b, p, q>>
         \/ d < 0 /\ Emit(<<AMP>>, p + 1) /\ pc' = "flush" /\ ref' = NoRef
  BY DEF ReadDigit
<1>2. /\ p \in Nat \ {0} /\ q \in Nat \ {0} /\ q <= p /\ Len(b) \in Nat
      /\ ref.at \in Nat /\ ref.to \in Nat /\ ref.mult \in Nat /\ ref.ucs \in Nat
      /\ b[p + 1] = HASH
      /\ p + (IF Hex THEN 2 ELSE 1) <= ref.at
      /\ ref.at <= ref.to - 2 /\ ref.to <= Len(b)
      /\ b[ref.at] \in Byte
  BY <1>1, DigitsNow
<1>3. d \in -1 .. 15
  BY <1>2, DigitValue
<1> HIDE DEF d
<1>4. CASE d < 0 /\ Emit(<<AMP>>, p + 1) /\ pc' = "flush" /\ ref' = NoRef
  <2>1. <<AMP>> \in Seq(Byte) /\ q + Len(<<AMP>>) <= p + 1
    BY <1>2 DEF AMP, Byte
  <2>2. p + 1 \in Nat /\ p <= p + 1 /\ p + 1 <= Len(b) /\ pc \in {"flush", "digits"}
    BY <1>1, <1>2
  <2>3. ref' \in [at : Nat, to : Nat, mult : Nat, ucs : Nat]
    BY <1>4 DEF NoRef
  <2> QED
    BY <1>1, <1>4, <2>1, <2>2, <2>3, FlushStep
<1>5. CASE /\ d >= 0
           /\ ref' = [ref EXCEPT !.at = ref.at - 1, !.mult = (ref.mult * Base) % UintSize,
                                 !.ucs = ref.ucs + ((ref.mult * d) % UintSize)]
           /\ UNCHANGED <<pc, b, p, q>>
  <2>1. Base \in Nat /\ d \in Nat
    BY <1>3, <1>5 DEF Base
  <2>2. (ref.mult * Base) % UintSize \in Nat /\ (ref.mult * d) % UintSize \in Nat
    BY <1>2, <2>1, ModNat
  <2>3. (Hex => ref.at # p + 2) /\ (~ Hex => ref.at # p + 1)
    BY <1>1, <1>2 DEF Hex, Mark
  <2>4. ref.at - 1 \in Nat /\ p + (IF Hex THEN 2 ELSE 1) <= ref.at - 1
    BY <1>2, <2>3
  <2>5. ref.ucs + ((ref.mult * d) % UintSize) \in Nat
    BY <1>2, <2>2
  <2>6. ref \in [at : Nat, to : Nat, mult : Nat, ucs : Nat]
    BY DEF BufferInv, TypeOK
  <2>7. /\ ref' \in [at : Nat, to : Nat, mult : Nat, ucs : Nat]
        /\ ref'.at = ref.at - 1 /\ ref'.to = ref.to
    BY <1>5, <2>2, <2>4, <2>5, <2>6
  <2>8. TypeOK'
    BY <1>1, <1>5, <2>7 DEF BufferInv, TypeOK
  <2>9. FlowInv'
    BY <1>1, <1>5 DEF BufferInv, FlowInv, WritesBehindReads
  <2>10. Hex' <=> Hex
    BY <1>5 DEF Hex
  <2>11. RefInv'
    BY <1>2, <1>5, <2>4, <2>7, <2>10 DEF RefInv
  <2> QED
    BY <1>1, <2>8, <2>9, <2>11 DEF BufferInv
<1> QED
  BY <1>1, <1>4, <1>5

\* A reference is at least as long as its bytes: "&#;" has three characters for one
\* byte, and with a digit there are at least four for at most four.
LEMMA RefEndBuffer == BufferInv /\ RefEnd => BufferInv'
<1> SUFFICES ASSUME BufferInv, RefEnd
             PROVE  BufferInv'
  OBVIOUS
<1> DEFINE bs == ConvertUTF32ToUTF8(ref.ucs)
<1>1. /\ pc = "digits" /\ Emit(bs, ref.to)
      /\ pc' = "flush" /\ ref' = NoRef /\ UNCHANGED <<job, text, start, src>>
  BY DEF RefEnd
<1>2. /\ p \in Nat \ {0} /\ q \in Nat \ {0} /\ q <= p /\ Len(b) \in Nat
      /\ ref.at \in Nat /\ ref.to \in Nat /\ ref.ucs \in Nat
      /\ p + 1 <= ref.at
      /\ ref.at <= ref.to - 2 /\ ref.to <= Len(b)
      /\ ref.at = ref.to - 2 => ref.ucs = 0
  BY <1>1, DigitsNow
<1>3. bs \in Seq(Byte) /\ Len(bs) \in 0 .. 4 /\ (ref.ucs = 0 => Len(bs) = 1)
  BY <1>2, Utf8Short
<1> HIDE DEF bs
<1>4. q + Len(bs) <= ref.to /\ p <= ref.to
  <2>1. ref.at = ref.to - 2 => Len(bs) = 1
    BY <1>2, <1>3
  <2> DEFINE at == ref.at
             to == ref.to
             n == Len(bs)
  <2>2. at \in Nat /\ to \in Nat /\ n \in 0 .. 4 /\ p + 1 <= at /\ at <= to - 2 /\ (at = to - 2 => n = 1)
    BY <1>2, <1>3, <2>1
  <2> HIDE DEF at, to, n
  <2>3. q + n <= to /\ p <= to
    BY <1>2, <2>2
  <2> QED
    BY <2>3 DEF n, to
<1>5. ref' \in [at : Nat, to : Nat, mult : Nat, ucs : Nat]
  BY <1>1 DEF NoRef
<1> QED
  BY <1>1, <1>2, <1>3, <1>4, <1>5, FlushStep

\* The null byte that ends a string.
LEMMA PutNull ==
    ASSUME NEW s \in Seq(Byte), NEW at \in Nat \ {0}
    PROVE  /\ Put(s, at, <<NUL>>) \in Seq(Byte) /\ Len(Put(s, at, <<NUL>>)) = Len(s)
           /\ \A i \in 1 .. Len(s) : Put(s, at, <<NUL>>)[i] = IF i = at THEN NUL ELSE s[i]
<1> DEFINE z == <<NUL>>
           r == Put(s, at, z)
<1>1. z \in Seq(Byte) /\ Len(z) = 1 /\ z[1] = NUL
  BY DEF NUL, Byte
<1> HIDE DEF z
<1>2. /\ r \in Seq(Byte) /\ Len(r) = Len(s)
      /\ \A i \in 1 .. Len(s) : r[i] = IF i \in at .. at + Len(z) - 1 THEN z[i - at + 1] ELSE s[i]
  BY <1>1, PutChanges
<1> HIDE DEF r
<1>3. \A i \in 1 .. Len(s) : r[i] = IF i = at THEN NUL ELSE s[i]
  BY <1>1, <1>2
<1> QED
  BY <1>2, <1>3 DEF r, z

LEMMA FlushEndBuffer == BufferInv /\ FlushEnd => BufferInv'
<1> SUFFICES ASSUME BufferInv, FlushEnd
             PROVE  BufferInv'
  OBVIOUS
<1>1. /\ pc = "flush" /\ b' = Put(b, q, <<NUL>>) /\ src' = b' /\ p' = 1 /\ q' = 1
      /\ pc' \in {"trim", "done"}
      /\ UNCHANGED <<job, text, start, ref>>
  BY DEF FlushEnd
<1>2. /\ p \in Nat \ {0} /\ q \in Nat \ {0} /\ q <= p /\ p <= Len(b)
      /\ Len(b) \in Nat \ {0} /\ b[Len(b)] = NUL /\ b \in Seq(Byte)
  BY <1>1, Unread DEF BufferInv, TypeOK
<1>3. /\ b' \in Seq(Byte) /\ Len(b') = Len(b)
      /\ \A i \in 1 .. Len(b) : b'[i] = IF i = q THEN NUL ELSE b[i]
  BY <1>1, <1>2, PutNull
<1>4. b'[Len(b')] = NUL
  BY <1>2, <1>3
<1>5. TypeOK'
  BY <1>1, <1>3 DEF BufferInv, TypeOK
<1>6. FlowInv'
  BY <1>1, <1>2, <1>3, <1>4 DEF FlowInv, WritesBehindReads
<1>7. RefInv'
  BY <1>1 DEF RefInv
<1> QED
  BY <1>1, <1>5, <1>6, <1>7 DEF BufferInv

LEMMA TrimBuffer == BufferInv /\ Trim => BufferInv'
<1> SUFFICES ASSUME BufferInv, Trim
             PROVE  BufferInv'
  OBVIOUS
<1>1. PICK n \in SkipWhiteSpace(b, 1) :
        /\ pc = "trim" /\ start' = n /\ p' = n /\ q' = n
        /\ pc' \in {"done", "collapse"}
        /\ UNCHANGED <<job, text, b, ref, src>>
  BY DEF Trim
<1>2. n \in 1 .. Len(b) /\ Len(b) \in Nat
  BY DEF SkipWhiteSpace, BufferInv, TypeOK
<1>3. TypeOK'
  BY <1>1, <1>2 DEF BufferInv, TypeOK
<1>4. FlowInv'
  BY <1>1, <1>2 DEF BufferInv, FlowInv, WritesBehindReads
<1>5. RefInv'
  BY <1>1 DEF RefInv
<1> QED
  BY <1>1, <1>3, <1>4, <1>5 DEF BufferInv

\* A run of whitespace has at least one character, for one space.
LEMMA CollapseBuffer == BufferInv /\ Collapse => BufferInv'
<1> SUFFICES ASSUME BufferInv, Collapse
             PROVE  BufferInv'
  OBVIOUS
<1>1. PICK n \in SkipWhiteSpace(b, p) :
        IF b[n] # NUL
        THEN Emit(IF n > p THEN <<SPACE, b[n]>> ELSE <<b[n]>>, n + 1) /\ UNCHANGED pc
        ELSE b' = Put(b, q, <<NUL>>) /\ pc' = "done" /\ UNCHANGED <<p, q>>
  BY DEF Collapse
<1>2. pc = "collapse" /\ UNCHANGED <<job, text, start, ref, src>>
  BY DEF Collapse
<1>3. /\ p \in Nat \ {0} /\ q \in Nat \ {0} /\ q <= p /\ p <= Len(b) /\ Len(b) \in Nat
      /\ \A i \in p .. Len(b) : b[i] \in Byte
      /\ \A i \in p .. Len(b) : b[i] # NUL => i < Len(b)
      /\ b \in Seq(Byte)
  BY <1>2, Unread DEF BufferInv, TypeOK
<1>4. n \in p .. Len(b) /\ b[n] \in Byte
  BY <1>3 DEF SkipWhiteSpace
<1>5. RefInv'
  BY <1>1, <1>2 DEF RefInv
<1>6. CASE b[n] # NUL
  <2> DEFINE bytes == IF n > p THEN <<SPACE, b[n]>> ELSE <<b[n]>>
  <2>1. bytes \in Seq(Byte) /\ Len(bytes) = IF n > p THEN 2 ELSE 1
    <3>1. <<SPACE, b[n]>> \in Seq(Byte) /\ Len(<<SPACE, b[n]>>) = 2
      BY <1>4 DEF SPACE, Byte
    <3>2. <<b[n]>> \in Seq(Byte) /\ Len(<<b[n]>>) = 1
      BY <1>4, OneByte
    <3> QED
      BY <3>1, <3>2
  <2>2. Emit(bytes, n + 1) /\ UNCHANGED pc
    BY <1>1, <1>6
  <2> HIDE DEF bytes
  <2>3. /\ n + 1 \in Nat /\ p <= n + 1 /\ n + 1 <= Len(b) /\ q + Len(bytes) <= n + 1
        /\ pc \in {"flush", "digits", "collapse"}
    BY <1>2, <1>3, <1>4, <1>6, <2>1
  <2>4. /\ b' \in Seq(Byte) /\ Len(b') = Len(b)
        /\ p' \in Nat \ {0} /\ q' \in Nat \ {0} /\ q' <= p' /\ p' <= Len(b')
        /\ \A i \in p' .. Len(b') : b'[i] = src[i]
    BY <2>1, <2>2, <2>3, EmitKeeps DEF BufferInv
  <2>5. TypeOK'
    BY <1>2, <2>2, <2>4 DEF BufferInv, TypeOK
  <2>6. FlowInv'
    BY <1>2, <2>2, <2>4 DEF BufferInv, FlowInv, WritesBehindReads
  <2> QED
    BY <1>2, <1>5, <2>5, <2>6 DEF BufferInv
<1>7. CASE b[n] = NUL
  <2>1. b' = Put(b, q, <<NUL>>) /\ pc' = "done" /\ UNCHANGED <<p, q>>
    BY <1>1, <1>7
  <2>2. b' \in Seq(Byte)
    BY <1>3, <2>1, PutNull
  <2>3. TypeOK'
    BY <1>2, <2>1, <2>2 DEF BufferInv, TypeOK
  <2>4. FlowInv'
    BY <2>1 DEF FlowInv, WritesBehindReads
  <2> QED
    BY <1>2, <1>5, <2>3, <2>4 DEF BufferInv
<1> QED
  BY <1>6, <1>7

LEMMA StutterBuffer == BufferInv /\ UNCHANGED vars => BufferInv'
<1> SUFFICES ASSUME BufferInv, UNCHANGED vars
             PROVE  BufferInv'
  OBVIOUS
<1>1. TypeOK'
  BY DEF BufferInv, TypeOK, vars
<1>2. FlowInv'
  BY DEF BufferInv, FlowInv, WritesBehindReads, vars
<1>3. RefInv'
  BY DEF BufferInv, RefInv, Hex, vars
<1> QED
  BY <1>1, <1>2, <1>3 DEF BufferInv, vars

LEMMA BufferInduction == BufferInv /\ [Next]_vars => BufferInv'
BY PrintStringBuffer, ParseTextBuffer, LineEndBuffer, EntityBuffer, PlainBuffer,
   CharacterRefBuffer, ReadDigitBuffer, RefEndBuffer, FlushEndBuffer, TrimBuffer,
   CollapseBuffer, StutterBuffer DEF Next

LEMMA BufferInvariant == Spec => []BufferInv
BY InitBuffer, BufferInduction, PTL DEF Spec

\* Every byte that the printer and the decoder write is a byte, for every string:
\* what a reference of any number of digits gives included.
THEOREM TypeCorrect == Spec => []TypeOK
<1>1. BufferInv => TypeOK
  BY DEF BufferInv
<1> QED
  BY <1>1, BufferInvariant, PTL

\* For every string and every option GetStr and CollapseWhitespace write behind
\* what they read and inside the buffer, and never change what is still unread.
THEOREM WritesBehindReadsTheorem == Spec => []WritesBehindReads
<1>1. BufferInv => WritesBehindReads
  BY DEF BufferInv, FlowInv
<1> QED
  BY <1>1, BufferInvariant, PTL

-----------------------------------------------------------------------------
(***************************************************************************)
(* What is printed is read back.  Layout says where in the text t each     *)
(* character of s was printed: the first n - 1 of them, the k-th at at[k]. *)
(* Copied says that the first m bytes of w are what the first k - 1        *)
(* characters of s give: byte i comes from the character f[i].             *)
(***************************************************************************)
Layout(s, restricted, t, at, n) ==
    /\ at \in [1 .. n -> Nat \ {0}]
    /\ at[1] = 1 /\ at[n] = Len(t) + 1
    /\ \A k \in 1 .. n - 1 :
         /\ at[k + 1] = at[k] + Len(Printed(s[k], restricted)) /\ at[k + 1] <= Len(t) + 1
         /\ \A j \in 1 .. Len(Printed(s[k], restricted)) :
              t[at[k] + j - 1] = Printed(s[k], restricted)[j]

Origins(s, m, f, k) ==
    /\ f \in [1 .. m -> 1 .. k - 1]
    /\ \A i, j \in 1 .. m : i < j => f[i] < f[j]
    /\ \A j \in 1 .. k - 1 :
         (\A i \in 1 .. m : f[i] # j) <=> Pair(s, j) /\ \E i \in 1 .. m : f[i] = j - 1
    /\ k <= Len(s) /\ (\E i \in 1 .. m : f[i] = k - 1) => ~ Pair(s, k)

LineChar(c) == IF c = CR THEN LF ELSE c
Copied(s, w, m, f, k) ==
    Origins(s, m, f, k) /\ \A i \in 1 .. m : w[i] = LineChar(s[f[i]])

Restricted == job.end = LT
PrintedUpTo(n) == \E at : Layout(job.s, Restricted, text, at, n)
ReadUpTo(at, k, f) ==
    /\ Layout(job.s, Restricted, text, at, Len(job.s) + 1)
    /\ k \in 1 .. Len(job.s) + 1 /\ p = at[k]
    /\ Copied(job.s, b, q - 1, f, k)

PrintInv ==
    job.print =>
    /\ pc \in {"print", "parse", "flush", "trim", "collapse", "done"}
    /\ pc \in {"trim", "collapse"} => job.collapse
    /\ pc \in {"print", "parse", "flush"} =>
         start = 1 /\ \A i \in 1 .. Len(text) : text[i] # job.end
    /\ pc = "print" => p <= Len(job.s) + 1 /\ PrintedUpTo(p)
    /\ pc = "parse" => PrintedUpTo(Len(job.s) + 1)
    /\ pc = "flush" => src = Append(text, NUL) /\ \E at, k, f : ReadUpTo(at, k, f)
    /\ pc \in {"flush", "trim", "collapse", "done"} => Len(b) = Len(text) + 1
    /\ pc = "done" /\ ~ job.collapse => IsLines(job.s, CStr(b, start))

\* One more character of s is read, with step 1, or two that are one end of a line.
LEMMA OriginsGrow ==
    ASSUME NEW s \in Seq(1 .. 255), NEW m \in Nat, NEW k \in 1 .. Len(s), NEW f,
           Origins(s, m, f, k),
           NEW step \in {1, 2}, k + step <= Len(s) + 1,
           step = 1 /\ k + 1 <= Len(s) => ~ Pair(s, k + 1),
           step = 2 => Pair(s, k + 1)
    PROVE  Origins(s, m + 1, [i \in 1 .. m + 1 |-> IF i = m + 1 THEN k ELSE f[i]], k + step)
<1> DEFINE g == [i \in 1 .. m + 1 |-> IF i = m + 1 THEN k ELSE f[i]]
<1>1. /\ f \in [1 .. m -> 1 .. k - 1]
      /\ \A i, j \in 1 .. m : i < j => f[i] < f[j]
      /\ \A j \in 1 .. k - 1 :
           (\A i \in 1 .. m : f[i] # j) <=> Pair(s, j) /\ \E i \in 1 .. m : f[i] = j - 1
      /\ (\E i \in 1 .. m : f[i] = k - 1) => ~ Pair(s, k)
  BY DEF Origins
<1>2. /\ \A i \in 1 .. m : g[i] = f[i] /\ f[i] \in 1 .. k - 1
      /\ g[m + 1] = k
  BY <1>1
<1>3. g \in [1 .. m + 1 -> 1 .. (k + step) - 1]
  <2>1. ASSUME NEW i \in 1 .. m + 1
        PROVE  (IF i = m + 1 THEN k ELSE f[i]) \in 1 .. (k + step) - 1
    <3>1. CASE i = m + 1
      BY <3>1
    <3>2. CASE i # m + 1
      <4>1. i \in 1 .. m
        BY <3>2
      <4>2. f[i] \in 1 .. k - 1
        BY <1>2, <4>1
      <4> QED
        BY <3>2, <4>2
    <3> QED
      BY <3>1, <3>2
  <2> QED
    BY <2>1
<1> HIDE DEF g
<1>4. \A i, j \in 1 .. m + 1 : i < j => g[i] < g[j]
  <2>1. ASSUME NEW i \in 1 .. m + 1, NEW j \in 1 .. m + 1, i < j
        PROVE  g[i] < g[j]
    <3>1. i \in 1 .. m /\ (j = m + 1 \/ j \in 1 .. m)
      BY <2>1
    <3> QED
      BY <1>1, <1>2, <2>1, <3>1
  <2> QED
    BY <2>1
<1>5. ASSUME NEW j \in 1 .. k - 1
      PROVE  /\ (\A i \in 1 .. m + 1 : g[i] # j) <=> (\A i \in 1 .. m : f[i] # j)
             /\ (\E i \in 1 .. m + 1 : g[i] = j - 1) <=> (\E i \in 1 .. m : f[i] = j - 1)
  <2>1. \A i \in 1 .. m + 1 : i = m + 1 \/ i \in 1 .. m
    OBVIOUS
  <2>2. k # j /\ k # j - 1 /\ \A i \in 1 .. m : i \in 1 .. m + 1
    OBVIOUS
  <2> QED
    BY <1>2, <2>1, <2>2
<1>6. m + 1 \in 1 .. m + 1 /\ g[m + 1] = k
  BY <1>2
<1>7. (\E i \in 1 .. m + 1 : g[i] = k - 1) => \E i \in 1 .. m : f[i] = k - 1
  <2>1. \A i \in 1 .. m + 1 : i = m + 1 \/ i \in 1 .. m
    OBVIOUS
  <2>2. k # k - 1
    OBVIOUS
  <2> QED
    BY <1>2, <2>1, <2>2
<1>8. \A i \in 1 .. m + 1 : g[i] # k + 1
  <2>1. ASSUME NEW i \in 1 .. m + 1
        PROVE  g[i] # k + 1
    <3>1. CASE i = m + 1
      BY <1>2, <3>1
    <3>2. CASE i # m + 1
      <4>1. i \in 1 .. m
        BY <3>2
      <4>2. g[i] = f[i] /\ f[i] \in 1 .. k - 1
        BY <1>2, <4>1
      <4> QED
        BY <4>2
    <3> QED
      BY <3>1, <3>2
  <2> QED
    BY <2>1
<1>9. ASSUME NEW j \in 1 .. (k + step) - 1
      PROVE  (\A i \in 1 .. m + 1 : g[i] # j) <=>
                Pair(s, j) /\ \E i \in 1 .. m + 1 : g[i] = j - 1
  <2>1. j \in 1 .. k - 1 \/ j = k \/ (step = 2 /\ j = k + 1)
    OBVIOUS
  <2>2. CASE j \in 1 .. k - 1
    BY <1>1, <1>5, <2>2
  <2>3. CASE j = k
    BY <1>1, <1>6, <1>7, <2>3
  <2>4. CASE step = 2 /\ j = k + 1
    <3>1. j - 1 = k
      BY <2>4
    <3> QED
      BY <1>6, <1>8, <2>4, <3>1
  <2> QED
    BY <2>1, <2>2, <2>3, <2>4
<1>10. k + step <= Len(s) /\ (\E i \in 1 .. m + 1 : g[i] = (k + step) - 1) => ~ Pair(s, k + step)
  <2>1. CASE step = 1
    BY <2>1
  <2>2. CASE step = 2
    <3>1. (k + step) - 1 = k + 1
      BY <2>2
    <3> QED
      BY <1>8, <3>1
  <2> QED
    BY <2>1, <2>2
<1>11. Origins(s, m + 1, g, k + step)
  BY <1>3, <1>4, <1>9, <1>10 DEF Origins
<1> QED
  BY <1>11 DEF g

\* The bytes that Emit writes for it.
LEMMA CopiedGrows ==
    ASSUME NEW s \in Seq(1 .. 255), NEW m \in Nat, NEW k \in 1 .. Len(s), NEW f, NEW w, NEW w2,
           Copied(s, w, m, f, k),
           NEW step \in {1, 2}, k + step <= Len(s) + 1,
           step = 1 /\ k + 1 <= Len(s) => ~ Pair(s, k + 1),
           step = 2 => Pair(s, k + 1),
           \A i \in 1 .. m : w2[i] = w[i],
           w2[m + 1] = LineChar(s[k])
    PROVE  \E g : Copied(s, w2, m + 1, g, k + step)
<1> DEFINE g == [i \in 1 .. m + 1 |-> IF i = m + 1 THEN k ELSE f[i]]
<1>1. Origins(s, m, f, k) /\ \A i \in 1 .. m : w[i] = LineChar(s[f[i]])
  BY DEF Copied
<1>2. Origins(s, m + 1, g, k + step)
  BY <1>1, OriginsGrow
<1>3. (\A i \in 1 .. m : g[i] = f[i]) /\ g[m + 1] = k
  OBVIOUS
<1> HIDE DEF g
<1>4. ASSUME NEW i \in 1 .. m + 1
      PROVE  w2[i] = LineChar(s[g[i]])
  <2>1. i = m + 1 \/ i \in 1 .. m
    OBVIOUS
  <2> QED
    BY <1>1, <1>3, <2>1
<1>5. Copied(s, w2, m + 1, g, k + step)
  BY <1>2, <1>4 DEF Copied
<1> QED
  BY <1>5

\* One more character is printed.
LEMMA LayoutGrows ==
    ASSUME NEW s \in Seq(1 .. 255), NEW restricted \in BOOLEAN, NEW t \in Seq(1 .. 255),
           NEW n \in 1 .. Len(s), NEW at, Layout(s, restricted, t, at, n)
    PROVE  \E at2 : Layout(s, restricted, t \o Printed(s[n], restricted), at2, n + 1)
<1> DEFINE cs == Printed(s[n], restricted)
           t2 == t \o cs
           at2 == [k \in 1 .. n + 1 |-> IF k = n + 1 THEN Len(t) + Len(cs) + 1 ELSE at[k]]
<1>1. s[n] \in 1 .. 255
  BY ElementOfSeq
<1>2. cs \in Seq(1 .. 255) /\ Len(cs) \in Nat
  <2>1. cs \in Seq(1 .. 255)
    BY <1>1, PrintedChars
  <2> HIDE DEF cs
  <2> QED
    BY <2>1
<1>3. /\ t2 \in Seq(1 .. 255) /\ Len(t2) = Len(t) + Len(cs)
      /\ \A i \in 1 .. Len(t) : t2[i] = t[i]
      /\ \A i \in 1 .. Len(cs) : t2[Len(t) + i] = cs[i]
  <2>1. /\ t2 \in Seq(1 .. 255) /\ Len(t2) = Len(t) + Len(cs)
        /\ \A i \in 1 .. Len(t) + Len(cs) : t2[i] = IF i <= Len(t) THEN t[i] ELSE cs[i - Len(t)]
    BY <1>2, ConcatProperties
  <2> HIDE DEF t2, cs
  <2>2. Len(t) \in Nat
    OBVIOUS
  <2>3. ASSUME NEW i \in 1 .. Len(cs)
        PROVE  t2[Len(t) + i] = cs[i]
    <3>1. Len(t) + i \in 1 .. Len(t) + Len(cs) /\ ~ (Len(t) + i <= Len(t)) /\ (Len(t) + i) - Len(t) = i
      BY <1>2, <2>2
    <3> QED
      BY <2>1, <3>1
  <2> QED
    BY <1>2, <2>1, <2>2, <2>3
<1>4. /\ at \in [1 .. n -> Nat \ {0}] /\ at[1] = 1 /\ at[n] = Len(t) + 1
      /\ \A k \in 1 .. n - 1 :
           /\ at[k + 1] = at[k] + Len(Printed(s[k], restricted)) /\ at[k + 1] <= Len(t) + 1
           /\ \A j \in 1 .. Len(Printed(s[k], restricted)) :
                t[at[k] + j - 1] = Printed(s[k], restricted)[j]
  BY DEF Layout
<1>5. Len(t) \in Nat /\ n \in Nat /\ n >= 1
  OBVIOUS
<1>6. /\ at2 \in [1 .. n + 1 -> Nat \ {0}]
      /\ \A k \in 1 .. n : at2[k] = at[k]
      /\ at2[n + 1] = Len(t) + Len(cs) + 1
  <2> HIDE DEF cs
  <2>1. ASSUME NEW k \in 1 .. n + 1
        PROVE  (IF k = n + 1 THEN Len(t) + Len(cs) + 1 ELSE at[k]) \in Nat \ {0}
    <3>1. k = n + 1 \/ k \in 1 .. n
      BY <1>5
    <3> QED
      BY <1>2, <1>4, <1>5, <3>1
  <2>2. at2 \in [1 .. n + 1 -> Nat \ {0}]
    BY <2>1
  <2>3. \A k \in 1 .. n : k \in 1 .. n + 1 /\ k # n + 1
    BY <1>5
  <2>4. n + 1 \in 1 .. n + 1
    BY <1>5
  <2> QED
    BY <2>2, <2>3, <2>4
<1> HIDE DEF at2, t2
<1>7. at2[1] = 1 /\ at2[n + 1] = Len(t2) + 1
  BY <1>2, <1>3, <1>4, <1>5, <1>6
<1>8. ASSUME NEW k \in 1 .. (n + 1) - 1
      PROVE  /\ at2[k + 1] = at2[k] + Len(Printed(s[k], restricted)) /\ at2[k + 1] <= Len(t2) + 1
             /\ \A j \in 1 .. Len(Printed(s[k], restricted)) :
                  t2[at2[k] + j - 1] = Printed(s[k], restricted)[j]
  <2>1. CASE k = n
    <3>1. at2[k] = Len(t) + 1 /\ at2[k + 1] = Len(t) + Len(cs) + 1
      BY <1>4, <1>6, <2>1
    <3>2. ASSUME NEW j \in 1 .. Len(cs)
          PROVE  t2[at2[k] + j - 1] = cs[j]
      <4> HIDE DEF cs
      <4>1. at2[k] + j - 1 = Len(t) + j
        BY <1>2, <1>5, <3>1
      <4> QED
        BY <1>3, <4>1
    <3>3. at2[k + 1] = at2[k] + Len(cs) /\ at2[k + 1] <= Len(t2) + 1
      BY <1>2, <1>3, <1>5, <3>1
    <3> QED
      BY <2>1, <3>2, <3>3
  <2>2. CASE k # n
    <3> DEFINE ck == Printed(s[k], restricted)
    <3>1. k \in 1 .. n - 1 /\ k \in 1 .. n /\ k + 1 \in 1 .. n
      BY <1>5, <2>2
    <3>2. s[k] \in 1 .. 255
      <4>1. k \in 1 .. Len(s)
        BY <3>1
      <4> QED
        BY <4>1, ElementOfSeq
    <3>3. Len(ck) \in Nat
      <4>1. ck \in Seq(1 .. 255)
        BY <3>2, PrintedChars
      <4> HIDE DEF ck
      <4> QED
        BY <4>1
    <3>4. /\ at[k + 1] = at[k] + Len(ck) /\ at[k + 1] <= Len(t) + 1
          /\ \A j \in 1 .. Len(ck) : t[at[k] + j - 1] = ck[j]
      BY <1>4, <3>1
    <3>5. at2[k] = at[k] /\ at2[k + 1] = at[k + 1] /\ at[k] \in Nat \ {0}
      BY <1>4, <1>6, <3>1
    <3> HIDE DEF ck, cs
    <3>6. at2[k + 1] = at2[k] + Len(ck) /\ at2[k + 1] <= Len(t2) + 1
      BY <1>2, <1>3, <1>5, <3>3, <3>4, <3>5
    <3>7. ASSUME NEW j \in 1 .. Len(ck)
          PROVE  t2[at2[k] + j - 1] = ck[j]
      <4>1. at[k] + j - 1 \in 1 .. Len(t)
        BY <1>5, <3>3, <3>4, <3>5
      <4> QED
        BY <1>3, <3>4, <3>5, <4>1
    <3> QED
      BY <3>6, <3>7 DEF ck
  <2> QED
    BY <2>1, <2>2
<1>9. Layout(s, restricted, t2, at2, n + 1)
  BY <1>6, <1>7, <1>8 DEF Layout
<1> QED
  BY <1>9 DEF t2

\* The two ways a character is printed.
AsItself(c, cs) == c # AMP /\ Len(cs) = 1 /\ cs[1] = c
AsEntityOf(e, c, cs) ==
    /\ c = e[2] /\ c \notin {CR, LF}
    /\ Len(cs) = Len(e[1]) + 2 /\ cs[1] = AMP /\ cs[Len(e[1]) + 2] = SEMI
    /\ \A j \in 1 .. Len(e[1]) : cs[j + 1] = e[1][j]

LEMMA PrintedForms ==
    ASSUME NEW c \in 1 .. 255, NEW restricted \in BOOLEAN, NEW cs, cs = Printed(c, restricted)
    PROVE  AsItself(c, cs) \/ \E e \in Entities : AsEntityOf(e, c, cs)
<1>1. CASE c \notin EntityFlags(restricted) /\ cs = <<c>>
  <2>1. c # AMP
    BY <1>1 DEF EntityFlags
  <2> QED
    BY <1>1, <2>1 DEF AsItself
<1>2. ASSUME NEW e \in Entities, e[2] = c, cs = <<AMP>> \o e[1] \o <<SEMI>>
      PROVE  AsEntityOf(e, c, cs)
  <2> DEFINE es == e[1]
  <2>1. es \in Seq(1 .. 255) /\ Len(es) \in 2 .. 4 /\ e[2] \in {QUOT, AMP, APOS, LT, GT}
    BY EntityForm
  <2>2. cs = <<AMP>> \o es \o <<SEMI>>
    BY <1>2
  <2> HIDE DEF es
  <2>3. AMP \in 1 .. 255 /\ SEMI \in 1 .. 255
    BY DEF AMP, SEMI
  <2>4. /\ Len(cs) = Len(es) + 2 /\ cs[1] = AMP /\ cs[Len(es) + 2] = SEMI
        /\ \A i \in 2 .. Len(es) + 1 : cs[i] = es[i - 1]
    BY <2>1, <2>2, <2>3, Between
  <2>5. ASSUME NEW j \in 1 .. Len(es)
        PROVE  cs[j + 1] = es[j]
    <3>1. j + 1 \in 2 .. Len(es) + 1 /\ (j + 1) - 1 = j
      BY <2>1
    <3> QED
      BY <2>4, <3>1
  <2>6. c \notin {CR, LF}
    BY <1>2, <2>1 DEF CR, LF, QUOT, AMP, APOS, LT, GT
  <2> QED
    BY <1>2, <2>4, <2>5, <2>6 DEF AsEntityOf, es
<1> QED
  BY <1>1, <1>2, PrintedIs

\* No two entities begin with the same two letters.
LEMMA EntityUnique ==
    ASSUME NEW d \in Entities, NEW e \in Entities, d[1][1] = e[1][1], d[1][2] = e[1][2]
    PROVE  d = e
BY SMTT(30) DEF Entities, QUOT, AMP, APOS, LT, GT

\* The text at the read pointer: the character s[k] as it was printed, and what
\* comes after it.
LEMMA CharAhead ==
    ASSUME BufferInv, PrintInv, job.print, pc = "flush", p < Len(b),
           NEW at, NEW k, NEW f, ReadUpTo(at, k, f),
           NEW cs, cs = Printed(job.s[k], Restricted),
           NEW ds, ds = Printed(job.s[k + 1], Restricted)
    PROVE  /\ k \in 1 .. Len(job.s) /\ Len(cs) \in Nat
           /\ at[k + 1] = p + Len(cs) /\ at[k + 1] <= Len(b)
           /\ \A j \in 1 .. Len(cs) : b[p + j - 1] = cs[j]
           /\ k + 1 <= Len(job.s) =>
                at[k + 2] = at[k + 1] + Len(ds) /\ (Len(ds) >= 1 => b[at[k + 1]] = ds[1])
           /\ k = Len(job.s) => b[at[k + 1]] = NUL
<1> DEFINE s == job.s
           N == Len(s)
<1>1. s \in Seq(1 .. 255) /\ N \in Nat /\ text \in Seq(1 .. 255) /\ Len(text) \in Nat
  BY JobType DEF BufferInv, TypeOK
<1>2. Len(b) = Len(text) + 1 /\ src = Append(text, NUL)
  BY DEF PrintInv
<1>3. p \in Nat \ {0} /\ \A i \in p .. Len(b) : b[i] = src[i]
  BY Unread DEF BufferInv
<1>4. (\A i \in 1 .. Len(text) : src[i] = text[i]) /\ src[Len(text) + 1] = NUL
  BY <1>1, <1>2, AppendProperties
<1>5. (\A i \in p .. Len(text) : b[i] = text[i]) /\ b[Len(text) + 1] = NUL
  BY <1>1, <1>2, <1>3, <1>4
<1>6. /\ at \in [1 .. N + 1 -> Nat \ {0}] /\ at[N + 1] = Len(text) + 1
      /\ \A i \in 1 .. N :
           /\ at[i + 1] = at[i] + Len(Printed(s[i], Restricted)) /\ at[i + 1] <= Len(text) + 1
           /\ \A j \in 1 .. Len(Printed(s[i], Restricted)) :
                text[at[i] + j - 1] = Printed(s[i], Restricted)[j]
  <2>1. (N + 1) - 1 = N
    BY <1>1
  <2> QED
    BY <2>1 DEF ReadUpTo, Layout
<1>7. k \in 1 .. N + 1 /\ p = at[k]
  BY DEF ReadUpTo
<1>8. k \in 1 .. N
  BY <1>1, <1>2, <1>6, <1>7
<1>9. /\ at[k + 1] = p + Len(cs) /\ at[k + 1] <= Len(text) + 1
      /\ \A j \in 1 .. Len(cs) : text[p + j - 1] = cs[j]
  BY <1>6, <1>7, <1>8
<1>10. Len(cs) \in Nat
  <2>1. s[k] \in 1 .. 255 /\ Restricted \in BOOLEAN
    BY <1>1, <1>8, ElementOfSeq DEF Restricted
  <2>2. cs \in Seq(1 .. 255)
    BY <2>1, PrintedChars
  <2> QED
    BY <2>2
<1>11. ASSUME NEW j \in 1 .. Len(cs)
       PROVE  b[p + j - 1] = cs[j]
  <2>1. p + j - 1 \in p .. Len(text)
    BY <1>1, <1>3, <1>9, <1>10
  <2> QED
    BY <1>5, <1>9, <2>1
<1>12. ASSUME k + 1 <= N
       PROVE  at[k + 2] = at[k + 1] + Len(ds) /\ (Len(ds) >= 1 => b[at[k + 1]] = ds[1])
  <2>1. k + 1 \in 1 .. N /\ (k + 1) + 1 = k + 2 /\ k + 1 \in 1 .. N + 1
    BY <1>1, <1>8, <1>12
  <2>2. /\ at[k + 2] = at[k + 1] + Len(ds) /\ at[k + 2] <= Len(text) + 1
        /\ \A j \in 1 .. Len(ds) : text[at[k + 1] + j - 1] = ds[j]
    BY <1>6, <2>1
  <2>3. at[k + 1] \in Nat /\ at[k + 1] + 1 - 1 = at[k + 1]
    BY <1>6, <2>1
  <2>4. Len(ds) \in Nat
    <3>1. s[k + 1] \in 1 .. 255 /\ Restricted \in BOOLEAN
      BY <1>1, <2>1, ElementOfSeq DEF Restricted
    <3>2. ds \in Seq(1 .. 255)
      BY <3>1, PrintedChars
    <3> QED
      BY <3>2
  <2>5. ASSUME Len(ds) >= 1
        PROVE  b[at[k + 1]] = ds[1]
    <3>1. text[at[k + 1]] = ds[1]
      <4>1. 1 \in 1 .. Len(ds)
        BY <2>4, <2>5
      <4>2. text[at[k + 1] + 1 - 1] = ds[1]
        BY <2>2, <4>1
      <4> QED
        BY <2>3, <4>2
    <3>2. at[k + 1] \in p .. Len(text)
      BY <1>1, <1>3, <1>9, <1>10, <2>2, <2>3, <2>4, <2>5
    <3> QED
      BY <1>5, <3>1, <3>2
  <2> QED
    BY <2>2, <2>5
<1>13. k = N => b[at[k + 1]] = NUL
  BY <1>5, <1>6
<1> QED
  BY <1>2, <1>8, <1>9, <1>10, <1>11, <1>12, <1>13

\* A step of the loop that writes what s[k] gives and goes on at the character
\* k + step.
LEMMA ReadStep ==
    ASSUME BufferInv, BufferInv', PrintInv, job.print, pc = "flush", pc' = "flush",
           UNCHANGED <<job, text, start, src>>,
           NEW at, NEW k \in 1 .. Len(job.s), NEW f, ReadUpTo(at, k, f),
           NEW step \in {1, 2}, k + step <= Len(job.s) + 1,
           step = 1 /\ k + 1 <= Len(job.s) => ~ Pair(job.s, k + 1),
           step = 2 => Pair(job.s, k + 1),
           NEW c, c = LineChar(job.s[k]), Emit(<<c>>, at[k + step])
    PROVE  PrintInv'
<1> DEFINE s == job.s
<1>1. s \in Seq(1 .. 255) /\ s[k] \in 1 .. 255
  BY JobType, ElementOfSeq DEF BufferInv
<1>2. c \in Byte /\ <<c>> \in Seq(Byte) /\ Len(<<c>>) = 1 /\ <<c>>[1] = c
  <2>1. c \in Byte
    BY <1>1 DEF LineChar, CR, LF, Byte
  <2> QED
    BY <2>1
<1>3. q \in Nat \ {0} /\ q <= Len(b) /\ Len(b) \in Nat /\ b \in Seq(Byte)
  BY Unread DEF BufferInv, TypeOK
<1> DEFINE z == <<c>>
           m == q - 1
<1>4. b' = Put(b, q, z) /\ q' = q + 1 /\ p' = at[k + step] /\ z \in Seq(Byte)
  BY <1>2 DEF Emit
<1>5. Len(z) = 1 /\ z[1] = c
  BY <1>2
<1> HIDE DEF z
<1>6. /\ Len(b') = Len(b)
      /\ \A i \in 1 .. Len(b) : b'[i] = IF i \in q .. q + Len(z) - 1 THEN z[i - q + 1] ELSE b[i]
  BY <1>3, <1>4, PutChanges
<1>7. (\A i \in 1 .. q - 1 : b'[i] = b[i]) /\ b'[(q - 1) + 1] = c
  <2>1. ASSUME NEW i \in 1 .. q - 1
        PROVE  b'[i] = b[i]
    BY <1>3, <1>6, <1>5
  <2>2. b'[q] = c
    <3>1. q \in 1 .. Len(b) /\ q \in q .. q + Len(z) - 1 /\ q - q + 1 = 1
      BY <1>3, <1>5
    <3> QED
      BY <1>6, <1>5, <3>1
  <2>3. (q - 1) + 1 = q
    BY <1>3
  <2> QED
    BY <2>1, <2>2, <2>3
<1>8. /\ Copied(s, b, m, f, k) /\ Layout(s, Restricted, text, at, Len(s) + 1) /\ m \in Nat
      /\ k \in 1 .. Len(s) /\ k + step <= Len(s) + 1
      /\ (step = 1 /\ k + 1 <= Len(s) => ~ Pair(s, k + 1)) /\ (step = 2 => Pair(s, k + 1))
      /\ (\A i \in 1 .. m : b'[i] = b[i]) /\ b'[m + 1] = LineChar(s[k])
  BY <1>3, <1>7 DEF ReadUpTo
<1> HIDE DEF s, m
<1>9. PICK g : Copied(s, b', m + 1, g, k + step)
  BY <1>1, <1>8, CopiedGrows
<1>10. m + 1 = q' - 1
  BY <1>3, <1>4 DEF m
<1>11. k + step \in 1 .. Len(s) + 1
  BY <1>1, <1>8
<1>12. ReadUpTo(at, k + step, g)'
  BY <1>4, <1>8, <1>9, <1>10, <1>11 DEF ReadUpTo, Restricted, s
<1> QED
  BY <1>6, <1>12 DEF PrintInv

LEMMA TwoEnds ==
    ASSUME NEW x \in {CR, LF}, NEW y
    PROVE  {x, y} = {CR, LF} <=> y \in {CR, LF} \ {x}
<1>1. CR # LF
  BY DEF CR, LF
<1>2. CASE x = CR
  BY <1>1, <1>2
<1>3. CASE x = LF
  BY <1>1, <1>3
<1> QED
  BY <1>2, <1>3

LEMMA LineEndPrint == BufferInv /\ BufferInv' /\ PrintInv /\ LineEnd => PrintInv'
<1> SUFFICES ASSUME BufferInv, BufferInv', PrintInv, LineEnd, job.print
             PROVE  PrintInv'
  BY DEF PrintInv, LineEnd
<1> DEFINE s == job.s
<1>1. /\ pc = "flush" /\ pc' = "flush" /\ p < Len(b) /\ Newline(b, p) > 0
      /\ Emit(<<LF>>, p + Newline(b, p))
      /\ UNCHANGED <<job, text, start, src>>
  BY DEF LineEnd, Reading
<1>2. PICK at, k, f : ReadUpTo(at, k, f)
  BY <1>1 DEF PrintInv
<1> DEFINE cs == Printed(s[k], Restricted)
           ds == Printed(s[k + 1], Restricted)
<1>3. /\ k \in 1 .. Len(s) /\ Len(cs) \in Nat
      /\ at[k + 1] = p + Len(cs) /\ at[k + 1] <= Len(b)
      /\ \A j \in 1 .. Len(cs) : b[p + j - 1] = cs[j]
      /\ k + 1 <= Len(s) =>
           at[k + 2] = at[k + 1] + Len(ds) /\ (Len(ds) >= 1 => b[at[k + 1]] = ds[1])
      /\ k = Len(s) => b[at[k + 1]] = NUL
  BY <1>1, <1>2, CharAhead
<1>4. p \in Nat \ {0} /\ s \in Seq(1 .. 255) /\ Len(s) \in Nat /\ Restricted \in BOOLEAN
  BY JobType DEF BufferInv, TypeOK, Restricted
<1>5. b[p] \in {CR, LF}
  BY <1>1 DEF Newline
<1>6. AsItself(s[k], cs)
  <2>1. s[k] \in 1 .. 255
    BY <1>3, <1>4, ElementOfSeq
  <2>2. ASSUME NEW e \in Entities, AsEntityOf(e, s[k], cs)
        PROVE  FALSE
    <3>1. cs[1] = AMP /\ Len(cs) = Len(e[1]) + 2 /\ Len(e[1]) \in 2 .. 4
      BY <2>2, EntityForm DEF AsEntityOf
    <3>2. 1 \in 1 .. Len(cs) /\ p + 1 - 1 = p
      BY <1>4, <3>1
    <3>3. b[p] = AMP
      BY <1>3, <3>1, <3>2
    <3> QED
      BY <1>5, <3>3 DEF AMP, CR, LF
  <2> QED
    BY <1>4, <2>1, <2>2, PrintedForms
<1>7. s[k] = b[p] /\ at[k + 1] = p + 1
  <2>1. Len(cs) = 1 /\ cs[1] = s[k] /\ 1 \in 1 .. Len(cs) /\ p + 1 - 1 = p
    BY <1>4, <1>6 DEF AsItself
  <2>2. b[p + 1 - 1] = cs[1]
    BY <1>3, <2>1
  <2> QED
    BY <1>3, <2>1, <2>2
<1>8. LF = LineChar(s[k])
  BY <1>5, <1>7 DEF LineChar
<1>9. ASSUME k + 1 <= Len(s)
      PROVE  /\ Pair(s, k + 1) <=> b[p + 1] \in {CR, LF} \ {b[p]}
             /\ Pair(s, k + 1) => at[k + 2] = p + 2
  <2>1. k + 1 \in 1 .. Len(s) /\ k + 1 > 1 /\ (k + 1) - 1 = k
    BY <1>3, <1>4, <1>9
  <2>2. s[k + 1] \in 1 .. 255
    BY <1>4, <2>1, ElementOfSeq
  <2>3. Pair(s, k + 1) <=> s[k + 1] \in {CR, LF} \ {s[k]}
    <3>1. Pair(s, k + 1) <=> {s[k], s[k + 1]} = {CR, LF}
      BY <2>1 DEF Pair
    <3>2. s[k] \in {CR, LF}
      BY <1>5, <1>7
    <3> QED
      BY <3>1, <3>2, TwoEnds
  <2>4. CASE AsItself(s[k + 1], ds)
    <3>1. Len(ds) = 1 /\ ds[1] = s[k + 1]
      BY <2>4 DEF AsItself
    <3>2. b[p + 1] = s[k + 1] /\ at[k + 2] = p + 2
      BY <1>3, <1>4, <1>7, <1>9, <3>1
    <3> QED
      BY <1>7, <2>3, <3>2
  <2>5. ASSUME NEW e \in Entities, AsEntityOf(e, s[k + 1], ds)
        PROVE  s[k + 1] \notin {CR, LF} /\ b[p + 1] \notin {CR, LF}
    <3>1. /\ ds[1] = AMP /\ Len(ds) = Len(e[1]) + 2 /\ Len(e[1]) \in 2 .. 4
          /\ s[k + 1] \notin {CR, LF}
      BY <2>5, EntityForm DEF AsEntityOf
    <3>2. b[p + 1] = AMP
      BY <1>3, <1>7, <1>9, <3>1
    <3> QED
      BY <3>1, <3>2 DEF AMP, CR, LF
  <2> QED
    BY <1>4, <2>2, <2>3, <2>4, <2>5, PrintedForms
<1>10. k = Len(s) => b[p + 1] = NUL
  BY <1>3, <1>7
<1>11. k \in 1 .. Len(job.s)
  BY <1>3
<1> HIDE DEF s, cs, ds
<1>12. CASE b[p + 1] \in {CR, LF} \ {b[p]}
  <2>1. k + 1 <= Len(s)
    BY <1>3, <1>4, <1>10, <1>12 DEF CR, LF, NUL
  <2>2. Newline(b, p) = 2
    BY <1>5, <1>12 DEF Newline
  <2>3. Pair(s, k + 1) /\ at[k + 2] = p + 2 /\ k + 2 <= Len(s) + 1
    BY <1>3, <1>4, <1>9, <1>12, <2>1
  <2>4. Emit(<<LF>>, at[k + 2])
    BY <1>1, <2>2, <2>3
  <2>5. /\ 2 \in {1, 2} /\ k + 2 <= Len(job.s) + 1
        /\ (2 = 1 /\ k + 1 <= Len(job.s) => ~ Pair(job.s, k + 1))
        /\ (2 = 2 => Pair(job.s, k + 1))
    BY <2>3 DEF s
  <2>6. LF = LineChar(job.s[k])
    BY <1>8 DEF s
  <2> QED
    BY <1>1, <1>2, <1>11, <2>4, <2>5, <2>6, ReadStep
<1>13. CASE b[p + 1] \notin {CR, LF} \ {b[p]}
  <2>1. Newline(b, p) = 1
    BY <1>5, <1>13 DEF Newline
  <2>2. k + 1 <= Len(s) => ~ Pair(s, k + 1)
    BY <1>9, <1>13
  <2>3. Emit(<<LF>>, at[k + 1]) /\ k + 1 <= Len(s) + 1
    BY <1>1, <1>3, <1>4, <1>7, <2>1
  <2>4. /\ 1 \in {1, 2} /\ k + 1 <= Len(job.s) + 1
        /\ (1 = 1 /\ k + 1 <= Len(job.s) => ~ Pair(job.s, k + 1))
        /\ (1 = 2 => Pair(job.s, k + 1))
    BY <2>2, <2>3 DEF s
  <2>5. LF = LineChar(job.s[k])
    BY <1>8 DEF s
  <2> QED
    BY <1>1, <1>2, <1>11, <2>3, <2>4, <2>5, ReadStep
<1> QED
  BY <1>12, <1>13

LEMMA PlainPrint == BufferInv /\ BufferInv' /\ PrintInv /\ Plain => PrintInv'
<1> SUFFICES ASSUME BufferInv, BufferInv', PrintInv, Plain, job.print
             PROVE  PrintInv'
  BY DEF PrintInv, Plain
<1> DEFINE s == job.s
<1>1. /\ pc = "flush" /\ pc' = "flush" /\ p < Len(b) /\ Newline(b, p) = 0 /\ b[p] # AMP
      /\ Emit(<<b[p]>>, p + 1)
      /\ UNCHANGED <<job, text, start, src>>
  BY JobType DEF Plain, Reading, BufferInv
<1>2. PICK at, k, f : ReadUpTo(at, k, f)
  BY <1>1 DEF PrintInv
<1> DEFINE cs == Printed(s[k], Restricted)
<1>3. /\ k \in 1 .. Len(s) /\ Len(cs) \in Nat
      /\ at[k + 1] = p + Len(cs)
      /\ \A j \in 1 .. Len(cs) : b[p + j - 1] = cs[j]
  BY <1>1, <1>2, CharAhead
<1>4. p \in Nat \ {0} /\ s \in Seq(1 .. 255) /\ Len(s) \in Nat /\ Restricted \in BOOLEAN
  BY JobType DEF BufferInv, TypeOK, Restricted
<1>5. b[p] \notin {CR, LF}
  BY <1>1 DEF Newline
<1>6. AsItself(s[k], cs)
  <2>1. s[k] \in 1 .. 255
    BY <1>3, <1>4, ElementOfSeq
  <2>2. ASSUME NEW e \in Entities, AsEntityOf(e, s[k], cs)
        PROVE  FALSE
    <3>1. cs[1] = AMP /\ Len(cs) = Len(e[1]) + 2 /\ Len(e[1]) \in 2 .. 4
      BY <2>2, EntityForm DEF AsEntityOf
    <3>2. 1 \in 1 .. Len(cs) /\ p + 1 - 1 = p
      BY <1>4, <3>1
    <3> QED
      BY <1>1, <1>3, <3>1, <3>2
  <2> QED
    BY <1>4, <2>1, <2>2, PrintedForms
<1>7. s[k] = b[p] /\ at[k + 1] = p + 1
  <2>1. Len(cs) = 1 /\ cs[1] = s[k] /\ 1 \in 1 .. Len(cs) /\ p + 1 - 1 = p
    BY <1>4, <1>6 DEF AsItself
  <2>2. b[p + 1 - 1] = cs[1]
    BY <1>3, <2>1
  <2> QED
    BY <1>3, <2>1, <2>2
<1> HIDE DEF s, cs
<1>8. b[p] = LineChar(s[k])
  BY <1>5, <1>7 DEF LineChar
<1>9. k + 1 <= Len(s) => ~ Pair(s, k + 1)
  <2>1. (k + 1) - 1 = k
    BY <1>3, <1>4
  <2> QED
    BY <1>5, <1>7, <2>1 DEF Pair
<1>10. Emit(<<b[p]>>, at[k + 1]) /\ k + 1 <= Len(s) + 1
  BY <1>1, <1>3, <1>4, <1>7
<1> QED
  BY <1>1, <1>2, <1>3, <1>8, <1>9, <1>10, ReadStep DEF s

\* At an "&" of a text that was printed: the entity of s[k].
LEMMA AmpAhead ==
    ASSUME BufferInv, PrintInv, job.print, pc = "flush", p < Len(b), b[p] = AMP,
           NEW at, NEW k, NEW f, ReadUpTo(at, k, f)
    PROVE  /\ k \in 1 .. Len(job.s)
           /\ \E e \in Entities :
                /\ job.s[k] = e[2] /\ job.s[k] \notin {CR, LF}
                /\ at[k + 1] = p + Len(e[1]) + 2 /\ p + Len(e[1]) + 2 <= Len(b)
                /\ \A j \in 1 .. Len(e[1]) : b[p + j] = e[1][j]
                /\ b[p + Len(e[1]) + 1] = SEMI
<1> DEFINE s == job.s
           cs == Printed(s[k], Restricted)
<1>1. /\ k \in 1 .. Len(s) /\ Len(cs) \in Nat
      /\ at[k + 1] = p + Len(cs) /\ at[k + 1] <= Len(b)
      /\ \A j \in 1 .. Len(cs) : b[p + j - 1] = cs[j]
  BY CharAhead
<1>2. p \in Nat \ {0} /\ s \in Seq(1 .. 255) /\ Len(s) \in Nat /\ Restricted \in BOOLEAN
  BY JobType DEF BufferInv, TypeOK, Restricted
<1>3. s[k] \in 1 .. 255
  BY <1>1, <1>2, ElementOfSeq
<1>4. ~ AsItself(s[k], cs)
  <2>1. ASSUME AsItself(s[k], cs)
        PROVE  FALSE
    <3>1. Len(cs) = 1 /\ cs[1] = s[k] /\ s[k] # AMP /\ 1 \in 1 .. Len(cs) /\ p + 1 - 1 = p
      BY <1>2, <2>1 DEF AsItself
    <3>2. b[p + 1 - 1] = cs[1]
      BY <1>1, <3>1
    <3> QED
      BY <3>1, <3>2
  <2> QED
    BY <2>1
<1>5. PICK e \in Entities : AsEntityOf(e, s[k], cs)
  BY <1>2, <1>3, <1>4, PrintedForms
<1> DEFINE es == e[1]
<1>6. /\ s[k] = e[2] /\ s[k] \notin {CR, LF}
      /\ Len(cs) = Len(es) + 2 /\ cs[Len(es) + 2] = SEMI
      /\ \A j \in 1 .. Len(es) : cs[j + 1] = es[j]
  BY <1>5 DEF AsEntityOf
<1>7. Len(es) \in 2 .. 4
  BY EntityForm
<1> HIDE DEF cs, es, s
<1>8. at[k + 1] = p + Len(es) + 2 /\ p + Len(es) + 2 <= Len(b)
  BY <1>1, <1>2, <1>6, <1>7
<1>9. ASSUME NEW j \in 1 .. Len(es)
      PROVE  b[p + j] = es[j]
  <2>1. j + 1 \in 1 .. Len(cs) /\ p + (j + 1) - 1 = p + j
    BY <1>2, <1>6, <1>7
  <2>2. b[p + (j + 1) - 1] = cs[j + 1]
    BY <1>1, <2>1
  <2> QED
    BY <1>6, <2>1, <2>2
<1>10. b[p + Len(es) + 1] = SEMI
  <2>1. Len(es) + 2 \in 1 .. Len(cs) /\ p + (Len(es) + 2) - 1 = p + Len(es) + 1
    BY <1>2, <1>6, <1>7
  <2>2. b[p + (Len(es) + 2) - 1] = cs[Len(es) + 2]
    BY <1>1, <2>1
  <2> QED
    BY <1>6, <2>1, <2>2
<1> QED
  BY <1>1, <1>6, <1>8, <1>9, <1>10 DEF es, s

\* What EntityAt looks at.
LEMMA EntityBytes ==
    ASSUME NEW w \in Seq(Byte), NEW i \in Nat \ {0}, NEW e \in Entities, i + Len(e[1]) + 1 <= Len(w)
    PROVE  SubSeq(w, i + 1, i + Len(e[1]) + 1) = e[1] \o <<SEMI>> <=>
             (\A j \in 1 .. Len(e[1]) : w[i + j] = e[1][j]) /\ w[i + Len(e[1]) + 1] = SEMI
<1> DEFINE es == e[1]
           n == Len(es)
           u == SubSeq(w, i + 1, i + n + 1)
           v == es \o <<SEMI>>
<1>1. es \in Seq(1 .. 255) /\ n \in 2 .. 4 /\ i + n + 1 <= Len(w)
  BY EntityForm
<1> HIDE DEF es
<1>2. <<SEMI>> \in Seq(Byte) /\ Len(<<SEMI>>) = 1 /\ <<SEMI>>[1] = SEMI
  BY DEF SEMI, Byte
<1>3. es \in Seq(Byte)
  BY <1>1, SeqMonotonic DEF Byte
<1>4. /\ v \in Seq(Byte) /\ Len(v) = n + 1
      /\ \A j \in 1 .. n + 1 : v[j] = IF j <= n THEN es[j] ELSE <<SEMI>>[j - n]
  BY <1>1, <1>2, <1>3, ConcatProperties
<1>5. (\A j \in 1 .. n : v[j] = es[j]) /\ v[n + 1] = SEMI
  <2> HIDE DEF v
  <2>1. \A j \in 1 .. n : j \in 1 .. n + 1 /\ j <= n
    BY <1>1
  <2>2. n + 1 \in 1 .. n + 1 /\ ~ (n + 1 <= n) /\ (n + 1) - n = 1
    BY <1>1
  <2> QED
    BY <1>2, <1>4, <2>1, <2>2
<1>6. /\ u \in Seq(Byte) /\ Len(u) = n + 1
      /\ \A j \in 1 .. n + 1 : u[j] = w[i + j]
  <2>1. i + 1 \in Int /\ i + n + 1 \in Int /\ i + 1 <= i + n + 1
        /\ (i + n + 1) - (i + 1) + 1 = n + 1 /\ \A j \in 1 .. n + 1 : (i + 1) + j - 1 = i + j
    BY <1>1
  <2>2. \A j \in i + 1 .. i + n + 1 : w[j] \in Byte
    BY <1>1
  <2>3. /\ u \in Seq(Byte)
        /\ Len(u) = IF i + 1 <= i + n + 1 THEN (i + n + 1) - (i + 1) + 1 ELSE 0
        /\ \A j \in 1 .. (i + n + 1) - (i + 1) + 1 : u[j] = w[(i + 1) + j - 1]
    BY <2>1, <2>2, SubSeqProperties
  <2> HIDE DEF u
  <2> QED
    BY <2>1, <2>3
<1> HIDE DEF u, v, n
<1>7. (\A j \in 1 .. n : w[i + j] = es[j]) /\ w[i + n + 1] = SEMI => u = v
  <2> SUFFICES ASSUME \A j \in 1 .. n : w[i + j] = es[j], w[i + n + 1] = SEMI
               PROVE  u = v
    OBVIOUS
  <2>1. ASSUME NEW j \in 1 .. n + 1
        PROVE  u[j] = v[j]
    <3>1. CASE j \in 1 .. n
      BY <1>5, <1>6, <3>1
    <3>2. CASE j \notin 1 .. n
      <4>1. j = n + 1 /\ i + j = i + n + 1
        BY <1>1, <3>2
      <4> QED
        BY <1>5, <1>6, <4>1
    <3> QED
      BY <3>1, <3>2
  <2> QED
    BY <1>4, <1>6, <2>1, SeqEqual
<1>8. u = v => (\A j \in 1 .. n : w[i + j] = es[j]) /\ w[i + n + 1] = SEMI
  <2>1. \A j \in 1 .. n : j \in 1 .. n + 1
    BY <1>1
  <2>2. n + 1 \in 1 .. n + 1 /\ i + (n + 1) = i + n + 1
    BY <1>1
  <2> QED
    BY <1>5, <1>6, <2>1, <2>2
<1> QED
  BY <1>7, <1>8 DEF es, u, v, n

LEMMA EntityPrint == BufferInv /\ BufferInv' /\ PrintInv /\ Entity => PrintInv'
<1> SUFFICES ASSUME BufferInv, BufferInv', PrintInv, Entity, job.print
             PROVE  PrintInv'
  BY DEF PrintInv, Entity
<1>1. /\ pc = "flush" /\ pc' = "flush" /\ p < Len(b) /\ b[p] = AMP
      /\ UNCHANGED <<job, text, start, src>>
  BY DEF Entity, Reading
<1>2. PICK at, k, f : ReadUpTo(at, k, f)
  BY <1>1 DEF PrintInv
<1>3. k \in 1 .. Len(job.s)
  BY <1>1, <1>2, AmpAhead
<1>4. PICK e \in Entities :
        /\ job.s[k] = e[2] /\ job.s[k] \notin {CR, LF}
        /\ at[k + 1] = p + Len(e[1]) + 2 /\ p + Len(e[1]) + 2 <= Len(b)
        /\ \A j \in 1 .. Len(e[1]) : b[p + j] = e[1][j]
        /\ b[p + Len(e[1]) + 1] = SEMI
  BY <1>1, <1>2, AmpAhead
<1>5. p \in Nat \ {0} /\ b \in Seq(Byte) /\ Len(b) \in Nat /\ Len(job.s) \in Nat
  BY JobType DEF BufferInv, TypeOK
<1>6. e \in EntityAt(b, p)
  <2>1. p + Len(e[1]) + 1 <= Len(b)
    <3>1. Len(e[1]) \in 2 .. 4
      BY EntityForm
    <3> QED
      BY <1>4, <1>5, <3>1
  <2>2. SubSeq(b, p + 1, p + Len(e[1]) + 1) = e[1] \o <<SEMI>>
    BY <1>4, <1>5, <2>1, EntityBytes
  <2> QED
    BY <2>1, <2>2 DEF EntityAt
<1>7. ASSUME NEW d \in EntityAt(b, p)
      PROVE  d = e
  <2>1. d \in Entities /\ p + Len(d[1]) + 1 <= Len(b)
        /\ SubSeq(b, p + 1, p + Len(d[1]) + 1) = d[1] \o <<SEMI>>
    BY DEF EntityAt
  <2>2. \A j \in 1 .. Len(d[1]) : b[p + j] = d[1][j]
    BY <1>5, <2>1, EntityBytes
  <2>3. Len(d[1]) \in 2 .. 4 /\ Len(e[1]) \in 2 .. 4
    BY <2>1, EntityForm
  <2>4. \A n \in 2 .. 4 : 1 \in 1 .. n /\ 2 \in 1 .. n
    OBVIOUS
  <2>5. d[1][1] = e[1][1] /\ d[1][2] = e[1][2]
    BY <1>4, <2>2, <2>3, <2>4
  <2> QED
    BY <2>1, <2>5, EntityUnique
<1>8. Emit(<<e[2]>>, p + Len(e[1]) + 2)
  BY <1>6, <1>7 DEF Entity
<1>9. Emit(<<e[2]>>, at[k + 1])
  BY <1>4, <1>8
<1>10. e[2] = LineChar(job.s[k])
  BY <1>4 DEF LineChar
<1>11. /\ 1 \in {1, 2} /\ k + 1 <= Len(job.s) + 1
       /\ (1 = 1 /\ k + 1 <= Len(job.s) => ~ Pair(job.s, k + 1))
       /\ (1 = 2 => Pair(job.s, k + 1))
  <2>1. (k + 1) - 1 = k /\ k + 1 <= Len(job.s) + 1
    BY <1>3, <1>5
  <2>2. Pair(job.s, k + 1) => job.s[k] \in {CR, LF}
    BY <2>1 DEF Pair
  <2> QED
    BY <1>4, <2>1, <2>2
<1> QED
  BY <1>1, <1>2, <1>3, <1>9, <1>10, <1>11, ReadStep

\* No "&#" is printed.
LEMMA CharacterRefPrint == BufferInv /\ PrintInv /\ CharacterRef => PrintInv'
<1> SUFFICES ASSUME BufferInv, PrintInv, CharacterRef, job.print
             PROVE  FALSE
  BY DEF PrintInv, CharacterRef
<1>1. pc = "flush" /\ p < Len(b) /\ b[p] = AMP /\ b[p + 1] = HASH
  BY DEF CharacterRef, Reading
<1>2. PICK at, k, f : ReadUpTo(at, k, f)
  BY <1>1 DEF PrintInv
<1>3. PICK e \in Entities : \A j \in 1 .. Len(e[1]) : b[p + j] = e[1][j]
  BY <1>1, <1>2, AmpAhead
<1>4. Len(e[1]) \in 2 .. 4 /\ \A i \in 1 .. Len(e[1]) : e[1][i] \in 97 .. 122
  BY EntityForm
<1>5. 1 \in 1 .. Len(e[1])
  BY <1>4
<1>6. b[p + 1] \in 97 .. 122
  BY <1>3, <1>4, <1>5
<1> QED
  BY <1>1, <1>6 DEF HASH

LEMMA InitPrint == Init => PrintInv
<1> SUFFICES ASSUME Init, job.print
             PROVE  PrintInv
  BY DEF PrintInv
<1> DEFINE at == [i \in 1 .. 1 |-> 1]
           t == <<>>
<1>1. pc = "print" /\ text = <<>> /\ p = 1 /\ start = 1 /\ job \in Jobs
  BY DEF Init
<1>2. at \in [1 .. 1 -> Nat \ {0}] /\ at[1] = 1 /\ Len(<<>>) + 1 = 1 /\ 1 - 1 = 0 /\ Len(<<>>) = 0
  OBVIOUS
<1>3. 1 .. 0 = {}
  OBVIOUS
<1>4. Layout(job.s, Restricted, text, at, 1)
  <2> HIDE DEF at
  <2> QED
    BY <1>1, <1>2, <1>3 DEF Layout
<1>5. PrintedUpTo(p)
  <2> HIDE DEF at
  <2> QED
    BY <1>1, <1>4 DEF PrintedUpTo
<1>6. p <= Len(job.s) + 1
  <2>1. job.s \in Seq(1 .. 255)
    BY <1>1, JobType
  <2>2. Len(job.s) \in Nat
    BY <2>1
  <2> QED
    BY <1>1, <2>2
<1>7. \A i \in 1 .. Len(text) : text[i] # job.end
  BY <1>1, <1>2, <1>3
<1> QED
  BY <1>1, <1>5, <1>6, <1>7 DEF PrintInv

\* The printer and the reader agree on the end tag.
LEMMA EndTag ==
    ASSUME job \in Jobs, job.print
    PROVE  job.end = (IF Restricted THEN LT ELSE QUOT) /\ Restricted \in BOOLEAN
BY JobType DEF Restricted

LEMMA PrintStringPrint == BufferInv /\ PrintInv /\ PrintString => PrintInv'
<1> SUFFICES ASSUME BufferInv, PrintInv, PrintString, job.print
             PROVE  PrintInv'
  BY DEF PrintInv, PrintString
<1> DEFINE s == job.s
<1>1. pc = "print" /\ UNCHANGED <<job, b, start, q, ref, src>>
  BY DEF PrintString
<1>2. /\ s \in Seq(1 .. 255) /\ Len(s) \in Nat /\ p \in Nat \ {0} /\ text \in Seq(1 .. 255)
      /\ job \in Jobs
  BY JobType DEF BufferInv, TypeOK
<1>3. /\ start = 1 /\ p <= Len(s) + 1 /\ PrintedUpTo(p)
      /\ \A i \in 1 .. Len(text) : text[i] # job.end
  BY <1>1 DEF PrintInv
<1>4. CASE p <= Len(s)
  <2> DEFINE cs == Printed(s[p], Restricted)
  <2>1. text' = text \o cs /\ p' = p + 1 /\ pc' = "print"
    BY <1>1, <1>4 DEF PrintString, Restricted
  <2>2. p \in 1 .. Len(s) /\ s[p] \in 1 .. 255
    <3>1. p \in 1 .. Len(s)
      BY <1>2, <1>4
    <3> HIDE DEF s
    <3> QED
      BY <1>2, <3>1, ElementOfSeq
  <2>3. cs \in Seq(1 .. 255) /\ \A i \in 1 .. Len(cs) : cs[i] # job.end
    BY <1>2, <2>2, EndTag, PrintedChars
  <2>4. PICK at : Layout(s, Restricted, text, at, p)
    BY <1>3 DEF PrintedUpTo
  <2>5. PICK at2 : Layout(s, Restricted, text \o cs, at2, p + 1)
    BY <1>2, <2>2, <2>4, EndTag, LayoutGrows
  <2>6. PrintedUpTo(p)'
    <3> HIDE DEF cs
    <3> QED
      BY <1>1, <2>1, <2>5 DEF PrintedUpTo, Restricted
  <2>7. ASSUME NEW i \in 1 .. Len(text')
        PROVE  text'[i] # job.end
    <3> HIDE DEF cs
    <3>1. /\ Len(text') = Len(text) + Len(cs)
          /\ text'[i] = IF i <= Len(text) THEN text[i] ELSE cs[i - Len(text)]
      BY <1>2, <2>1, <2>3, ConcatProperties
    <3>2. Len(text) \in Nat /\ Len(cs) \in Nat
      BY <1>2, <2>3
    <3>3. (i <= Len(text) => i \in 1 .. Len(text)) /\ (~ (i <= Len(text)) => i - Len(text) \in 1 .. Len(cs))
      BY <3>1, <3>2
    <3> QED
      BY <1>3, <2>3, <3>1, <3>3
  <2>8. p' <= Len(job.s) + 1
    BY <1>2, <1>4, <2>1
  <2> QED
    BY <1>1, <1>3, <2>1, <2>6, <2>7, <2>8 DEF PrintInv
<1>5. CASE ~ (p <= Len(s))
  <2>1. pc' = "parse" /\ UNCHANGED <<text, p>> /\ p = Len(s) + 1
    BY <1>2, <1>3, <1>5 DEF PrintString
  <2>2. PrintedUpTo(Len(s) + 1)'
    BY <1>1, <1>3, <2>1 DEF PrintedUpTo, Restricted
  <2> QED
    BY <1>1, <1>3, <2>1, <2>2 DEF PrintInv
<1> QED
  BY <1>4, <1>5

\* The first end tag is the one that was put behind the text.
LEMMA FirstEnd ==
    ASSUME BufferInv, job.print, \A i \in 1 .. Len(text) : text[i] # job.end,
           NEW whole, whole = Append(text, job.end)
    PROVE  /\ StrChr(whole, 1, job.end) = {Len(text) + 1}
           /\ SubSeq(whole, 1, Len(text)) = text
<1>1. /\ job.end \in 1 .. 255 /\ text \in Seq(1 .. 255) /\ Len(text) \in Nat
      /\ \A i \in 1 .. Len(text) : text[i] \in 1 .. 255
  <2>1. job.end \in 1 .. 255 /\ text \in Seq(1 .. 255)
    BY JobType DEF BufferInv, TypeOK, LT, QUOT, APOS
  <2>2. \A i \in 1 .. Len(text) : text[i] \in 1 .. 255
    BY <2>1, ElementOfSeq
  <2> QED
    BY <2>1, <2>2
<1>2. /\ whole \in Seq(1 .. 255) /\ Len(whole) = Len(text) + 1
      /\ \A i \in 1 .. Len(text) : whole[i] = text[i]
      /\ whole[Len(text) + 1] = job.end
  BY <1>1, AppendProperties
<1>3. ASSUME NEW i \in 1 .. Len(text)
      PROVE  whole[i] \notin {job.end, NUL}
  <2>1. whole[i] = text[i] /\ text[i] \in 1 .. 255 /\ text[i] # job.end
    BY <1>1, <1>2
  <2>2. NUL \notin 1 .. 255
    BY DEF NUL
  <2> QED
    BY <2>1, <2>2
<1>4. \A i \in 1 .. Len(text) + 1 : i = Len(text) + 1 \/ i \in 1 .. Len(text)
  BY <1>1
<1>5. Len(text) + 1 \in 1 .. Len(whole) /\ (Len(text) + 1) - 1 = Len(text)
  BY <1>1, <1>2
<1>6. StrChr(whole, 1, job.end) = {Len(text) + 1}
  BY <1>2, <1>3, <1>4, <1>5 DEF StrChr
<1>7. SubSeq(whole, 1, Len(text)) = text
  <2> DEFINE u == SubSeq(whole, 1, Len(text))
  <2>1. u \in Seq(1 .. 255) /\ Len(u) = Len(text) /\ \A i \in 1 .. Len(text) : u[i] = whole[i]
    BY <1>1, <1>2, SubSeqProperties
  <2> HIDE DEF u
  <2>2. \A i \in 1 .. Len(text) : u[i] = text[i]
    BY <1>2, <2>1
  <2>3. u = text
    BY <1>1, <2>1, <2>2, SeqEqual
  <2> QED
    BY <2>3 DEF u
<1> QED
  BY <1>6, <1>7

LEMMA ParseTextPrint == BufferInv /\ BufferInv' /\ PrintInv /\ ParseText => PrintInv'
<1> SUFFICES ASSUME BufferInv, BufferInv', PrintInv, ParseText, job.print
             PROVE  PrintInv'
  BY DEF PrintInv, ParseText
<1> DEFINE whole == Append(text, job.end)
           s == job.s
           f == [i \in 1 .. 0 |-> 1]
<1>1. pc = "parse" /\ UNCHANGED <<job, text, start, q, ref>> /\ job.closed
  BY JobType DEF ParseText, BufferInv
<1>2. /\ \A i \in 1 .. Len(text) : text[i] # job.end
      /\ start = 1 /\ PrintedUpTo(Len(s) + 1)
  BY <1>1 DEF PrintInv
<1>3. /\ StrChr(whole, 1, job.end) = {Len(text) + 1}
      /\ SubSeq(whole, 1, Len(text)) = text
  BY <1>2, FirstEnd
<1>4. \/ \E n \in StrChr(whole, 1, job.end) :
           /\ b' = Append(SubSeq(whole, 1, n - 1), NUL) /\ src' = b' /\ p' = 1 /\ pc' = "flush"
      \/ StrChr(whole, 1, job.end) = {}
  BY <1>1 DEF ParseText
<1>5. /\ text \in Seq(1 .. 255) /\ Len(text) \in Nat /\ s \in Seq(1 .. 255) /\ Len(s) \in Nat
      /\ q = 1
  BY <1>1, JobType DEF BufferInv, TypeOK, FlowInv
<1>6. b' = Append(text, NUL) /\ src' = b' /\ p' = 1 /\ pc' = "flush"
  <2> HIDE DEF whole
  <2>1. (Len(text) + 1) - 1 = Len(text)
    BY <1>5
  <2> QED
    BY <1>3, <1>4, <2>1
<1>7. Len(b') = Len(text) + 1
  <2>1. text \in Seq(Byte) /\ NUL \in Byte
    BY <1>5, SeqMonotonic DEF Byte, NUL
  <2> QED
    BY <1>6, <2>1, AppendProperties
<1>8. PICK at : Layout(s, Restricted, text, at, Len(s) + 1)
  BY <1>2 DEF PrintedUpTo
<1>9. at[1] = 1
  BY <1>8 DEF Layout
<1>10. 1 .. 0 = {} /\ f \in [1 .. 0 -> 1 .. 0]
  OBVIOUS
<1> HIDE DEF f
<1>11. Origins(s, 0, f, 1)
  <2>1. 1 - 1 = 0
    OBVIOUS
  <2> QED
    BY <1>10, <2>1 DEF Origins
<1>12. Copied(s, b', 0, f, 1)
  BY <1>10, <1>11 DEF Copied
<1>13. 1 \in 1 .. Len(s) + 1 /\ q' - 1 = 0
  BY <1>1, <1>5
<1>14. ReadUpTo(at, 1, f)'
  BY <1>1, <1>6, <1>8, <1>9, <1>12, <1>13 DEF ReadUpTo, Restricted
<1> QED
  BY <1>1, <1>2, <1>6, <1>7, <1>14 DEF PrintInv

LEMMA DigitsPrint == PrintInv /\ (ReadDigit \/ RefEnd) => PrintInv'
<1> SUFFICES ASSUME PrintInv, ReadDigit \/ RefEnd, job.print
             PROVE  FALSE
  BY DEF PrintInv, ReadDigit, RefEnd
<1> QED
  BY DEF PrintInv, ReadDigit, RefEnd


\* A null byte behind bytes that are none ends the C string there.
LEMMA CStrIs ==
    ASSUME NEW w \in Seq(Byte), NEW n \in 1 .. Len(w), w[n] = NUL,
           \A i \in 1 .. n - 1 : w[i] # NUL
    PROVE  /\ Len(CStr(w, 1)) = n - 1
           /\ \A i \in 1 .. n - 1 : CStr(w, 1)[i] = w[i]
<1>1. Len(w) \in Nat /\ n \in Nat
  OBVIOUS
<1>2. StrChr(w, 1, NUL) = {n}
  <2>1. ASSUME NEW i \in 1 .. Len(w), w[i] = NUL, \A j \in 1 .. i - 1 : w[j] \notin {NUL, NUL}
        PROVE  i = n
    <3>1. i \notin 1 .. n - 1
      BY <2>1
    <3>2. n \notin 1 .. i - 1
      BY <2>1
    <3> QED
      BY <1>1, <3>1, <3>2
  <2> QED
    BY <2>1 DEF StrChr
<1>3. CStr(w, 1) = SubSeq(w, 1, n - 1)
  BY <1>2 DEF CStr
<1>4. /\ 1 \in 1 .. Len(w) + 1 /\ n - 1 \in 0 .. Len(w)
  BY <1>1
<1>5. /\ Len(SubSeq(w, 1, n - 1)) = n - 1
      /\ \A i \in 1 .. n - 1 : SubSeq(w, 1, n - 1)[i] = w[i]
  <2> DEFINE u == SubSeq(w, 1, n - 1)
  <2>1. /\ Len(u) = IF 1 <= n - 1 THEN (n - 1) - 1 + 1 ELSE 0
        /\ \A i \in 1 .. (n - 1) - 1 + 1 : u[i] = w[1 + i - 1]
    BY <1>4, SubSeqProperties
  <2> HIDE DEF u
  <2>2. Len(u) = n - 1 /\ \A i \in 1 .. n - 1 : u[i] = w[i]
    BY <1>1, <2>1
  <2> QED
    BY <2>2 DEF u
<1> QED
  BY <1>3, <1>5

\* At the end of the loop all characters have been read.
LEMMA AllRead ==
    ASSUME BufferInv, PrintInv, job.print, pc = "flush", p >= Len(b),
           NEW at, NEW k, NEW f, ReadUpTo(at, k, f)
    PROVE  k = Len(job.s) + 1
<1> DEFINE s == job.s
           N == Len(s)
<1>1. s \in Seq(1 .. 255) /\ N \in Nat /\ Len(text) \in Nat
  BY JobType DEF BufferInv, TypeOK
<1>2. Len(b) = Len(text) + 1 /\ p \in Nat
  BY DEF PrintInv, BufferInv, TypeOK
<1>3. /\ at \in [1 .. N + 1 -> Nat \ {0}]
      /\ \A i \in 1 .. (N + 1) - 1 :
           at[i + 1] = at[i] + Len(Printed(s[i], Restricted)) /\ at[i + 1] <= Len(text) + 1
      /\ k \in 1 .. N + 1 /\ p = at[k]
  BY DEF ReadUpTo, Layout
<1>4. ASSUME k # N + 1
      PROVE  FALSE
  <2> DEFINE cs == Printed(s[k], Restricted)
  <2>1. k \in 1 .. N /\ k \in 1 .. (N + 1) - 1
    BY <1>1, <1>3, <1>4
  <2>2. s[k] \in 1 .. 255 /\ Restricted \in BOOLEAN
    <3>1. Restricted \in BOOLEAN
      BY DEF Restricted
    <3> HIDE DEF s
    <3> QED
      BY <1>1, <2>1, <3>1, ElementOfSeq
  <2>3. Len(cs) >= 1 /\ Len(cs) \in Nat
    <3>1. AsItself(s[k], cs) \/ \E e \in Entities : AsEntityOf(e, s[k], cs)
      BY <2>2, PrintedForms
    <3> HIDE DEF cs
    <3>2. CASE AsItself(s[k], cs)
      BY <3>2 DEF AsItself
    <3>3. ASSUME NEW e \in Entities, AsEntityOf(e, s[k], cs)
          PROVE  Len(cs) >= 1 /\ Len(cs) \in Nat
      <4>1. Len(e[1]) \in 2 .. 4 /\ Len(cs) = Len(e[1]) + 2
        BY <3>3, EntityForm DEF AsEntityOf
      <4> QED
        BY <4>1
    <3> QED
      BY <3>1, <3>2, <3>3
  <2>4. at[k + 1] = p + Len(cs) /\ at[k + 1] <= Len(text) + 1
    BY <1>3, <2>1
  <2> HIDE DEF cs
  <2> QED
    BY <1>1, <1>2, <2>3, <2>4
<1> QED
  BY <1>4

\* The null byte closes the value: it is the one that was printed.
LEMMA FlushEndPrint == BufferInv /\ PrintInv /\ FlushEnd => PrintInv'
<1> SUFFICES ASSUME BufferInv, PrintInv, FlushEnd, job.print
             PROVE  PrintInv'
  BY DEF PrintInv, FlushEnd
<1> DEFINE s == job.s
           N == Len(s)
           m == q - 1
           r == CStr(b', 1)
<1>1. /\ pc = "flush" /\ p >= Len(b) /\ b' = Put(b, q, <<NUL>>)
      /\ pc' = (IF job.collapse THEN "trim" ELSE "done")
      /\ UNCHANGED <<job, text, start, ref>>
  BY DEF FlushEnd
<1>2. /\ q \in Nat \ {0} /\ q <= Len(b) /\ Len(b) \in Nat /\ b \in Seq(Byte)
  <2>1. p \in Nat /\ q \in Nat \ {0} /\ q <= p /\ p <= Len(b) /\ Len(b) \in Nat
    BY <1>1, Unread DEF BufferInv
  <2>2. b \in Seq(Byte)
    BY DEF BufferInv, TypeOK
  <2> QED
    BY <2>1, <2>2
<1>3. /\ b' \in Seq(Byte) /\ Len(b') = Len(b)
      /\ \A i \in 1 .. Len(b) : b'[i] = IF i = q THEN NUL ELSE b[i]
  BY <1>1, <1>2, PutNull
<1>4. Len(b) = Len(text) + 1 /\ start = 1
  BY <1>1 DEF PrintInv
<1>5. PICK at, k, f : ReadUpTo(at, k, f)
  BY <1>1 DEF PrintInv
<1>6. k = N + 1
  BY <1>1, <1>5, AllRead
<1>7. s \in Seq(1 .. 255) /\ N \in Nat /\ m \in Nat
  BY <1>2, JobType DEF BufferInv
<1>8. Origins(s, m, f, N + 1) /\ \A i \in 1 .. m : b[i] = LineChar(s[f[i]])
  BY <1>5, <1>6 DEF ReadUpTo, Copied
<1>9. /\ f \in [1 .. m -> 1 .. N]
      /\ \A i, j \in 1 .. m : i < j => f[i] < f[j]
      /\ \A j \in 1 .. N :
           (\A i \in 1 .. m : f[i] # j) <=> Pair(s, j) /\ \E i \in 1 .. m : f[i] = j - 1
  <2>1. (N + 1) - 1 = N
    BY <1>7
  <2> QED
    BY <1>8, <2>1 DEF Origins
<1>10. ASSUME NEW i \in 1 .. m
       PROVE  b'[i] = LineChar(s[f[i]]) /\ b'[i] # NUL
  <2>1. i \in 1 .. Len(b) /\ i # q
    BY <1>2
  <2>2. f[i] \in 1 .. N
    BY <1>9
  <2>3. s[f[i]] \in 1 .. 255
    <3> HIDE DEF s
    <3> QED
      BY <1>7, <2>2, ElementOfSeq
  <2>4. LineChar(s[f[i]]) # NUL
    BY <2>3 DEF LineChar, CR, LF, NUL
  <2> QED
    BY <1>3, <1>8, <2>1, <2>4
<1>11. q \in 1 .. Len(b') /\ b'[q] = NUL
  BY <1>2, <1>3
<1>12. Len(r) = m /\ \A i \in 1 .. m : r[i] = b'[i]
  BY <1>3, <1>10, <1>11, CStrIs
<1> HIDE DEF r, m, s
<1>13. \A i \in 1 .. m : r[i] = IF s[f[i]] = CR THEN LF ELSE s[f[i]]
  BY <1>10, <1>12 DEF LineChar
<1>14. IsLines(s, r)
  <2>1. f \in [1 .. Len(r) -> 1 .. Len(s)]
    BY <1>9, <1>12
  <2>2. /\ \A i, j \in 1 .. Len(r) : i < j => f[i] < f[j]
        /\ \A i \in 1 .. Len(r) : r[i] = IF s[f[i]] = CR THEN LF ELSE s[f[i]]
        /\ \A k0 \in 1 .. Len(s) :
             (\A i \in 1 .. Len(r) : f[i] # k0) <=> Pair(s, k0) /\ \E i \in 1 .. Len(r) : f[i] = k0 - 1
    BY <1>9, <1>12, <1>13
  <2> QED
    BY <2>1, <2>2 DEF IsLines
<1>15. IsLines(job.s, CStr(b, start))'
  BY <1>1, <1>4, <1>14 DEF r, s
<1> QED
  BY <1>1, <1>3, <1>4, <1>15 DEF PrintInv

\* Collapsing keeps the length of the buffer.
LEMMA CollapsePrint == BufferInv /\ PrintInv /\ (Trim \/ Collapse) => PrintInv'
<1> SUFFICES ASSUME BufferInv, PrintInv, Trim \/ Collapse, job.print
             PROVE  PrintInv'
  BY DEF PrintInv, Trim, Collapse
<1>1. /\ pc \in {"trim", "collapse"} /\ pc' \in {"collapse", "done"}
      /\ UNCHANGED <<job, text>>
  BY DEF Trim, Collapse
<1>2. job.collapse /\ Len(b) = Len(text) + 1
  BY <1>1 DEF PrintInv
<1>3. Len(b') = Len(b)
  <2>1. CASE Trim
    BY <2>1 DEF Trim
  <2>2. CASE Collapse
    <3>1. b' = Put(b, q, <<NUL>>) \/ \E bytes : b' = Put(b, q, bytes)
      BY <2>2 DEF Collapse, Emit
    <3>2. b \in Seq(Byte)
      BY DEF BufferInv, TypeOK
    <3>3. ASSUME NEW bytes
          PROVE  Len(Put(b, q, bytes)) = Len(b)
      <4>1. Len(b) \in Nat
        BY <3>2
      <4> QED
        BY <4>1 DEF Put
    <3> QED
      BY <3>1, <3>3
  <2> QED
    BY <2>1, <2>2
<1> QED
  BY <1>1, <1>2, <1>3 DEF PrintInv

LEMMA StutterPrint == PrintInv /\ UNCHANGED vars => PrintInv'
BY DEF PrintInv, PrintedUpTo, ReadUpTo, Restricted, vars

LEMMA PrintInduction == BufferInv /\ BufferInv' /\ PrintInv /\ [Next]_vars => PrintInv'
BY PrintStringPrint, ParseTextPrint, LineEndPrint, EntityPrint, PlainPrint,
   CharacterRefPrint, DigitsPrint, FlushEndPrint, CollapsePrint, StutterPrint DEF Next

\* For every value, as a text and as an attribute: what PrintString prints for it,
\* ParseText takes to its end and GetStr reads back, with the ends of lines as LF.
THEOREM PrintedIsReadBackTheorem == Spec => []PrintedIsReadBack
<1>1. PrintInv => PrintedIsReadBack
  BY DEF PrintInv, PrintedIsReadBack
<1> QED
  BY <1>1, InitPrint, PrintInduction, BufferInvariant, PTL DEF Spec
=============================================================================
