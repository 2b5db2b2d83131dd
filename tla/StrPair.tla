------------------------------- MODULE StrPair ------------------------------
(***************************************************************************)
(* How tinyxml2 writes and reads the characters of a text or of the value  *)
(* of an attribute: entities and character references, the ends of lines,  *)
(* whitespace, and UTF-8.  StrPair::GetStr decodes in place: the buffer it *)
(* reads is the buffer it writes, with a read pointer p and a write        *)
(* pointer q behind it.  Each iteration of its loop, and of those of       *)
(* PrintString, GetCharacterRef and CollapseWhitespace, is a step.         *)
(*                                                                         *)
(* A character is the number of its byte, a string a sequence of them.     *)
(* A job is a string s with what is done to it: if print, s is a value     *)
(* that is printed and read back, if not, the markup that is read.  end is *)
(* the end tag (all used here have one character) and closed tells whether *)
(* it is in the text; entities and collapse are the document's options.    *)
(***************************************************************************)
EXTENDS Integers, Sequences

CONSTANTS
    Jobs,        \* the jobs that are possible
    UintSize     \* UINT_MAX + 1

NUL == 0
TAB == 9
LF == 10
CR == 13
SPACE == 32
QUOT == 34
HASH == 35
AMP == 38
APOS == 39
ZERO == 48
SEMI == 59
LT == 60
GT == 62
A == 97
X == 120

\* A C string holds no null byte.  The printer puts texts before a tag and values
\* of attributes in double quotes.
ASSUME JobsAssumption ==
    /\ UintSize \in Nat \ {0}
    /\ \A j \in Jobs :
         /\ j.s \in Seq(1 .. 255)
         /\ {j.print, j.closed, j.entities, j.collapse} \subseteq BOOLEAN
         /\ j.end \in {LT, QUOT, APOS}
         /\ j.print => j.closed /\ j.entities /\ j.end # APOS

VARIABLES
    job,     \* what is being done
    pc,      \* "print", "parse", "flush", "digits", "trim", "collapse", "done" or "error"
    text,    \* what has been printed, or the markup
    b,       \* the bytes from _start to _end, the null byte included
    start,   \* _start
    p, q,    \* the read and the write pointer
    ref,     \* in GetCharacterRef: its pointer, where to go on, mult and ucs
    src      \* history: the buffer as it was when the loop began

vars == <<job, pc, text, b, start, p, q, ref, src>>

\* The table of entities: the pattern and its character.
Entities ==
    {<<<<113, 117, 111, 116>>, QUOT>>, <<<<97, 109, 112>>, AMP>>,
     <<<<97, 112, 111, 115>>, APOS>>, <<<<108, 116>>, LT>>, <<<<103, 116>>, GT>>}

IsWhiteSpace(c) == c \in TAB .. CR \/ c = SPACE

\* strchr(s + from, c): where it is, if it is there.
StrChr(s, from, c) ==
    {i \in from .. Len(s) : s[i] = c /\ \A j \in from .. i - 1 : s[j] \notin {c, NUL}}
\* Where the whitespace at s[from] ends.
SkipWhiteSpace(s, from) ==
    {i \in from .. Len(s) : ~ IsWhiteSpace(s[i]) /\ \A j \in from .. i - 1 : IsWhiteSpace(s[j])}
\* The C string at s[from].
CStr(s, from) == SubSeq(s, from, (CHOOSE i \in StrChr(s, from, NUL) : TRUE) - 1)

Put(s, at, bytes) ==
    [i \in 1 .. Len(s) |-> IF i \in at .. at + Len(bytes) - 1 THEN bytes[i - at + 1] ELSE s[i]]
\* Write bytes at q, and go on reading at to.
Emit(bytes, to) == b' = Put(b, q, bytes) /\ q' = q + Len(bytes) /\ p' = to

NoRef == [at |-> 0, to |-> 0, mult |-> 1, ucs |-> 0]

Init ==
    /\ job \in Jobs
    /\ pc = IF job.print THEN "print" ELSE "parse"
    /\ text = IF job.print THEN <<>> ELSE job.s
    /\ b = <<NUL>> /\ src = <<NUL>>
    /\ start = 1 /\ p = 1 /\ q = 1
    /\ ref = NoRef

-----------------------------------------------------------------------------
(***************************************************************************)
(* XMLPrinter::PrintString.  The texts are restricted to three entities.   *)
(***************************************************************************)
\* Faulty variant: the ampersand of a text is not in the table.
EntityFlags_NoAmp(restricted) ==
    IF restricted THEN {LT, GT} ELSE {QUOT, AMP, APOS, LT, GT}

EntityFlags(restricted) ==
    IF restricted THEN {AMP, LT, GT} ELSE {QUOT, AMP, APOS, LT, GT}

Pattern(c) == (CHOOSE e \in Entities : e[2] = c)[1]
Printed(c, restricted) ==
    IF c \in EntityFlags(restricted) THEN <<AMP>> \o Pattern(c) \o <<SEMI>> ELSE <<c>>

PrintString ==
    /\ pc = "print"
    /\ IF p <= Len(job.s)
       THEN text' = text \o Printed(job.s[p], job.end = LT) /\ p' = p + 1 /\ UNCHANGED pc
       ELSE pc' = "parse" /\ UNCHANGED <<text, p>>
    /\ UNCHANGED <<job, b, start, q, ref, src>>

-----------------------------------------------------------------------------
(***************************************************************************)
(* StrPair::ParseText, and the loop of GetStr without the references.      *)
(***************************************************************************)
\* The bytes before the first end tag, which the null byte replaces.
ParseText ==
    LET whole == IF job.closed THEN Append(text, job.end) ELSE text IN
    /\ pc = "parse"
    /\ \/ \E n \in StrChr(whole, 1, job.end) :
            /\ b' = Append(SubSeq(whole, 1, n - 1), NUL) /\ src' = b'
            /\ p' = 1 /\ pc' = "flush"
       \/ /\ StrChr(whole, 1, job.end) = {}
          /\ pc' = "error" /\ UNCHANGED <<b, src, p>>
    /\ UNCHANGED <<job, text, start, q, ref>>

\* Faulty variant: only a CR that is followed by a LF is looked at.
Newline_Pairs(s, i) == IF s[i] = CR /\ s[i + 1] = LF THEN 2 ELSE 0

\* How many characters make up the end of a line at s[i]: CR, LF, CR-LF, LF-CR.
Newline(s, i) ==
    CASE s[i] \notin {CR, LF} -> 0
      [] s[i] \in {CR, LF} /\ s[i + 1] \in {CR, LF} \ {s[i]} -> 2
      [] OTHER -> 1

Reading == pc = "flush" /\ p < Len(b)

LineEnd ==
    /\ Reading /\ Newline(b, p) > 0
    /\ Emit(<<LF>>, p + Newline(b, p))
    /\ UNCHANGED <<job, pc, text, start, ref, src>>

\* The entities that begin at s[i].
EntityAt(s, i) ==
    {e \in Entities : i + Len(e[1]) + 1 <= Len(s)
                      /\ SubSeq(s, i + 1, i + Len(e[1]) + 1) = e[1] \o <<SEMI>>}

\* An "&" that begins nothing is stepped over: the byte that is at q stays there.
Entity ==
    /\ Reading /\ job.entities /\ b[p] = AMP /\ b[p + 1] # HASH
    /\ \/ \E e \in EntityAt(b, p) : Emit(<<e[2]>>, p + Len(e[1]) + 2)
       \/ EntityAt(b, p) = {} /\ p' = p + 1 /\ q' = q + 1 /\ UNCHANGED b
    /\ UNCHANGED <<job, pc, text, start, ref, src>>

Plain ==
    /\ Reading /\ Newline(b, p) = 0 /\ ~ (job.entities /\ b[p] = AMP)
    /\ Emit(<<b[p]>>, p + 1)
    /\ UNCHANGED <<job, pc, text, start, ref, src>>

\* The null byte after the last byte written; then CollapseWhitespace, if asked for.
FlushEnd ==
    /\ pc = "flush" /\ p >= Len(b)
    /\ b' = Put(b, q, <<NUL>>) /\ src' = b'
    /\ p' = 1 /\ q' = 1
    /\ pc' = IF job.collapse THEN "trim" ELSE "done"
    /\ UNCHANGED <<job, text, start, ref>>

-----------------------------------------------------------------------------
(***************************************************************************)
(* XMLUtil::GetCharacterRef and ConvertUTF32ToUTF8.                        *)
(***************************************************************************)
\* The low six bits in a byte, and the bits above them.
Low(u) == 128 + (u % 64)
High(u) == u \div 64
\* Nothing for what does not fit.
ConvertUTF32ToUTF8(u) ==
    IF u < 128 THEN <<u>>
    ELSE IF u < 2048 THEN <<192 + High(u), Low(u)>>
    ELSE IF u < 65536 THEN <<224 + High(High(u)), Low(High(u)), Low(u)>>
    ELSE IF u < 2097152 THEN <<240 + High(High(High(u))), Low(High(High(u))), Low(High(u)), Low(u)>>
    ELSE <<>>

\* The value of a digit, or -1.
Digit(c, base) ==
    CASE c \in 48 .. 57 -> c - 48
      [] base = 16 /\ c \in 97 .. 102 -> c - 87
      [] base = 16 /\ c \in 65 .. 70 -> c - 55
      [] OTHER -> -1

Hex == b[p + 2] = X
Base == IF Hex THEN 16 ELSE 10
Mark == IF Hex THEN X ELSE HASH

\* "&#" at b[p].  At the end of the string only the "&" is dropped; without a ";"
\* it is kept.
CharacterRef ==
    /\ Reading /\ job.entities /\ b[p] = AMP /\ b[p + 1] = HASH
    /\ LET semi == StrChr(b, IF Hex THEN p + 3 ELSE p + 2, SEMI) IN
       \/ b[p + 2] = NUL /\ Emit(<<>>, p + 1) /\ UNCHANGED <<pc, ref>>
       \/ b[p + 2] # NUL /\ semi = {} /\ Emit(<<AMP>>, p + 1) /\ UNCHANGED <<pc, ref>>
       \/ \E n \in semi : /\ b[p + 2] # NUL
                          /\ pc' = "digits"
                          /\ ref' = [at |-> n - 1, to |-> n + 1, mult |-> 1, ucs |-> 0]
                          /\ UNCHANGED <<b, p, q>>
    /\ UNCHANGED <<job, text, start, src>>

\* The digits are read backwards from the ";", to the nearest x or #.
ReadDigit ==
    LET d == Digit(b[ref.at], Base) IN
    /\ pc = "digits" /\ b[ref.at] # Mark
    /\ \/ /\ d >= 0
          /\ ref' = [ref EXCEPT !.at = @ - 1, !.mult = (@ * Base) % UintSize,
                                !.ucs = @ + ((ref.mult * d) % UintSize)]
          /\ UNCHANGED <<pc, b, p, q>>
       \/ d < 0 /\ Emit(<<AMP>>, p + 1) /\ pc' = "flush" /\ ref' = NoRef
    /\ UNCHANGED <<job, text, start, src>>

\* Faulty variant: the reading goes on right after the "&".
RefEnd_NoSkip ==
    /\ pc = "digits" /\ b[ref.at] = Mark
    /\ Emit(ConvertUTF32ToUTF8(ref.ucs), p + 1)
    /\ pc' = "flush" /\ ref' = NoRef
    /\ UNCHANGED <<job, text, start, src>>

RefEnd ==
    /\ pc = "digits" /\ b[ref.at] = Mark
    /\ Emit(ConvertUTF32ToUTF8(ref.ucs), ref.to)
    /\ pc' = "flush" /\ ref' = NoRef
    /\ UNCHANGED <<job, text, start, src>>

-----------------------------------------------------------------------------
(***************************************************************************)
(* StrPair::CollapseWhitespace: the leading whitespace is skipped, a run   *)
(* becomes one space, and none if it ends the string.                      *)
(***************************************************************************)
Trim ==
    /\ pc = "trim"
    /\ \E n \in SkipWhiteSpace(b, 1) :
         /\ start' = n /\ p' = n /\ q' = n
         /\ pc' = IF b[n] = NUL THEN "done" ELSE "collapse"
    /\ UNCHANGED <<job, text, b, ref, src>>

Collapse ==
    /\ pc = "collapse"
    /\ \E n \in SkipWhiteSpace(b, p) :
         IF b[n] # NUL
         THEN Emit(IF n > p THEN <<SPACE, b[n]>> ELSE <<b[n]>>, n + 1) /\ UNCHANGED pc
         ELSE b' = Put(b, q, <<NUL>>) /\ pc' = "done" /\ UNCHANGED <<p, q>>
    /\ UNCHANGED <<job, text, start, ref, src>>

-----------------------------------------------------------------------------
Next ==
    \/ PrintString \/ ParseText
    \/ LineEnd \/ Entity \/ Plain \/ CharacterRef \/ ReadDigit \/ RefEnd \/ FlushEnd
    \/ Trim \/ Collapse
Spec == Init /\ [][Next]_vars

-----------------------------------------------------------------------------
(***************************************************************************)
(* Properties.                                                             *)
(***************************************************************************)
Byte == 0 .. 255

\* Every byte of the buffer is one: what a reference gives fits into bytes.
TypeOK ==
    /\ pc \in {"print", "parse", "flush", "digits", "trim", "collapse", "done", "error"}
    /\ text \in Seq(1 .. 255) /\ b \in Seq(Byte) /\ src \in Seq(Byte)
    /\ start \in Nat \ {0} /\ p \in Nat \ {0} /\ q \in Nat \ {0}
    /\ ref \in [at : Nat, to : Nat, mult : Nat, ucs : Nat]

\* Decoding in place never overtakes itself: the writes stay behind the reads, as
\* the assertion "q + len <= adjusted" of GetStr says, and inside the buffer, and
\* what is still to be read is as it was, whatever the string is.
WritesBehindReads ==
    pc \in {"flush", "digits", "collapse"} =>
    /\ q <= p /\ p <= Len(b) /\ Len(b) = Len(src)
    /\ \A i \in p .. Len(b) : b[i] = src[i]

\* s[k - 1] and s[k] can be one end of a line.
Pair(s, k) == k > 1 /\ {s[k - 1], s[k]} = {CR, LF}
\* r is s with one LF for each of the ends of lines it has, which are CR, LF,
\* CR-LF and LF-CR, taken from the left: f gives the origin of each character.
IsLines(s, r) ==
    \E f \in [1 .. Len(r) -> 1 .. Len(s)] :
    /\ \A i, j \in 1 .. Len(r) : i < j => f[i] < f[j]
    /\ \A i \in 1 .. Len(r) : r[i] = IF s[f[i]] = CR THEN LF ELSE s[f[i]]
    /\ \A k \in 1 .. Len(s) :
         (\A i \in 1 .. Len(r) : f[i] # k) <=> Pair(s, k) /\ \E i \in 1 .. Len(r) : f[i] = k - 1

\* What PrintString writes for a value, as a text before a tag or as an attribute
\* in quotes, ParseText takes to its end and GetStr reads back as the same value,
\* with its ends of lines normalised.
PrintedIsReadBack ==
    job.print =>
    /\ pc # "error"
    /\ pc \in {"flush", "trim", "collapse", "done"} => Len(b) = Len(text) + 1
    /\ pc = "done" /\ ~ job.collapse => IsLines(job.s, CStr(b, start))

\* The code point that a sequence of UTF-8 bytes stands for.
Utf8Value(bs) ==
    IF Len(bs) = 1 THEN bs[1]
    ELSE IF Len(bs) = 2 THEN 64 * (bs[1] - 192) + (bs[2] - 128)
    ELSE IF Len(bs) = 3 THEN 64 * (64 * (bs[1] - 224) + (bs[2] - 128)) + (bs[3] - 128)
    ELSE 64 * (64 * (64 * (bs[1] - 240) + (bs[2] - 128)) + (bs[3] - 128)) + (bs[4] - 128)
=============================================================================
