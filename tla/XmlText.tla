------------------------------- MODULE XmlText ------------------------------
(***************************************************************************)
(* The strings on which TLC runs StrPair, and what they should be read as. *)
(* of is what the string of the job was made from: the value itself, the   *)
(* pieces of the markup, or a code point.                                  *)
(***************************************************************************)
EXTENDS StrPair, SequencesExt, FiniteSetsExt

CONSTANTS
    MaxChars,    \* bound: characters of a value
    MaxPieces    \* bound: pieces of a markup

Chars == {A, SPACE, LF, CR, QUOT, AMP, LT, SEMI}
AsEntity(s) == <<AMP>> \o s \o <<SEMI>>
\* a, ;, LF, CR, &, &amp;, &lt;, &#65;, &#x41;, &#x, &#8364; and amp;
Pieces ==
    {<<A>>, <<SEMI>>, <<LF>>, <<CR>>, <<AMP>>, AsEntity(Pattern(AMP)), AsEntity(Pattern(LT)),
     AsEntity(<<HASH, 54, 53>>), AsEntity(<<HASH, X, 52, 49>>), <<AMP, HASH, X>>,
     AsEntity(<<HASH, 56, 51, 54, 52>>), Append(Pattern(AMP), SEMI)}
\* The limits between the lengths.
Codes ==
    {1, 9, 65, 127, 128, 2047, 2048, 4660, 65535, 65536, 1114111, 2097151, 2097152}
RECURSIVE Numeral(_, _)
Numeral(n, base) ==
    LET d == n % base
        c == IF d < 10 THEN ZERO + d ELSE 87 + d
    IN  IF n < base THEN <<c>> ELSE Append(Numeral(n \div base, base), c)

Job(of, s) ==
    [of |-> of, s |-> s, print |-> FALSE, closed |-> TRUE, end |-> LT,
     entities |-> TRUE, collapse |-> FALSE]
Values ==
    {[Job(<<"value">>, s) EXCEPT !.print = TRUE, !.end = IF mode = "attribute" THEN QUOT ELSE LT,
                                 !.collapse = mode = "words"] :
        s \in SeqOf(Chars, MaxChars), mode \in {"text", "attribute", "words"}}
Markups ==
    {[Job(<<"markup", ps>>, FlattenSeq(ps)) EXCEPT !.entities = e] :
        ps \in SeqOf(Pieces, MaxPieces), e \in BOOLEAN}
CodeRefs ==
    {Job(<<"code", u>>, AsEntity(<<HASH>> \o Numeral(u, 10))) : u \in Codes}
    \cup {Job(<<"code", u>>, AsEntity(<<HASH, X>> \o Numeral(u, 16))) : u \in Codes}
\* The letter A with so many zeros before it that mult wraps around.
PaddedRefs ==
    {Job(<<"code", 65>>, AsEntity(<<HASH, X>> \o [i \in 1 .. n |-> ZERO] \o Numeral(65, 16))) :
        n \in 1 .. 2 * MaxChars}
\* &# at the end, and a text without an end tag.
Others ==
    {Job(<<"other">>, <<A, AMP, HASH>>), [Job(<<"other">>, <<A>>) EXCEPT !.closed = FALSE]}
AllJobs == Values \cup Markups \cup CodeRefs \cup PaddedRefs \cup Others

-----------------------------------------------------------------------------
\* Collapsed to c, a value has its words in order with one space between them.
Collapses(v, c) ==
    /\ SelectSeq(c, LAMBDA x : x # SPACE) = SelectSeq(v, LAMBDA x : ~ IsWhiteSpace(x))
    /\ c # <<>> => c[1] # SPACE /\ Last(c) # SPACE
    /\ \A i \in 1 .. Len(c) - 1 : c[i] # SPACE \/ c[i + 1] # SPACE
    /\ Cardinality({i \in 1 .. Len(c) : c[i] = SPACE}) =
         Cardinality({i \in 2 .. Len(v) - 1 :
            /\ IsWhiteSpace(v[i]) /\ ~ IsWhiteSpace(v[i - 1])
            /\ \E j \in i .. Len(v) : ~ IsWhiteSpace(v[j])})

\* One LF for each end of a line that s has, read from the left.
RECURSIVE Lines(_)
Lines(s) ==
    IF s = <<>> THEN <<>>
    ELSE IF s[1] \notin {CR, LF} THEN <<s[1]>> \o Lines(Tail(s))
    ELSE <<LF>> \o Lines(SubSeq(s, IF Len(s) > 1 /\ {s[1], s[2]} = {CR, LF} THEN 3 ELSE 2, Len(s)))

\* What a piece stands for.
Meaning(piece) ==
    CASE piece = AsEntity(Pattern(AMP)) -> <<AMP>>
      [] piece = AsEntity(Pattern(LT)) -> <<LT>>
      [] piece \in {AsEntity(<<HASH, 54, 53>>), AsEntity(<<HASH, X, 52, 49>>)} -> <<65>>
      [] piece = AsEntity(<<HASH, 56, 51, 54, 52>>) -> <<226, 130, 172>>
      [] OTHER -> piece
\* The pieces that mean themselves or are complete.  An "&" that begins nothing
\* is only kept if nothing before it was shortened.
Clean(ps) ==
    \A i \in 1 .. Len(ps) :
      /\ ps[i] \notin {<<AMP, HASH, X>>, Append(Pattern(AMP), SEMI)}
      /\ ps[i] = <<AMP>> => \A j \in 1 .. i : ps[j] \in {<<A>>, <<SEMI>>, <<AMP>>}

\* The shortest UTF-8 bytes of a code point, and nothing if it is out of range.
IsUtf8(u, bs) ==
    IF u >= 2097152 THEN bs = <<>>
    ELSE /\ Utf8Value(bs) = u
         /\ \A i \in 2 .. Len(bs) : bs[i] \in 128 .. 191
         /\ Len(bs) > 1 => u >= <<0, 128, 2048, 65536>>[Len(bs)]

\* What GetStr and GetCharacterRef make of a markup is what its pieces mean, one
\* after the other; without entity processing, the pieces themselves.  A reference,
\* decimal or hexadecimal, gives the UTF-8 bytes of its code point.  A document that
\* collapses whitespace reads the words of a text.
MarkupMeans ==
    pc = "done" =>
    LET str == CStr(b, start) IN
    /\ job.of[1] = "markup" /\ job.entities /\ Clean(job.of[2]) =>
         str = Lines(FlattenSeq([i \in DOMAIN job.of[2] |-> Meaning(job.of[2][i])]))
    /\ job.of[1] = "markup" /\ ~ job.entities => str = Lines(job.s)
    /\ job.of[1] = "code" => IsUtf8(job.of[2], str)
    /\ job.collapse => Collapses(job.s, str)
=============================================================================
