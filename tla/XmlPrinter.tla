------------------------------ MODULE XmlPrinter ----------------------------
(***************************************************************************)
(* The XMLPrinter of tinyxml2 on the documents of XmlDocument.             *)
(***************************************************************************)
EXTENDS XmlDocument

\* The parser only compares names with each other.
NameSymmetry == Permutations(Names)

(***************************************************************************)
(* XMLPrinter: what Accept makes the visitor write, as tokens.             *)
(***************************************************************************)
\* An element that was just opened is sealed by what comes inside it.
Seal(pr) == [pr EXCEPT !.just = FALSE]
Push(pr, tok) == [Seal(pr) EXCEPT !.out = Append(@, tok)]
OpenElement(pr, n, al) == [Push(pr, Tag("open", n, al)) EXCEPT !.just = TRUE, !.stack = Append(@, n)]

\* Faulty variant: an element without children is closed by an end tag of no one.
CloseElement_Plain(pr) ==
    [pr EXCEPT !.just = FALSE, !.stack = Front(@), !.out = Append(@, Tag("close", "none", <<>>))]

CloseElement(pr) ==
    [pr EXCEPT !.just = FALSE, !.stack = Front(@),
               !.out = IF pr.just THEN [@ EXCEPT ![Len(@)].t = "empty"]
                       ELSE Append(@, Tag("close", Last(pr.stack), <<>>))]

RECURSIVE Accept(_, _, _), AcceptAll(_, _, _)
Accept(d, n, pr) ==
    IF d.kind[n] = "element"
      THEN CloseElement(AcceptAll(d, d.first[n], OpenElement(pr, d.name[n], d.attrs[n])))
      ELSE Push(pr, Leaf(d.kind[n]))
AcceptAll(d, n, pr) == IF n = Nil THEN pr ELSE AcceptAll(d, d.next[n], Accept(d, n, pr))

Printer == [out |-> <<>>, just |-> FALSE, stack |-> <<>>]
Printed(d) == AcceptAll(d, d.first[Doc], Printer).out
PrintNode(d, n) == Accept(d, n, Printer).out

\* An element with nothing in it is printed as an empty one.
RECURSIVE Shortened(_)
Shortened(ts) ==
    IF Len(ts) < 2 THEN ts
    ELSE IF ts[1].t = "open" /\ ts[2].t = "close"
           THEN <<[ts[1] EXCEPT !.t = "empty"]>> \o Shortened(SubSeq(ts, 3, Len(ts)))
           ELSE <<ts[1]>> \o Shortened(Tail(ts))

\* Printing a document that was just parsed gives back its text, and a clone
\* (DeepClone) prints as its original.
PrintsWhatWasRead ==
    /\ Finished /\ dom.err = "none" => Printed(dom) = Shortened(Counted(toks))
    /\ made # <<>> /\ ~ Busy => PrintNode(dom, made[1]) = PrintNode(dom, made[2])
=============================================================================
