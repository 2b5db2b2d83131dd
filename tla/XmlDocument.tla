----------------------------- MODULE XmlDocument ----------------------------
(***************************************************************************)
(* The documents of tinyxml2, which ToWa reads web.xml with: nodes linked  *)
(* by pointers, the list of nodes that are not linked yet, the counters of *)
(* the memory pools, and the parser.                                       *)
(*                                                                         *)
(* A document is a record d of functions on nodes, one per pointer member; *)
(* the methods are operators that take a document and return the next one. *)
(* The calls of a user of the library are actions.  The parser is an       *)
(* action per token: a tag, a text, a comment...; the open elements are on *)
(* the stack stk, as they are on the stack of the recursive ParseDeep.     *)
(* The tokens are chosen as they are read, and toks remembers them.        *)
(* DeleteChildren and DeepClone, which go down a tree, are an action per   *)
(* node too, with the calls under way on the stacks del and cl.            *)
(* The counter _nUntracked, which only a debug build looks at, is left     *)
(* out.                                                                    *)
(***************************************************************************)
EXTENDS Integers, Sequences, FiniteSets, SequencesExt

CONSTANTS
    N,           \* bound: nodes that fit into the pools
    Names,       \* names of elements and attributes
    MaxDepth,    \* TINYXML2_MAX_ELEMENT_DEPTH
    MaxTokens,   \* bound: tokens of a text
    MaxEdited,   \* bound: tokens of a text whose document is then changed
    MaxOps,      \* bound: calls after a text was parsed, a new parse included
    MaxAttrs     \* bound: attributes of an element

VARIABLES
    dom,         \* the document
    phase,       \* "idle", "parse", "fail", "drop": what a failed Parse left is deleted
    stk,         \* the open elements
    toks,        \* the tokens read by the last parse
    file,        \* was it LoadFile, which keeps what it has on an error?
    ops,         \* calls since then
    made,        \* what the last call to DeepClone cloned and returned
    del,         \* the nodes whose destructors are running, the innermost last
    keep,        \* the node whose DeleteChildren was called, or Nil
    clearing,    \* is Clear under way?
    cl           \* the calls of DeepClone: the next child, and the clone

calls == <<del, keep, clearing, cl>>
vars == <<dom, phase, stk, toks, file, ops, made, del, keep, clearing, cl>>

Nil == -1
Doc == 0
Nodes == 1 .. N
Leaves == {"text", "comment", "declaration", "unknown"}
Kinds == Leaves \cup {"element"}
Pools == {"element", "text", "comment", "attribute"}

ASSUME NodesAssumption ==
    /\ {N, MaxTokens, MaxEdited, MaxOps, MaxAttrs} \subseteq Nat
    /\ MaxDepth \in Nat \ {0, 1}

\* Comments, declarations and unknowns share a pool.
Pool(k) == IF k \in {"element", "text"} THEN k ELSE "comment"

New ==
    [kind |-> [n \in Nodes |-> "free"], name |-> [n \in Nodes |-> "none"],
     attrs |-> [n \in Nodes |-> <<>>],
     par |-> [n \in Nodes |-> Nil], prev |-> [n \in Nodes |-> Nil], next |-> [n \in Nodes |-> Nil],
     first |-> [n \in Nodes \cup {Doc} |-> Nil], last |-> [n \in Nodes \cup {Doc} |-> Nil],
     unlinked |-> <<>>,
     allocs |-> [p \in Pools |-> 0],
     err |-> "none", crash |-> FALSE]

Init ==
    /\ dom = New /\ phase = "idle" /\ stk = <<>> /\ toks = <<>> /\ file = FALSE
    /\ ops = 0 /\ made = <<>>
    /\ del = <<>> /\ keep = Nil /\ clearing = FALSE /\ cl = <<>>

Live(d) == {n \in Nodes : d.kind[n] # "free"}
Free(d) == Nodes \ Live(d)

-----------------------------------------------------------------------------
(***************************************************************************)
(* XMLNode and XMLDocument: creation, linking, deletion.                   *)
(***************************************************************************)
SetError(d, e) == [d EXCEPT !.err = e]

\* CreateUnlinkedNode: Alloc, the constructor, _unlinked.Push.
NextFree(d) == CHOOSE n \in Free(d) : TRUE
Create(d, k, name) ==
    [d EXCEPT !.kind[NextFree(d)] = k, !.name[NextFree(d)] = name,
              !.allocs[Pool(k)] = @ + 1,
              !.unlinked = Append(@, NextFree(d))]

\* MarkInUse: SwapRemove puts the last one in the place of the one removed.
MarkInUse(d, n) ==
    IF ~ Contains(d.unlinked, n) THEN d
    ELSE LET u == d.unlinked
             i == CHOOSE j \in 1 .. Len(u) : u[j] = n
         IN  [d EXCEPT !.unlinked = Front([u EXCEPT ![i] = Last(u)])]

\* Faulty variant: _lastChild is not moved back.
Unlink_Last(d, c) ==
    LET p == d.par[c] IN
    [d EXCEPT !.first[p] = IF @ = c THEN d.next[c] ELSE @,
              !.next = [n \in Nodes |-> IF n = c THEN Nil ELSE IF n = d.prev[c] THEN d.next[c] ELSE @[n]],
              !.prev = [n \in Nodes |-> IF n = c THEN Nil ELSE IF n = d.next[c] THEN d.prev[c] ELSE @[n]],
              !.par[c] = Nil]

Unlink(d, c) ==
    LET p == d.par[c] IN
    [d EXCEPT !.first[p] = IF @ = c THEN d.next[c] ELSE @,
              !.last[p] = IF @ = c THEN d.prev[c] ELSE @,
              !.next = [n \in Nodes |-> IF n = c THEN Nil ELSE IF n = d.prev[c] THEN d.next[c] ELSE @[n]],
              !.prev = [n \in Nodes |-> IF n = c THEN Nil ELSE IF n = d.next[c] THEN d.prev[c] ELSE @[n]],
              !.par[c] = Nil]

\* Faulty variant: a new node stays on the list.
InsertChildPreamble_Keep(d, n) ==
    IF d.par[n] # Nil THEN Unlink(d, n) ELSE d

InsertChildPreamble(d, n) ==
    IF d.par[n] # Nil THEN Unlink(d, n) ELSE MarkInUse(d, n)

InsertEndChild(d, p, n) ==
    LET e == InsertChildPreamble(d, n)
        l == e.last[p]
    IN  [e EXCEPT !.next = [m \in Nodes |-> IF m = n THEN Nil ELSE IF m = l THEN n ELSE @[m]],
                  !.prev[n] = l, !.last[p] = n, !.par[n] = p,
                  !.first[p] = IF l = Nil THEN n ELSE @]

InsertFirstChild(d, p, n) ==
    LET e == InsertChildPreamble(d, n)
        f == e.first[p]
    IN  [e EXCEPT !.prev = [m \in Nodes |-> IF m = n THEN Nil ELSE IF m = f THEN n ELSE @[m]],
                  !.next[n] = f, !.first[p] = n, !.par[n] = p,
                  !.last[p] = IF f = Nil THEN n ELSE @]

\* afterThis->_next is tested before the preamble, which may take that very node
\* out of its place: then afterThis->_next is null when it is used.
InsertAfterChild(d, p, a, n) ==
    CASE a = n -> d
      [] a # n /\ d.next[a] = Nil -> InsertEndChild(d, p, n)
      [] OTHER ->
           LET e == InsertChildPreamble(d, n)
               x == e.next[a]
           IN  IF x = Nil THEN [e EXCEPT !.crash = TRUE]
               ELSE [e EXCEPT !.prev = [m \in Nodes |-> IF m = n THEN a ELSE IF m = x THEN n ELSE @[m]],
                              !.next = [m \in Nodes |-> IF m = n THEN x ELSE IF m = a THEN n ELSE @[m]],
                              !.par[n] = p]

\* ~XMLElement deletes the attributes; the node goes back to its pool.
Destroy(d, n) ==
    [d EXCEPT !.kind[n] = "free", !.name[n] = "none", !.attrs[n] = <<>>,
              !.allocs = [p \in Pools |-> @[p] - (IF p = Pool(d.kind[n]) THEN 1 ELSE 0)
                                              - (IF p = "attribute" THEN Len(d.attrs[n]) ELSE 0)]]

\* XMLNode::DeleteChild and XMLDocument::DeleteNode, up to the destructor.
DeleteChild(d, n) == MarkInUse(Unlink(d, n), n)
DeleteNode(d, n) == IF d.par[n] # Nil THEN DeleteChild(d, n) ELSE MarkInUse(d, n)

\* The static XMLNode::DeleteNode of a node without children.
DeleteLeaf(d, n) == Destroy(MarkInUse(d, n), n)

\* The pools of a text that failed are cleared as a whole.
ClearPools(d) == [d EXCEPT !.allocs = [p \in Pools |-> 0]]

\* XMLElement: the list of attributes, in order, a name at most once.
HasAttribute(d, n, x) == Contains(d.attrs[n], x)
CreateAttribute(d, n, x) ==
    [d EXCEPT !.attrs[n] = Append(@, x), !.allocs["attribute"] = @ + 1]
FindOrCreateAttribute(d, n, x) == IF HasAttribute(d, n, x) THEN d ELSE CreateAttribute(d, n, x)
DeleteAttribute(d, n, x) ==
    IF HasAttribute(d, n, x)
      THEN [d EXCEPT !.attrs[n] = RemoveAt(@, CHOOSE i \in 1 .. Len(@) : @[i] = x),
                     !.allocs["attribute"] = @ - 1]
      ELSE d

\* GetText and SetText look at the first child.
HasText(d, n) == d.first[n] # Nil /\ d.kind[d.first[n]] = "text"
SetText(d, n) ==
    IF HasText(d, n) THEN d ELSE InsertFirstChild(Create(d, "text", "none"), n, NextFree(d))

\* ShallowClone: New... and SetAttribute for each attribute.
ShallowClone(d, n) ==
    LET e == Create(d, d.kind[n], d.name[n])
    IN  [e EXCEPT !.attrs[NextFree(d)] = d.attrs[n], !.allocs["attribute"] = @ + Len(d.attrs[n])]

\* m is n or below it.
Below(d, m, n) ==
    \A S \in SUBSET (Nodes \cup {Doc}) :
      m \in S /\ (\A k \in S \ {Doc} : d.par[k] # Nil => d.par[k] \in S) => n \in S

-----------------------------------------------------------------------------
(***************************************************************************)
(* The destructor ~XMLNode calls DeleteChildren, which deletes the first   *)
(* child until there is none; Clear then deletes what is not linked.       *)
(***************************************************************************)
Emptied == IF del = <<>> THEN keep ELSE Last(del)
Deleting == Emptied # Nil \/ clearing
Busy == Deleting \/ cl # <<>>

\* The call of DeleteChild in the loop of DeleteChildren.
DeleteFirst ==
    /\ Emptied # Nil /\ dom.first[Emptied] # Nil
    /\ dom' = DeleteChild(dom, dom.first[Emptied]) /\ del' = Append(del, dom.first[Emptied])
    /\ UNCHANGED <<phase, stk, toks, file, ops, made, keep, clearing, cl>>

\* The loop is over; the node is freed, but for the one the caller keeps.
EndDelete ==
    /\ Emptied # Nil /\ dom.first[Emptied] = Nil
    /\ IF del = <<>> THEN keep' = Nil /\ UNCHANGED <<dom, del>>
       ELSE dom' = Destroy(dom, Last(del)) /\ del' = Front(del) /\ UNCHANGED keep
    /\ UNCHANGED <<phase, stk, toks, file, ops, made, clearing, cl>>

\* Clear: DeleteChildren, then the loop over _unlinked.  Nothing looks at the
\* error before Clear ends.
Clear(e) == dom' = SetError(dom, e) /\ keep' = Doc /\ clearing' = TRUE /\ UNCHANGED <<del, cl>>

DeleteUnlinked ==
    /\ clearing /\ Emptied = Nil
    /\ IF dom.unlinked = <<>> THEN clearing' = FALSE /\ UNCHANGED <<dom, del>>
       ELSE /\ dom' = DeleteNode(dom, dom.unlinked[1]) /\ del' = <<dom.unlinked[1]>>
            /\ UNCHANGED clearing
    /\ UNCHANGED <<phase, stk, toks, file, ops, made, keep, cl>>

-----------------------------------------------------------------------------
(***************************************************************************)
(* DeepClone, after the ShallowClone of the node it was called for.        *)
(***************************************************************************)
Frame(d, n) == [from |-> d.first[n], to |-> NextFree(d)]

\* DeepClone of the next child.
CloneChild ==
    /\ cl # <<>> /\ Last(cl).from # Nil /\ Free(dom) # {}
    /\ dom' = ShallowClone(dom, Last(cl).from) /\ cl' = Append(cl, Frame(dom, Last(cl).from))
    /\ UNCHANGED <<phase, stk, toks, file, ops, made, del, keep, clearing>>

\* DeepClone returns; its caller inserts the clone and goes on to the next child.
EndClone ==
    /\ cl # <<>> /\ Last(cl).from = Nil
    /\ IF Len(cl) = 1 THEN cl' = <<>> /\ UNCHANGED dom
       ELSE LET up == Front(cl) IN
            /\ dom' = InsertEndChild(dom, Last(up).to, Last(cl).to)
            /\ cl' = [up EXCEPT ![Len(up)].from = dom.next[@]]
    /\ UNCHANGED <<phase, stk, toks, file, ops, made, del, keep, clearing>>

-----------------------------------------------------------------------------
(***************************************************************************)
(* The parser.  ParseDeep of the document and of the elements on stk.      *)
(***************************************************************************)
Tag(t, n, al) == [t |-> t, n |-> n, as |-> al]
Leaf(k) == Tag(k, "none", <<>>)

Top == IF stk = <<>> THEN Doc ELSE Last(stk)
LastTok == IF toks = <<>> THEN "none" ELSE Last(toks).t

\* Parse and LoadFile begin with Clear.
StartParse(f) ==
    /\ phase = "idle" /\ ~ Busy /\ ~ dom.crash /\ ops < MaxOps
    /\ phase' = "parse" /\ Clear("none")
    /\ toks' = <<>> /\ stk' = <<>> /\ file' = f /\ ops' = 0 /\ made' = <<>>

\* LoadFile of a file that is not there or that cannot be read.
LoadFails(e) ==
    /\ phase = "idle" /\ ~ Busy /\ ~ dom.crash /\ ops < MaxOps
    /\ Clear(e)
    /\ toks' = <<>> /\ ops' = ops + 1 /\ made' = <<>>
    /\ UNCHANGED <<phase, stk, file>>

\* The next token; Identify creates its node.
Token(tok) ==
    /\ phase = "parse" /\ ~ Busy /\ Len(toks) < MaxTokens /\ Free(dom) # {}
    /\ toks' = Append(toks, tok)
    /\ UNCHANGED <<file, ops, made, keep, clearing, cl>>

\* An error: the node is deleted and ParseDeep returns 0.
Fail(d, n, e) == dom' = DeleteLeaf(SetError(d, e), n) /\ phase' = "fail" /\ UNCHANGED <<stk, del>>

\* Declarations may only follow declarations, at the level of the document.
OnlyDeclarations(d) == \A n \in Nodes : d.par[n] = Doc => d.kind[n] = "declaration"

\* Faulty variant: a declaration may come late.
WellLocated_Late(d) == stk = <<>>

WellLocated(d) == stk = <<>> /\ OnlyDeclarations(d)

\* A text, comment, declaration or unknown that is complete.  A text goes on to
\* the next "<".
ParseLeaf(k) ==
    /\ Token(Leaf(k)) /\ ~ (k = "text" /\ LastTok = "text")
    /\ LET d == Create(dom, k, "none")
           n == NextFree(dom)
       IN  IF k = "declaration" /\ ~ WellLocated(dom) THEN Fail(d, n, "PARSING_DECLARATION")
           ELSE dom' = InsertEndChild(d, Top, n) /\ UNCHANGED <<phase, stk, del>>

\* A node whose end is missing, or a tag with an error in it.
ParseBroken(k) ==
    /\ Token(Tag("broken", "none", <<>>)) /\ ~ (k = "text" /\ LastTok = "text")
    /\ Fail(Create(dom, k, "none"), NextFree(dom), "PARSING")

\* ParseAttributes; a name that is there already is an error.
Duplicate(al) == \E i, j \in 1 .. Len(al) : i # j /\ al[i] = al[j]
WithAttributes(d, n, al) ==
    [d EXCEPT !.attrs[n] = al, !.allocs["attribute"] = @ + Len(al)]

\* <n al/>
ParseEmpty(x, al) ==
    /\ Token(Tag("empty", x, al))
    /\ LET d == Create(dom, "element", x)
           n == NextFree(dom)
       IN  IF Duplicate(al) THEN Fail(d, n, "PARSING_ATTRIBUTE")
           ELSE dom' = InsertEndChild(WithAttributes(d, n, al), Top, n) /\ UNCHANGED <<phase, stk, del>>

\* PushDepth: the document is at depth 1.
TooDeep == Len(stk) + 2 >= MaxDepth

\* <n al>: its ParseDeep goes down one level.
ParseOpen(x, al) ==
    /\ Token(Tag("open", x, al))
    /\ LET d == Create(dom, "element", x)
           n == NextFree(dom)
       IN  CASE Duplicate(al) -> Fail(d, n, "PARSING_ATTRIBUTE")
             [] ~ Duplicate(al) /\ TooDeep -> Fail(WithAttributes(d, n, al), n, "DEPTH_EXCEEDED")
             [] OTHER -> dom' = WithAttributes(d, n, al) /\ stk' = Append(stk, n)
                        /\ UNCHANGED <<phase, del>>

\* </x>: a node is created for it and deleted again, and the level above gets
\* the name.  At the level of the document it ends the parse, without an error
\* and whatever comes after it.
ParseClose(x) ==
    /\ Token(Tag("close", x, <<>>))
    /\ LET d == DeleteLeaf(Create(dom, "element", x), NextFree(dom))
           e == Last(stk)
           up == Front(stk)
       IN  IF stk = <<>> THEN dom' = d /\ phase' = "idle" /\ UNCHANGED <<stk, del>>
           ELSE /\ stk' = up
                /\ IF dom.name[e] = x
                     THEN /\ dom' = InsertEndChild(d, IF up = <<>> THEN Doc ELSE Last(up), e)
                          /\ UNCHANGED <<phase, del>>
                     ELSE /\ dom' = DeleteNode(SetError(d, "MISMATCHED_ELEMENT"), e)
                          /\ del' = <<e>> /\ phase' = "fail"

\* The end of the text.  It must not come inside an element or a text.
ParseEof ==
    /\ phase = "parse" /\ ~ Busy /\ LastTok # "text"
    /\ CASE stk = <<>> /\ toks # <<>> -> phase' = "idle" /\ UNCHANGED dom
         [] stk = <<>> /\ toks = <<>> -> phase' = "fail" /\ dom' = SetError(dom, "EMPTY_DOCUMENT")
         [] OTHER -> phase' = "fail" /\ dom' = SetError(dom, IF LastTok = "open"
                                                             THEN "MISMATCHED_ELEMENT" ELSE "PARSING")
    /\ UNCHANGED <<stk, toks, file, ops, made, calls>>

\* An error goes up: each level deletes its element.  In the end Parse deletes
\* what is left; LoadFile keeps it.
Unwind ==
    /\ phase = "fail" /\ ~ Busy
    /\ IF stk # <<>>
         THEN /\ dom' = DeleteNode(dom, Last(stk)) /\ del' = <<Last(stk)>> /\ stk' = Front(stk)
              /\ UNCHANGED <<phase, keep>>
         ELSE /\ IF file THEN phase' = "idle" /\ UNCHANGED keep ELSE phase' = "drop" /\ keep' = Doc
              /\ UNCHANGED <<dom, del, stk>>
    /\ UNCHANGED <<toks, file, ops, made, clearing, cl>>

\* Parse clears the pools as a whole.
DropText ==
    /\ phase = "drop" /\ ~ Busy
    /\ phase' = "idle" /\ dom' = ClearPools(dom)
    /\ UNCHANGED <<stk, toks, file, ops, made, calls>>

-----------------------------------------------------------------------------
(***************************************************************************)
(* The calls of a user.  A node is never inserted below itself.            *)
(***************************************************************************)
Elements == {n \in Nodes : dom.kind[n] = "element"}
MayEdit == phase = "idle" /\ ~ Busy /\ ~ dom.crash /\ ops < MaxOps /\ Len(toks) <= MaxEdited
ACall == MayEdit /\ ops' = ops + 1 /\ toks' = <<>> /\ UNCHANGED <<phase, stk, file>>
Op(d) == ACall /\ dom' = d /\ made' = <<>> /\ UNCHANGED calls

NewNode(k, x) == Free(dom) # {} /\ Op(Create(dom, k, x))
May(p, n) == MayEdit /\ ~ Below(dom, p, n)
InsertEnd(p, n) == May(p, n) /\ Op(InsertEndChild(dom, p, n))
InsertFirst(p, n) == May(p, n) /\ Op(InsertFirstChild(dom, p, n))
InsertAfter(a, n) ==
    /\ dom.par[a] # Nil /\ May(dom.par[a], n)
    /\ Op(InsertAfterChild(dom, dom.par[a], a, n))
Delete(n) ==
    /\ ACall /\ dom' = DeleteNode(dom, n) /\ del' = <<n>>
    /\ made' = <<>> /\ UNCHANGED <<keep, clearing, cl>>
DeleteChildren(p) == ACall /\ keep' = p /\ made' = <<>> /\ UNCHANGED <<dom, del, clearing, cl>>
ClearDoc == ACall /\ Clear("none") /\ made' = <<>>
EditText(n) == Free(dom) # {} /\ Op(SetText(dom, n))
SetAttribute(n, x) == Len(dom.attrs[n]) < MaxAttrs /\ Op(FindOrCreateAttribute(dom, n, x))
RemoveAttribute(n, x) == Op(DeleteAttribute(dom, n, x))
DeepClone(n) ==
    /\ ACall
    /\ Cardinality({m \in Live(dom) : Below(dom, m, n)}) <= Cardinality(Free(dom))
    /\ dom' = ShallowClone(dom, n) /\ cl' = <<Frame(dom, n)>> /\ made' = <<n, NextFree(dom)>>
    /\ UNCHANGED <<del, keep, clearing>>

AttrLists(x) == {<<>>, <<x>>, <<x, x>>}
Next ==
    \/ \E f \in BOOLEAN : StartParse(f)
    \/ \E e \in {"FILE_NOT_FOUND", "FILE_READ_ERROR"} : LoadFails(e)
    \/ \E k \in Leaves : ParseLeaf(k)
    \/ \E k \in Kinds : ParseBroken(k)
    \/ \E x \in Names : \E al \in AttrLists(x) : ParseOpen(x, al)
    \/ \E x \in Names : \E al \in AttrLists(x) : ParseEmpty(x, al)
    \/ \E x \in Names : ParseClose(x)
    \/ ParseEof \/ Unwind \/ DropText
    \/ DeleteFirst \/ EndDelete \/ DeleteUnlinked \/ CloneChild \/ EndClone
    \/ \E x \in Names : NewNode("element", x)
    \/ \E k \in Leaves : NewNode(k, "none")
    \/ \E p \in Elements \cup {Doc}, n \in Live(dom) : InsertEnd(p, n)
    \/ \E p \in Elements \cup {Doc}, n \in Live(dom) : InsertFirst(p, n)
    \/ \E a, n \in Live(dom) : InsertAfter(a, n)
    \/ \E n \in Live(dom) : Delete(n)
    \/ \E p \in Elements \cup {Doc} : DeleteChildren(p)
    \/ ClearDoc
    \/ \E n \in Elements : EditText(n)
    \/ \E n \in Elements, x \in Names : SetAttribute(n, x)
    \/ \E n \in Elements, x \in Names : RemoveAttribute(n, x)
    \/ \E n \in Live(dom) : DeepClone(n)

Spec == Init /\ [][Next]_vars

-----------------------------------------------------------------------------
(***************************************************************************)
(* Properties.                                                             *)
(***************************************************************************)
\* Siblings and parents agree.
Links(d) ==
    /\ \A p \in Nodes \cup {Doc} :
         /\ (d.first[p] = Nil) = (d.last[p] = Nil)
         /\ d.first[p] # Nil => /\ d.par[d.first[p]] = p /\ d.prev[d.first[p]] = Nil
                               /\ d.par[d.last[p]] = p /\ d.next[d.last[p]] = Nil
    /\ \A n \in Nodes :
         IF d.par[n] = Nil THEN d.prev[n] = Nil /\ d.next[n] = Nil
         ELSE /\ IF d.prev[n] = Nil THEN d.first[d.par[n]] = n
                 ELSE d.next[d.prev[n]] = n /\ d.par[d.prev[n]] = d.par[n]
              /\ IF d.next[n] = Nil THEN d.last[d.par[n]] = n
                 ELSE d.prev[d.next[n]] = n /\ d.par[d.next[n]] = d.par[n]

\* No siblings go round in a circle: some node of every set of them has no
\* left neighbour in it.
OneList(d) ==
    \A S \in SUBSET {n \in Nodes : d.par[n] # Nil} :
      S # {} => \E n \in S : d.prev[n] \notin S

\* The five pointers of a node agree, whatever was inserted, moved or deleted,
\* and also in the middle of a deletion or a clone: the children of a node are
\* one list from _firstChild to _lastChild, the same in both directions.
LinksAgree == ~ dom.crash => Links(dom) /\ OneList(dom)

\* A node in use has one owner: its parent, the list of unlinked nodes or a running
\* destructor.  No node is lost, and none is deleted twice.  It holds after an
\* error in a text too, although _unlinked is not cleared then.
Once(s) == \A i, j \in 1 .. Len(s) : s[i] = s[j] => i = j
OneOwner(d, running) ==
    /\ Once(d.unlinked) /\ Once(running)
    /\ ToSet(d.unlinked) \cup ToSet(running) \subseteq Live(d)
    /\ ToSet(d.unlinked) \cap ToSet(running) = {}
    /\ \A n \in Live(d) : d.par[n] = Nil <=> n \in ToSet(d.unlinked) \cup ToSet(running)

\* CurrentAllocs of each pool is what the document has in use of it: nothing
\* leaks and nothing is freed twice, also when a text failed half way.
PoolNodes(d, p) == {n \in Nodes : d.kind[n] # "free" /\ Pool(d.kind[n]) = p}
Attributes(d) == UNION {{n} \X (1 .. Len(d.attrs[n])) : n \in Nodes}
PoolsExact(d) ==
    /\ \A p \in Pools \ {"attribute"} : d.allocs[p] = Cardinality(PoolNodes(d, p))
    /\ d.allocs["attribute"] = Cardinality(Attributes(d))

\* A node and its memory have one owner (_unlinked, _parent, a running destructor,
\* and the MemPools), whatever was parsed, moved, cloned or deleted.
OwnedOnce == ~ dom.crash => OneOwner(dom, del) /\ PoolsExact(dom)

(***************************************************************************)
(* What a text must be, said without a parser.  d(i) counts the elements   *)
(* open after token i.  The text counts up to the first end tag that ends  *)
(* nothing.                                                                *)
(***************************************************************************)
Opened(ts, i) ==
    Cardinality({j \in 1 .. i : ts[j].t = "open"}) - Cardinality({j \in 1 .. i : ts[j].t = "close"})
Stray(ts) == {i \in 1 .. Len(ts) : Opened(ts, i) < 0}
Counted(ts) == IF Stray(ts) = {} THEN ts ELSE SubSeq(ts, 1, (CHOOSE i \in Stray(ts) : \A j \in Stray(ts) : i <= j) - 1)
WellFormed(ts) ==
    /\ ts # <<>>
    /\ LET u == Counted(ts) IN
       /\ Opened(u, Len(u)) = 0
       /\ \A i \in 1 .. Len(u) :
            /\ u[i].t # "broken" /\ ~ Duplicate(u[i].as)
            /\ u[i].t = "declaration" => \A j \in 1 .. i : u[j].t = "declaration"
            /\ Opened(u, i) < MaxDepth - 1
            /\ u[i].t = "open" =>
                 \E j \in i + 1 .. Len(u) :
                    /\ u[j].t = "close" /\ u[j].n = u[i].n
                    /\ Opened(u, j) = Opened(u, i) - 1
                    /\ \A m \in i .. j - 1 : Opened(u, m) >= Opened(u, i)

\* A text that fails leaves no node behind; a file leaves only what hangs below
\* the document.
Finished == phase = "idle" /\ ~ Busy /\ toks # <<>>
FailureCleansUp ==
    Finished /\ dom.err # "none" => dom.unlinked = <<>> /\ (~ file => Live(dom) = {})

\* The parser accepts a text exactly if it is well formed in that sense, and
\* cleans up behind one that it does not accept.
ParseVerdict ==
    /\ Finished => ((dom.err = "none") = WellFormed(toks))
    /\ FailureCleansUp
=============================================================================
