------------------------- MODULE XmlDocumentProofs --------------------------
(***************************************************************************)
(* For every number of nodes, every text and every sequence of calls: the  *)
(* pointers of the nodes agree (LinksAgree), a node and its memory have    *)
(* one owner (OwnedOnce), a text that fails leaves nothing behind          *)
(* (FailureCleansUp), and exactly the well formed texts are accepted       *)
(* (ParseVerdict).                                                         *)
(*                                                                         *)
(* What the methods preserve is said of a document d, so that each method  *)
(* has lemmas of its own; the actions then only compose methods.           *)
(***************************************************************************)
EXTENDS XmlDocument, TLAPS, FiniteSetTheorems

Ptr == Nodes \cup {Nil}
Errors == {"none", "PARSING", "PARSING_DECLARATION", "PARSING_ATTRIBUTE", "DEPTH_EXCEEDED",
           "MISMATCHED_ELEMENT", "EMPTY_DOCUMENT", "FILE_NOT_FOUND", "FILE_READ_ERROR"}
DomType(d) ==
    d \in [kind : [Nodes -> Kinds \cup {"free"}], name : [Nodes -> Names \cup {"none"}],
           attrs : [Nodes -> Seq(Names)],
           par : [Nodes -> Ptr \cup {Doc}], prev : [Nodes -> Ptr], next : [Nodes -> Ptr],
           first : [Nodes \cup {Doc} -> Ptr], last : [Nodes \cup {Doc} -> Ptr],
           unlinked : Seq(Nodes), allocs : [Pools -> Int],
           err : Errors, crash : BOOLEAN]

\* No node is below itself.
Tree(d) == \A S \in SUBSET Nodes : S # {} => \E n \in S : d.par[n] \notin S

\* A node that is not in use has no pointers and no attributes.
FreeClean(d) ==
    \A n \in Nodes : d.kind[n] = "free" =>
      d.par[n] = Nil /\ d.first[n] = Nil /\ d.attrs[n] = <<>>

ParLive(d) == \A n \in Nodes : d.par[n] \in Nodes => d.kind[d.par[n]] # "free"

Shape(d) == Links(d) /\ OneList(d) /\ Tree(d) /\ FreeClean(d) /\ ParLive(d)

Good(d, running) == Shape(d) /\ OneOwner(d, running) /\ PoolsExact(d)

\* Nodes of their own: in use, without a parent.
Alone(d, s) == Once(s) /\ \A i \in 1 .. Len(s) : s[i] \in Live(d) /\ d.par[s[i]] = Nil

ParserInv ==
    /\ phase \in {"idle", "parse", "fail", "drop"}
    /\ stk \in Seq(Nodes) /\ Alone(dom, stk)
    /\ phase \in {"idle", "drop"} \/ clearing => stk = <<>>
    /\ phase # "idle" /\ ~ clearing => ToSet(dom.unlinked) = ToSet(stk)
    /\ phase # "idle" => cl = <<>>
    /\ phase = "parse" => dom.err = "none"

DropInv ==
    phase = "drop" => ~ clearing /\ (keep = Doc \/ (Emptied = Nil /\ dom.first[Doc] = Nil))

\* The calls of DeepClone: each but the innermost waits for the clone of a child,
\* and what they return has no parent yet.
Frames == [from : Ptr, to : Nodes]
FramesOK(d, c) ==
    /\ \A i \in 1 .. Len(c) : c[i].from \in Live(d) \/ (i = Len(c) /\ c[i].from = Nil)
    /\ \A i \in 1 .. Len(c) : c[i].to \in Live(d) /\ d.par[c[i].to] = Nil
    /\ \A i, j \in 1 .. Len(c) : c[i].to = c[j].to => i = j

CallInv ==
    /\ del \in Seq(Nodes) /\ keep \in Ptr \cup {Doc} /\ clearing \in BOOLEAN
    /\ cl \in Seq(Frames)
    /\ cl # <<>> => ~ Deleting
    /\ FramesOK(dom, cl)

CleanInv ==
    /\ phase = "idle" /\ Busy => toks = <<>>
    /\ FailureCleansUp

IInv ==
    /\ DomType(dom)
    /\ ParserInv /\ DropInv /\ CallInv /\ CleanInv
    /\ IF dom.crash THEN phase = "idle" /\ ~ Busy ELSE Good(dom, del)

-----------------------------------------------------------------------------
(***************************************************************************)
(* What the methods do to the pointers of a document.                      *)
(***************************************************************************)
PtrType(d) ==
    /\ d.par \in [Nodes -> Ptr \cup {Doc}] /\ d.prev \in [Nodes -> Ptr] /\ d.next \in [Nodes -> Ptr]
    /\ d.first \in [Nodes \cup {Doc} -> Ptr] /\ d.last \in [Nodes \cup {Doc} -> Ptr]

\* e has the nodes, attributes and allocations of d.
SameStock(d, e) ==
    /\ e.kind = d.kind /\ e.name = d.name /\ e.attrs = d.attrs
    /\ e.allocs = d.allocs /\ e.err = d.err /\ e.crash = d.crash

SamePtrs(d, e) ==
    e.par = d.par /\ e.prev = d.prev /\ e.next = d.next /\ e.first = d.first /\ e.last = d.last

\* c was taken out of the list of its parent.
Unlinked(d, e, c) ==
    /\ \A m \in Nodes : e.par[m] = IF m = c THEN Nil ELSE d.par[m]
    /\ \A m \in Nodes : e.next[m] = IF m = c THEN Nil ELSE IF m = d.prev[c] THEN d.next[c] ELSE d.next[m]
    /\ \A m \in Nodes : e.prev[m] = IF m = c THEN Nil ELSE IF m = d.next[c] THEN d.prev[c] ELSE d.prev[m]
    /\ \A p \in Nodes \cup {Doc} :
         /\ e.first[p] = IF p = d.par[c] /\ d.first[p] = c THEN d.next[c] ELSE d.first[p]
         /\ e.last[p] = IF p = d.par[c] /\ d.last[p] = c THEN d.prev[c] ELSE d.last[p]

LEMMA NodeNumbers == Nodes \subseteq Int /\ Doc \notin Nodes /\ Nil \notin Nodes /\ Nil # Doc
BY NodesAssumption DEF Nodes, Doc, Nil

LEMMA UnlinkType ==
  ASSUME NEW d, DomType(d), NEW c \in Nodes, d.par[c] # Nil
  PROVE  DomType(Unlink(d, c))
BY NodeNumbers DEF DomType, Unlink, Ptr

LEMMA UnlinkIs ==
  ASSUME NEW d, DomType(d), NEW c \in Nodes, d.par[c] # Nil
  PROVE  /\ Unlinked(d, Unlink(d, c), c)
         /\ SameStock(d, Unlink(d, c)) /\ Unlink(d, c).unlinked = d.unlinked
BY NodeNumbers DEF DomType, Unlink, Ptr, Unlinked, SameStock

\* The clauses of Links, one by one.
Ends(d, p) ==
    /\ d.first[p] = Nil <=> d.last[p] = Nil
    /\ d.first[p] # Nil => /\ d.par[d.first[p]] = p /\ d.prev[d.first[p]] = Nil
                          /\ d.par[d.last[p]] = p /\ d.next[d.last[p]] = Nil
Single(d, n) == d.par[n] = Nil => d.prev[n] = Nil /\ d.next[n] = Nil
Left(d, n) ==
    d.par[n] # Nil => IF d.prev[n] = Nil THEN d.first[d.par[n]] = n
                      ELSE d.next[d.prev[n]] = n /\ d.par[d.prev[n]] = d.par[n]
Right(d, n) ==
    d.par[n] # Nil => IF d.next[n] = Nil THEN d.last[d.par[n]] = n
                      ELSE d.prev[d.next[n]] = n /\ d.par[d.next[n]] = d.par[n]

LEMMA LinksParts ==
  ASSUME NEW d
  PROVE  Links(d) <=> /\ \A p \in Nodes \cup {Doc} : Ends(d, p)
                      /\ \A n \in Nodes : Single(d, n) /\ Left(d, n) /\ Right(d, n)
BY DEF Links, Ends, Single, Left, Right

LEMMA UnlinkLinks ==
  ASSUME NEW d, NEW e, PtrType(d), PtrType(e), NEW c \in Nodes, d.par[c] # Nil,
         Links(d), Unlinked(d, e, c)
  PROVE  Links(e)
<1>c. Left(d, c) /\ Right(d, c) /\ Ends(d, d.par[c])
  BY LinksParts DEF PtrType, Ptr
<1>1. ASSUME NEW p \in Nodes \cup {Doc} PROVE Ends(e, p)
  <2>1. Ends(d, p)  BY LinksParts
  <2>2. CASE p # d.par[c]
    <3>1. e.first[p] = d.first[p] /\ e.last[p] = d.last[p]  BY <2>2 DEF Unlinked
    <3>2. d.first[p] # Nil => d.first[p] # c /\ d.last[p] # c
      BY <2>1, <2>2 DEF Ends
    <3>3. d.first[p] # Nil => d.first[p] # d.next[c] /\ d.last[p] # d.prev[c]
      BY <2>1, <2>2, <1>c, NodeNumbers DEF Ends, Left, Right, PtrType, Ptr
    <3>4. CASE d.first[p] = Nil  BY <2>1, <3>1, <3>4 DEF Ends
    <3>5. CASE d.first[p] # Nil
      <4>1. d.first[p] \in Nodes /\ d.last[p] \in Nodes  BY <2>1, <3>5 DEF Ends, PtrType, Ptr
      <4>2. /\ e.par[d.first[p]] = d.par[d.first[p]] /\ e.prev[d.first[p]] = d.prev[d.first[p]]
            /\ e.par[d.last[p]] = d.par[d.last[p]] /\ e.next[d.last[p]] = d.next[d.last[p]]
        BY <4>1, <3>2, <3>3, <3>5 DEF Unlinked
      <4>3. QED  BY <2>1, <3>1, <3>5, <4>2 DEF Ends
    <3>6. QED  BY <3>4, <3>5
  <2>3. CASE p = d.par[c]
    <3>1. CASE d.prev[c] = Nil /\ d.next[c] = Nil
      BY <1>c, <2>1, <2>3, <3>1, NodeNumbers DEF Ends, Left, Right, Unlinked, PtrType, Ptr
    <3>2. CASE d.prev[c] = Nil /\ d.next[c] # Nil
      <4>1. d.first[p] = c /\ d.last[p] # Nil /\ d.next[c] \in Nodes /\ d.last[p] \in Nodes
        BY <1>c, <2>1, <2>3, <3>2, NodeNumbers DEF Ends, Left, PtrType, Ptr
      <4>2. d.last[p] # c /\ d.par[d.next[c]] = p /\ d.next[c] # c
        BY <1>c, <2>1, <2>3, <3>2, <4>1 DEF Ends, Right
      <4>3. e.first[p] = d.next[c] /\ e.last[p] = d.last[p]  BY <2>3, <4>1, <4>2 DEF Unlinked
      <4>4. e.par[d.next[c]] = p /\ e.prev[d.next[c]] = Nil
        BY <3>2, <4>1, <4>2 DEF Unlinked
      <4>5. e.par[d.last[p]] = p /\ e.next[d.last[p]] = Nil
        BY <2>1, <3>2, <4>1, <4>2, NodeNumbers DEF Unlinked, Ends
      <4>6. QED  BY <3>2, <4>1, <4>3, <4>4, <4>5 DEF Ends
    <3>3. CASE d.prev[c] # Nil /\ d.next[c] = Nil
      <4>1. d.last[p] = c /\ d.first[p] # Nil /\ d.prev[c] \in Nodes /\ d.first[p] \in Nodes
        BY <1>c, <2>1, <2>3, <3>3, NodeNumbers DEF Ends, Right, PtrType, Ptr
      <4>2. d.first[p] # c /\ d.par[d.prev[c]] = p /\ d.prev[c] # c
        BY <1>c, <2>1, <2>3, <3>3, <4>1 DEF Ends, Left
      <4>3. e.last[p] = d.prev[c] /\ e.first[p] = d.first[p]  BY <2>3, <4>1, <4>2 DEF Unlinked
      <4>4. e.par[d.prev[c]] = p /\ e.next[d.prev[c]] = Nil
        BY <3>3, <4>1, <4>2 DEF Unlinked
      <4>5. e.par[d.first[p]] = p /\ e.prev[d.first[p]] = Nil
        BY <2>1, <3>3, <4>1, <4>2, NodeNumbers DEF Unlinked, Ends
      <4>6. QED  BY <3>3, <4>1, <4>3, <4>4, <4>5 DEF Ends
    <3>4. CASE d.prev[c] # Nil /\ d.next[c] # Nil
      <4>1. d.prev[c] \in Nodes /\ d.next[c] \in Nodes  BY <3>4 DEF PtrType, Ptr
      <4>2. d.first[p] # c /\ d.last[p] # c  BY <2>1, <3>4, NodeNumbers DEF Ends
      <4>3. e.first[p] = d.first[p] /\ e.last[p] = d.last[p]  BY <4>2 DEF Unlinked
      <4>4. CASE d.first[p] = Nil  BY <2>1, <4>3, <4>4 DEF Ends
      <4>5. CASE d.first[p] # Nil
        <5>1. d.first[p] \in Nodes /\ d.last[p] \in Nodes  BY <2>1, <4>5 DEF Ends, PtrType, Ptr
        <5>2. d.first[p] # d.next[c] /\ d.last[p] # d.prev[c]
          BY <1>c, <2>1, <3>4, <4>5, NodeNumbers DEF Ends, Left, Right
        <5>3. /\ e.par[d.first[p]] = d.par[d.first[p]] /\ e.prev[d.first[p]] = d.prev[d.first[p]]
              /\ e.par[d.last[p]] = d.par[d.last[p]] /\ e.next[d.last[p]] = d.next[d.last[p]]
          BY <4>2, <5>1, <5>2 DEF Unlinked
        <5>4. QED  BY <2>1, <4>3, <4>5, <5>3 DEF Ends
      <4>6. QED  BY <4>4, <4>5
    <3>5. QED  BY <3>1, <3>2, <3>3, <3>4
  <2>4. QED  BY <2>2, <2>3
<1>2. ASSUME NEW n \in Nodes PROVE Single(e, n) /\ Left(e, n) /\ Right(e, n)
  <2>1. Single(d, n) /\ Left(d, n) /\ Right(d, n)  BY LinksParts
  <2>2. CASE n = c
    BY <2>2, NodeNumbers DEF Unlinked, Single, Left, Right
  <2>3. CASE n # c /\ d.par[n] = Nil
    <3>1. n # d.prev[c] /\ n # d.next[c]  BY <1>c, <2>3, NodeNumbers DEF Left, Right, PtrType, Ptr
    <3>2. QED  BY <2>1, <2>3, <3>1 DEF Unlinked, Single, Left, Right
  <2>4. CASE n # c /\ d.par[n] # Nil
    <3>1. Single(e, n)  BY <2>4 DEF Single, Unlinked
    <3>2. Left(e, n)
      <4>1. CASE n = d.next[c]
        <5>1. e.prev[n] = d.prev[c] /\ e.par[n] = d.par[n]  BY <2>4, <4>1 DEF Unlinked
        <5>2. d.par[n] = d.par[c] /\ n # Nil  BY <1>c, <4>1, NodeNumbers DEF Right
        <5>3. CASE d.prev[c] = Nil
          <6>1. d.first[d.par[c]] = c  BY <1>c, <5>3 DEF Left
          <6>2. e.first[d.par[c]] = n  BY <6>1, <4>1 DEF Unlinked, PtrType, Ptr
          <6>3. QED  BY <5>1, <5>2, <5>3, <6>2 DEF Left
        <5>4. CASE d.prev[c] # Nil
          <6>1. d.prev[c] \in Nodes /\ d.prev[c] # c
            BY <1>c, <2>4, <4>1, <5>4 DEF Left, PtrType, Ptr
          <6>2. e.next[d.prev[c]] = n /\ e.par[d.prev[c]] = d.par[c]
            BY <1>c, <4>1, <5>4, <6>1 DEF Unlinked, Left
          <6>3. QED  BY <5>1, <5>2, <5>4, <6>2 DEF Left
        <5>5. QED  BY <5>3, <5>4
      <4>2. CASE n # d.next[c]
        <5>1. d.prev[n] # c  BY <2>1, <2>4, <4>2, NodeNumbers DEF Left, PtrType, Ptr
        <5>2. e.prev[n] = d.prev[n] /\ e.par[n] = d.par[n]  BY <2>4, <4>2 DEF Unlinked
        <5>3. d.prev[n] # Nil => d.prev[n] # d.prev[c]
          BY <1>c, <2>1, <2>4, NodeNumbers DEF Left, PtrType, Ptr
        <5>4. d.prev[n] = Nil => d.first[d.par[n]] # c
          BY <2>1, <2>4 DEF Left
        <5>5. CASE d.prev[n] = Nil
          <6>1. e.first[d.par[n]] = d.first[d.par[n]]  BY <2>4, <5>4, <5>5 DEF Unlinked, PtrType, Ptr
          <6>2. QED  BY <2>1, <5>2, <5>5, <6>1 DEF Left
        <5>6. CASE d.prev[n] # Nil
          <6>1. d.prev[n] \in Nodes  BY <5>6 DEF PtrType, Ptr
          <6>2. e.next[d.prev[n]] = d.next[d.prev[n]] /\ e.par[d.prev[n]] = d.par[d.prev[n]]
            BY <5>1, <5>3, <5>6, <6>1 DEF Unlinked
          <6>3. QED  BY <2>1, <5>2, <5>6, <6>2 DEF Left
        <5>7. QED  BY <5>5, <5>6
      <4>3. QED  BY <4>1, <4>2
    <3>3. Right(e, n)
      <4>1. CASE n = d.prev[c]
        <5>1. e.next[n] = d.next[c] /\ e.par[n] = d.par[n]  BY <2>4, <4>1 DEF Unlinked
        <5>2. d.par[n] = d.par[c] /\ n # Nil  BY <1>c, <4>1, NodeNumbers DEF Left
        <5>3. CASE d.next[c] = Nil
          <6>1. d.last[d.par[c]] = c  BY <1>c, <5>3 DEF Right
          <6>2. e.last[d.par[c]] = n  BY <6>1, <4>1 DEF Unlinked, PtrType, Ptr
          <6>3. QED  BY <5>1, <5>2, <5>3, <6>2 DEF Right
        <5>4. CASE d.next[c] # Nil
          <6>1. d.next[c] \in Nodes /\ d.next[c] # c
            BY <1>c, <2>4, <4>1, <5>4 DEF Right, PtrType, Ptr
          <6>2. e.prev[d.next[c]] = n /\ e.par[d.next[c]] = d.par[c]
            BY <1>c, <4>1, <5>4, <6>1 DEF Unlinked, Right
          <6>3. QED  BY <5>1, <5>2, <5>4, <6>2 DEF Right
        <5>5. QED  BY <5>3, <5>4
      <4>2. CASE n # d.prev[c]
        <5>1. d.next[n] # c  BY <2>1, <2>4, <4>2, NodeNumbers DEF Right, PtrType, Ptr
        <5>2. e.next[n] = d.next[n] /\ e.par[n] = d.par[n]  BY <2>4, <4>2 DEF Unlinked
        <5>3. d.next[n] # Nil => d.next[n] # d.next[c]
          BY <1>c, <2>1, <2>4, NodeNumbers DEF Right, PtrType, Ptr
        <5>4. d.next[n] = Nil => d.last[d.par[n]] # c
          BY <2>1, <2>4 DEF Right
        <5>5. CASE d.next[n] = Nil
          <6>1. e.last[d.par[n]] = d.last[d.par[n]]  BY <2>4, <5>4, <5>5 DEF Unlinked, PtrType, Ptr
          <6>2. QED  BY <2>1, <5>2, <5>5, <6>1 DEF Right
        <5>6. CASE d.next[n] # Nil
          <6>1. d.next[n] \in Nodes  BY <5>6 DEF PtrType, Ptr
          <6>2. e.prev[d.next[n]] = d.prev[d.next[n]] /\ e.par[d.next[n]] = d.par[d.next[n]]
            BY <5>1, <5>3, <5>6, <6>1 DEF Unlinked
          <6>3. QED  BY <2>1, <5>2, <5>6, <6>2 DEF Right
        <5>7. QED  BY <5>5, <5>6
      <4>3. QED  BY <4>1, <4>2
    <3>4. QED  BY <3>1, <3>2, <3>3
  <2>5. QED  BY <2>2, <2>3, <2>4
<1>3. QED  BY <1>1, <1>2, LinksParts

-----------------------------------------------------------------------------
(***************************************************************************)
(* All three insertions put a node n, which has no parent, between two     *)
(* neighbours a and b (or Nil) of the list of p.                           *)
(***************************************************************************)
Neighbours(d, p, a, b) ==
    /\ a \in Ptr /\ b \in Ptr
    /\ IF a = Nil THEN d.first[p] = b ELSE d.par[a] = p /\ d.next[a] = b
    /\ IF b = Nil THEN d.last[p] = a ELSE d.par[b] = p /\ d.prev[b] = a

Inserted(d, e, p, n, a, b) ==
    /\ \A m \in Nodes : e.par[m] = IF m = n THEN p ELSE d.par[m]
    /\ \A m \in Nodes : e.next[m] = IF m = n THEN b ELSE IF m = a THEN n ELSE d.next[m]
    /\ \A m \in Nodes : e.prev[m] = IF m = n THEN a ELSE IF m = b THEN n ELSE d.prev[m]
    /\ \A q \in Nodes \cup {Doc} :
         /\ e.first[q] = IF q = p /\ a = Nil THEN n ELSE d.first[q]
         /\ e.last[q] = IF q = p /\ b = Nil THEN n ELSE d.last[q]

\* A node that is some node's parent has a first child.
LEMMA HasFirst ==
  ASSUME NEW d, PtrType(d), Links(d), OneList(d), NEW p \in Nodes \cup {Doc},
         NEW m \in Nodes, d.par[m] = p
  PROVE  d.first[p] # Nil /\ d.last[p] # Nil
<1> DEFINE S == {k \in Nodes : d.par[k] = p}
<1>1. S \in SUBSET {k \in Nodes : d.par[k] # Nil} /\ S # {}  BY NodeNumbers
<1>2. PICK k \in S : d.prev[k] \notin S  BY <1>1 DEF OneList
<1>3. Left(d, k) /\ k \in Nodes /\ d.par[k] = p  BY LinksParts
<1>4. d.prev[k] = Nil  BY <1>2, <1>3, NodeNumbers DEF Left, PtrType, Ptr
<1>5. d.first[p] = k  BY <1>3, <1>4, NodeNumbers DEF Left
<1>6. Ends(d, p)  BY LinksParts
<1>7. QED  BY <1>3, <1>5, <1>6, NodeNumbers DEF Ends

LEMMA InsertLinks ==
  ASSUME NEW d, NEW e, PtrType(d), PtrType(e), Links(d), OneList(d),
         NEW p \in Nodes \cup {Doc}, NEW n \in Nodes, d.par[n] = Nil, NEW a, NEW b,
         Neighbours(d, p, a, b), Inserted(d, e, p, n, a, b)
  PROVE  Links(e)
<1>1. a # n /\ b # n /\ p # Nil  BY NodeNumbers DEF Neighbours
<1>2. a = Nil \/ a \in Nodes  BY DEF Neighbours, Ptr
<1>3. b = Nil \/ b \in Nodes  BY DEF Neighbours, Ptr
<1>p. Ends(d, p)  BY LinksParts
<1>4. ASSUME NEW q \in Nodes \cup {Doc} PROVE Ends(e, q)
  <2>1. Ends(d, q)  BY LinksParts
  <2>2. CASE q # p
    <3>1. e.first[q] = d.first[q] /\ e.last[q] = d.last[q]  BY <2>2 DEF Inserted
    <3>2. CASE d.first[q] = Nil  BY <2>1, <3>1, <3>2 DEF Ends
    <3>3. CASE d.first[q] # Nil
      <4>1. d.first[q] \in Nodes /\ d.last[q] \in Nodes  BY <2>1, <3>3 DEF Ends, PtrType, Ptr
      <4>2. d.first[q] # n /\ d.last[q] # n  BY <2>1, <3>3, NodeNumbers DEF Ends
      <4>3. d.first[q] # b /\ d.last[q] # a
        BY <2>1, <2>2, <3>3, <4>1, NodeNumbers DEF Ends, Neighbours
      <4>4. /\ e.par[d.first[q]] = d.par[d.first[q]] /\ e.prev[d.first[q]] = d.prev[d.first[q]]
            /\ e.par[d.last[q]] = d.par[d.last[q]] /\ e.next[d.last[q]] = d.next[d.last[q]]
        BY <4>1, <4>2, <4>3 DEF Inserted
      <4>5. QED  BY <2>1, <3>1, <3>3, <4>4 DEF Ends
    <3>4. QED  BY <3>2, <3>3
  <2>3. CASE q = p
    <3>n. e.par[n] = p /\ e.next[n] = b /\ e.prev[n] = a  BY DEF Inserted
    <3>1. e.first[p] # Nil /\ e.par[e.first[p]] = p /\ e.prev[e.first[p]] = Nil
      <4>1. CASE a = Nil
        <5>1. e.first[p] = n  BY <4>1 DEF Inserted
        <5>2. QED  BY <5>1, <3>n, <4>1, NodeNumbers
      <4>2. CASE a # Nil
        <5>1. e.first[p] = d.first[p] /\ d.first[p] # Nil
          BY <4>2, <1>2, HasFirst DEF Inserted, Neighbours
        <5>2. d.first[p] \in Nodes /\ d.first[p] # n /\ d.first[p] # b
          BY <1>p, <5>1, <4>2, NodeNumbers DEF Ends, PtrType, Ptr, Neighbours
        <5>3. e.par[d.first[p]] = d.par[d.first[p]] /\ e.prev[d.first[p]] = d.prev[d.first[p]]
          BY <5>2 DEF Inserted
        <5>4. QED  BY <1>p, <5>1, <5>3 DEF Ends
      <4>3. QED  BY <4>1, <4>2
    <3>2. e.last[p] # Nil /\ e.par[e.last[p]] = p /\ e.next[e.last[p]] = Nil
      <4>1. CASE b = Nil
        <5>1. e.last[p] = n  BY <4>1 DEF Inserted
        <5>2. QED  BY <5>1, <3>n, <4>1, NodeNumbers
      <4>2. CASE b # Nil
        <5>1. e.last[p] = d.last[p] /\ d.last[p] # Nil
          BY <4>2, <1>3, HasFirst DEF Inserted, Neighbours
        <5>2. d.last[p] \in Nodes /\ d.last[p] # n /\ d.last[p] # a
          BY <1>p, <5>1, <4>2, NodeNumbers DEF Ends, PtrType, Ptr, Neighbours
        <5>3. e.par[d.last[p]] = d.par[d.last[p]] /\ e.next[d.last[p]] = d.next[d.last[p]]
          BY <5>2 DEF Inserted
        <5>4. QED  BY <1>p, <5>1, <5>3 DEF Ends
      <4>3. QED  BY <4>1, <4>2
    <3>3. QED  BY <2>3, <3>1, <3>2 DEF Ends
  <2>4. QED  BY <2>2, <2>3
<1>5. ASSUME NEW m \in Nodes PROVE Single(e, m) /\ Left(e, m) /\ Right(e, m)
  <2>1. Single(d, m) /\ Left(d, m) /\ Right(d, m)  BY LinksParts
  <2>2. CASE m = n
    <3>1. e.par[m] = p /\ e.next[m] = b /\ e.prev[m] = a  BY <2>2 DEF Inserted
    <3>2. Left(e, m)
      <4>1. CASE a = Nil  BY <2>2, <3>1, <4>1 DEF Left, Inserted
      <4>2. CASE a # Nil
        <5>1. e.next[a] = n /\ e.par[a] = p  BY <1>1, <1>2, <4>2 DEF Inserted, Neighbours
        <5>2. QED  BY <2>2, <3>1, <4>2, <5>1 DEF Left
      <4>3. QED  BY <4>1, <4>2
    <3>3. Right(e, m)
      <4>1. CASE b = Nil  BY <2>2, <3>1, <4>1 DEF Right, Inserted
      <4>2. CASE b # Nil
        <5>1. e.prev[b] = n /\ e.par[b] = p  BY <1>1, <1>3, <4>2 DEF Inserted, Neighbours
        <5>2. QED  BY <2>2, <3>1, <4>2, <5>1 DEF Right
      <4>3. QED  BY <4>1, <4>2
    <3>4. Single(e, m)  BY <1>1, <3>1 DEF Single
    <3>5. QED  BY <3>2, <3>3, <3>4
  <2>3. CASE m # n
    <3>1. e.par[m] = d.par[m]  BY <2>3 DEF Inserted
    <3>2. CASE d.par[m] = Nil
      <4>1. m # a /\ m # b  BY <1>1, <3>2, NodeNumbers DEF Neighbours
      <4>2. e.prev[m] = d.prev[m] /\ e.next[m] = d.next[m]  BY <2>3, <4>1 DEF Inserted
      <4>3. QED  BY <2>1, <3>1, <3>2, <4>2 DEF Single, Left, Right
    <3>3. CASE d.par[m] # Nil
      <4>1. Left(e, m)
        <5>1. CASE m = b
          <6>1. e.prev[m] = n /\ e.next[n] = m /\ e.par[n] = p  BY <2>3, <5>1 DEF Inserted
          <6>2. d.par[m] = p  BY <5>1, NodeNumbers DEF Neighbours
          <6>3. QED  BY <3>1, <6>1, <6>2, NodeNumbers DEF Left
        <5>2. CASE m # b
          <6>1. e.prev[m] = d.prev[m]  BY <2>3, <5>2 DEF Inserted
          <6>2. CASE d.prev[m] = Nil
            <7>1. d.first[d.par[m]] = m  BY <2>1, <3>3, <6>2 DEF Left
            <7>2. ~ (d.par[m] = p /\ a = Nil)  BY <7>1, <5>2 DEF Neighbours
            <7>3. e.first[d.par[m]] = m  BY <3>3, <7>1, <7>2 DEF Inserted, PtrType, Ptr
            <7>4. QED  BY <3>1, <6>1, <6>2, <7>3 DEF Left
          <6>3. CASE d.prev[m] # Nil
            <7>1. d.prev[m] \in Nodes  BY <6>3 DEF PtrType, Ptr
            <7>2. d.next[d.prev[m]] = m /\ d.par[d.prev[m]] = d.par[m]  BY <2>1, <3>3, <6>3 DEF Left
            <7>3. d.prev[m] # n /\ d.prev[m] # a
              BY <3>3, <5>2, <6>3, <7>2 DEF Neighbours
            <7>4. e.next[d.prev[m]] = m /\ e.par[d.prev[m]] = d.par[m]
              BY <7>1, <7>2, <7>3 DEF Inserted
            <7>5. QED  BY <3>1, <6>1, <6>3, <7>4 DEF Left
          <6>4. QED  BY <6>2, <6>3
        <5>3. QED  BY <5>1, <5>2
      <4>2. Right(e, m)
        <5>1. CASE m = a
          <6>1. e.next[m] = n /\ e.prev[n] = m /\ e.par[n] = p  BY <2>3, <5>1 DEF Inserted
          <6>2. d.par[m] = p  BY <5>1, NodeNumbers DEF Neighbours
          <6>3. QED  BY <3>1, <6>1, <6>2, NodeNumbers DEF Right
        <5>2. CASE m # a
          <6>1. e.next[m] = d.next[m]  BY <2>3, <5>2 DEF Inserted
          <6>2. CASE d.next[m] = Nil
            <7>1. d.last[d.par[m]] = m  BY <2>1, <3>3, <6>2 DEF Right
            <7>2. ~ (d.par[m] = p /\ b = Nil)  BY <7>1, <5>2 DEF Neighbours
            <7>3. e.last[d.par[m]] = m  BY <3>3, <7>1, <7>2 DEF Inserted, PtrType, Ptr
            <7>4. QED  BY <3>1, <6>1, <6>2, <7>3 DEF Right
          <6>3. CASE d.next[m] # Nil
            <7>1. d.next[m] \in Nodes  BY <6>3 DEF PtrType, Ptr
            <7>2. d.prev[d.next[m]] = m /\ d.par[d.next[m]] = d.par[m]  BY <2>1, <3>3, <6>3 DEF Right
            <7>3. d.next[m] # n /\ d.next[m] # b
              BY <3>3, <5>2, <6>3, <7>2 DEF Neighbours
            <7>4. e.prev[d.next[m]] = m /\ e.par[d.next[m]] = d.par[m]
              BY <7>1, <7>2, <7>3 DEF Inserted
            <7>5. QED  BY <3>1, <6>1, <6>3, <7>4 DEF Right
          <6>4. QED  BY <6>2, <6>3
        <5>3. QED  BY <5>1, <5>2
      <4>3. Single(e, m)  BY <3>1, <3>3 DEF Single
      <4>4. QED  BY <4>1, <4>2, <4>3
    <3>4. QED  BY <3>2, <3>3
  <2>4. QED  BY <2>2, <2>3
<1>6. QED  BY <1>4, <1>5, LinksParts

-----------------------------------------------------------------------------
(***************************************************************************)
(* Lists and trees have no circles.                                        *)
(***************************************************************************)
\* What c was between stays in order without it.
LEMMA UnlinkOneList ==
  ASSUME NEW d, NEW e, PtrType(d), NEW c \in Nodes, d.par[c] # Nil,
         Links(d), OneList(d), Unlinked(d, e, c)
  PROVE  OneList(e)
<1> SUFFICES ASSUME NEW S \in SUBSET {m \in Nodes : e.par[m] # Nil}, S # {},
                    \A m \in S : e.prev[m] \in S
             PROVE  FALSE
  BY DEF OneList
<1>1. \A m \in S : m \in Nodes /\ m # c /\ d.par[m] # Nil  BY DEF Unlinked
<1>2. Right(d, c)  BY LinksParts
<1>3. CASE d.next[c] \in S
  <2> DEFINE T == S \cup {c}
  <2>1. T \in SUBSET {m \in Nodes : d.par[m] # Nil} /\ T # {}  BY <1>1
  <2>2. PICK m \in T : d.prev[m] \notin T  BY <2>1 DEF OneList
  <2>3. d.next[c] \in Nodes /\ d.next[c] # c  BY <1>1, <1>3
  <2>4. CASE m = c
    <3>1. e.prev[d.next[c]] = d.prev[c]  BY <2>3 DEF Unlinked
    <3>2. QED  BY <1>3, <2>2, <2>4, <3>1
  <2>5. CASE m = d.next[c]
    <3>1. d.prev[m] = c  BY <1>2, <1>3, <2>5, <1>1, NodeNumbers DEF Right
    <3>2. QED  BY <2>2, <3>1
  <2>6. CASE m # c /\ m # d.next[c]
    <3>1. m \in S /\ e.prev[m] = d.prev[m]  BY <1>1, <2>6 DEF Unlinked
    <3>2. QED  BY <2>2, <3>1
  <2>7. QED  BY <2>4, <2>5, <2>6
<1>4. CASE d.next[c] \notin S
  <2>1. S \in SUBSET {m \in Nodes : d.par[m] # Nil}  BY <1>1
  <2>2. PICK m \in S : d.prev[m] \notin S  BY <2>1 DEF OneList
  <2>3. e.prev[m] = d.prev[m]  BY <1>1, <1>4, <2>2 DEF Unlinked
  <2>4. QED  BY <2>2, <2>3
<1>5. QED  BY <1>3, <1>4

LEMMA InsertOneList ==
  ASSUME NEW d, NEW e, PtrType(d), Links(d), OneList(d),
         NEW p \in Nodes \cup {Doc}, NEW n \in Nodes, d.par[n] = Nil, NEW a, NEW b,
         Neighbours(d, p, a, b), Inserted(d, e, p, n, a, b)
  PROVE  OneList(e)
<1> SUFFICES ASSUME NEW S \in SUBSET {m \in Nodes : e.par[m] # Nil}, S # {},
                    \A m \in S : e.prev[m] \in S
             PROVE  FALSE
  BY DEF OneList
<1> DEFINE T == S \ {n}
<1>1. a # n /\ b # n  BY NodeNumbers DEF Neighbours
<1>2. T \in SUBSET {m \in Nodes : d.par[m] # Nil}  BY DEF Inserted
<1>3. n \in S => a \in T
  BY <1>1 DEF Inserted
<1>4. T # {}  BY <1>3
<1>5. PICK m \in T : d.prev[m] \notin T  BY <1>2, <1>4 DEF OneList
<1>6. m \in Nodes /\ m # n /\ m \in S  BY <1>5
<1>7. CASE m = b
  <2>1. e.prev[m] = n  BY <1>6, <1>7 DEF Inserted
  <2>2. n \in S  BY <1>6, <2>1
  <2>3. d.prev[m] = a  BY <1>6, <1>7, NodeNumbers DEF Neighbours
  <2>4. QED  BY <1>3, <1>5, <2>2, <2>3
<1>8. CASE m # b
  <2>1. e.prev[m] = d.prev[m]  BY <1>6, <1>8 DEF Inserted
  <2>2. d.prev[m] = n  BY <1>5, <1>6, <2>1
  <2>3. Left(d, m) /\ d.par[m] # Nil  BY <1>2, <1>5, LinksParts
  <2>4. QED  BY <2>2, <2>3, NodeNumbers DEF Left
<1>9. QED  BY <1>7, <1>8

LEMMA UnlinkTree ==
  ASSUME NEW d, NEW e, NEW c \in Nodes, Tree(d), Unlinked(d, e, c)
  PROVE  Tree(e)
<1> SUFFICES ASSUME NEW S \in SUBSET Nodes, S # {} PROVE \E m \in S : e.par[m] \notin S
  BY DEF Tree
<1>1. PICK m \in S : d.par[m] \notin S  BY DEF Tree
<1>2. e.par[m] = d.par[m] \/ e.par[m] = Nil  BY DEF Unlinked
<1>3. QED  BY <1>1, <1>2, NodeNumbers

\* A node goes below p, which is not below the node.
LEMMA InsertTree ==
  ASSUME NEW d, NEW e, PtrType(d), Tree(d), NEW p \in Nodes \cup {Doc}, NEW n \in Nodes,
         NEW a, NEW b, Inserted(d, e, p, n, a, b), ~ Below(d, p, n)
  PROVE  Tree(e)
<1>1. PICK U \in SUBSET (Nodes \cup {Doc}) :
         /\ p \in U /\ n \notin U
         /\ \A k \in U \ {Doc} : d.par[k] # Nil => d.par[k] \in U
  BY DEF Below
<1> SUFFICES ASSUME NEW S \in SUBSET Nodes, S # {}, \A m \in S : e.par[m] \in S PROVE FALSE
  BY DEF Tree
<1>2. CASE n \notin S
  <2>1. PICK m \in S : d.par[m] \notin S  BY DEF Tree
  <2>2. e.par[m] = d.par[m]  BY <1>2, <2>1 DEF Inserted
  <2>3. QED  BY <2>1, <2>2
<1>3. CASE n \in S
  <2> DEFINE T == S \cap U
  <2>1. p \in T  BY <1>1, <1>3 DEF Inserted
  <2>2. PICK m \in T : d.par[m] \notin T  BY <2>1 DEF Tree
  <2>3. m \in Nodes /\ m # n /\ m \in S /\ m \in U  BY <1>1, <2>2
  <2>4. d.par[m] \in S  BY <2>3 DEF Inserted
  <2>5. d.par[m] \in U  BY <1>1, <2>3, <2>4, NodeNumbers
  <2>6. QED  BY <2>2, <2>4, <2>5
<1>4. QED  BY <1>2, <1>3

-----------------------------------------------------------------------------
(***************************************************************************)
(* The methods that move nodes.                                            *)
(***************************************************************************)
LEMMA DomPtr ==
  ASSUME NEW d, DomType(d) PROVE PtrType(d)
BY DEF DomType, PtrType

LEMMA UnlinkShape ==
  ASSUME NEW d, DomType(d), Shape(d), NEW c \in Nodes, d.par[c] # Nil
  PROVE  Shape(Unlink(d, c))
<1> DEFINE e == Unlink(d, c)
<1>1. DomType(e) /\ Unlinked(d, e, c) /\ SameStock(d, e)  BY UnlinkType, UnlinkIs
<1> HIDE DEF e
<1>2. PtrType(d) /\ PtrType(e)  BY <1>1, DomPtr
<1>3. Links(d) /\ OneList(d) /\ Tree(d) /\ FreeClean(d) /\ ParLive(d)  BY DEF Shape
<1>4. Links(e)  BY <1>1, <1>2, <1>3, UnlinkLinks
<1>5. OneList(e)  BY <1>1, <1>2, <1>3, UnlinkOneList
<1>6. Tree(e)  BY <1>1, <1>3, UnlinkTree
<1>7. FreeClean(e)
  <2>1. ASSUME NEW n \in Nodes, d.kind[n] = "free"
        PROVE  e.par[n] = Nil /\ e.first[n] = Nil /\ e.attrs[n] = <<>>
    <3>1. d.par[n] = Nil /\ d.first[n] = Nil /\ d.attrs[n] = <<>>  BY <1>3, <2>1 DEF FreeClean
    <3>2. e.par[n] = Nil  BY <1>1, <3>1 DEF Unlinked
    <3>3. e.first[n] = Nil  BY <1>1, <3>1, NodeNumbers DEF Unlinked
    <3>4. e.attrs = d.attrs  BY <1>1 DEF SameStock
    <3>5. QED  BY <3>1, <3>2, <3>3, <3>4
  <2>2. e.kind = d.kind  BY <1>1 DEF SameStock
  <2>3. QED  BY <2>1, <2>2 DEF FreeClean
<1>8. ParLive(e)
  <2>1. e.kind = d.kind  BY <1>1 DEF SameStock
  <2>2. \A n \in Nodes : e.par[n] = d.par[n] \/ e.par[n] = Nil  BY <1>1 DEF Unlinked
  <2>3. QED  BY <1>3, <2>1, <2>2, NodeNumbers DEF ParLive
<1>9. QED  BY <1>4, <1>5, <1>6, <1>7, <1>8 DEF Shape, e

LEMMA ToSetIn == ASSUME NEW S, NEW s \in Seq(S) PROVE ToSet(s) = {s[i] : i \in 1 .. Len(s)} /\ ToSet(s) \subseteq S
BY DEF ToSet

LEMMA MarkInUseType ==
  ASSUME NEW d, DomType(d), NEW n \in Nodes
  PROVE  /\ DomType(MarkInUse(d, n))
         /\ SamePtrs(d, MarkInUse(d, n)) /\ SameStock(d, MarkInUse(d, n))
<1>1. CASE ~ Contains(d.unlinked, n)  BY <1>1 DEF MarkInUse, SamePtrs, SameStock
<1>2. CASE Contains(d.unlinked, n)
  <2> DEFINE u == d.unlinked
             i == CHOOSE j \in 1 .. Len(u) : u[j] = n
             v == Front([u EXCEPT ![i] = Last(u)])
  <2>1. u \in Seq(Nodes) /\ u # <<>>  BY <1>2 DEF DomType, Contains
  <2>2. v \in Seq(Nodes)  BY <2>1 DEF Front, Last
  <2>3. MarkInUse(d, n) = [d EXCEPT !.unlinked = v]  BY <1>2 DEF MarkInUse
  <2> HIDE DEF v, u, i
  <2>4. QED  BY <2>2, <2>3 DEF DomType, SamePtrs, SameStock
<1>3. QED  BY <1>1, <1>2

LEMMA MarkInUseSet ==
  ASSUME NEW d, DomType(d), NEW n \in Nodes, Once(d.unlinked)
  PROVE  /\ Once(MarkInUse(d, n).unlinked)
         /\ ToSet(MarkInUse(d, n).unlinked) = ToSet(d.unlinked) \ {n}
<1>1. d.unlinked \in Seq(Nodes)  BY DEF DomType
<1>2. CASE ~ Contains(d.unlinked, n)
  <2>1. n \notin ToSet(d.unlinked)  BY <1>1, <1>2 DEF Contains, ToSet
  <2>2. QED  BY <1>2, <2>1 DEF MarkInUse
<1>3. CASE Contains(d.unlinked, n)
  <2> DEFINE u == d.unlinked
             i == CHOOSE j \in 1 .. Len(u) : u[j] = n
             v == Front([u EXCEPT ![i] = Last(u)])
  <2>1. u \in Seq(Nodes) /\ Len(u) > 0  BY <1>1, <1>3 DEF Contains
  <2>2. i \in 1 .. Len(u) /\ u[i] = n  BY <1>3 DEF Contains
  <2>3. MarkInUse(d, n).unlinked = v  BY <1>3 DEF MarkInUse, DomType
  <2> HIDE DEF i
  <2>4. v \in Seq(Nodes) /\ Len(v) = Len(u) - 1
        /\ \A j \in 1 .. Len(u) - 1 : v[j] = IF j = i THEN u[Len(u)] ELSE u[j]
    BY <2>1, <2>2 DEF Front, Last
  <2> HIDE DEF v
  <2>5. \A j, k \in 1 .. Len(u) : u[j] = u[k] => j = k  BY DEF Once
  <2> HIDE DEF u
  <2>6. Once(v)  BY <2>1, <2>2, <2>4, <2>5 DEF Once
  <2>7. ASSUME NEW x \in ToSet(v) PROVE x \in ToSet(u) \ {n}
    <3>1. PICK j \in 1 .. Len(v) : x = v[j]  BY <2>4, <2>7, ToSetIn
    <3>2. QED  BY <2>1, <2>2, <2>4, <2>5, <3>1, ToSetIn
  <2>8. ASSUME NEW x \in ToSet(u), x # n PROVE x \in ToSet(v)
    <3>1. PICK j \in 1 .. Len(u) : x = u[j]  BY <2>1, <2>8, ToSetIn
    <3>2. j # i  BY <2>2, <2>8, <3>1
    <3>3. CASE j = Len(u)
      <4>1. i \in 1 .. Len(v) /\ v[i] = x  BY <2>1, <2>2, <2>4, <3>1, <3>2, <3>3
      <4>2. QED  BY <2>4, <4>1, ToSetIn
    <3>4. CASE j # Len(u)
      <4>1. j \in 1 .. Len(v) /\ v[j] = x  BY <2>1, <2>4, <3>1, <3>2, <3>4
      <4>2. QED  BY <2>4, <4>1, ToSetIn
    <3>5. QED  BY <3>3, <3>4
  <2>9. QED  BY <2>3, <2>6, <2>7, <2>8 DEF u
<1>4. QED  BY <1>2, <1>3

\* Shape is about the pointers, the kinds and which attributes there are.
LEMMA ShapeSame ==
  ASSUME NEW d, NEW e, Shape(d), SamePtrs(d, e), e.kind = d.kind, e.attrs = d.attrs
  PROVE  Shape(e)
<1> USE DEF SamePtrs
<1>1. Links(e)  BY DEF Shape, Links
<1>2. OneList(e)  BY DEF Shape, OneList
<1>3. Tree(e)  BY DEF Shape, Tree
<1>4. FreeClean(e) /\ ParLive(e)  BY DEF Shape, FreeClean, ParLive
<1>5. QED  BY <1>1, <1>2, <1>3, <1>4 DEF Shape

LEMMA LiveSame == ASSUME NEW d, NEW e, e.kind = d.kind PROVE Live(e) = Live(d)
BY DEF Live

LEMMA PoolsSame ==
  ASSUME NEW d, NEW e, PoolsExact(d), e.kind = d.kind, e.attrs = d.attrs, e.allocs = d.allocs
  PROVE  PoolsExact(e)
BY DEF PoolsExact, PoolNodes, Attributes

LEMMA AppendSet ==
  ASSUME NEW s \in Seq(Nodes), NEW n \in Nodes
  PROVE  /\ Append(s, n) \in Seq(Nodes)
         /\ ToSet(Append(s, n)) = ToSet(s) \cup {n}
         /\ Once(s) /\ n \notin ToSet(s) => Once(Append(s, n))
<1>1. Append(s, n) \in Seq(Nodes) /\ Len(Append(s, n)) = Len(s) + 1  OBVIOUS
<1>2. ToSet(s) = {s[i] : i \in 1 .. Len(s)}  BY ToSetIn
<1>3. ToSet(Append(s, n)) = {Append(s, n)[i] : i \in 1 .. Len(Append(s, n))}  BY <1>1, ToSetIn
<1>4. \A i \in 1 .. Len(s) : Append(s, n)[i] = s[i]  OBVIOUS
<1>5. Append(s, n)[Len(s) + 1] = n  OBVIOUS
<1>6. ToSet(Append(s, n)) = ToSet(s) \cup {n}
  <2>1. ASSUME NEW x \in ToSet(Append(s, n)) PROVE x \in ToSet(s) \cup {n}
    BY <1>1, <1>2, <1>3, <1>4, <1>5
  <2>2. ASSUME NEW x \in ToSet(s) \cup {n} PROVE x \in ToSet(Append(s, n))
    BY <1>1, <1>2, <1>3, <1>4, <1>5
  <2>3. QED  BY <2>1, <2>2
<1>7. ASSUME Once(s), n \notin ToSet(s) PROVE Once(Append(s, n))
  BY <1>1, <1>2, <1>4, <1>5, <1>7 DEF Once
<1>8. QED  BY <1>1, <1>6, <1>7

\* InsertChildPreamble and DeleteNode take a node away from its owner.
LEMMA Take ==
  ASSUME NEW d, DomType(d), Shape(d), NEW R \in Seq(Nodes), OneOwner(d, R),
         NEW n \in Live(d), n \notin ToSet(R)
  PROVE  LET e == InsertChildPreamble(d, n) IN
         /\ DomType(e) /\ Shape(e) /\ SameStock(d, e) /\ OneOwner(e, Append(R, n))
         /\ \A m \in Nodes : e.par[m] = IF m = n THEN Nil ELSE d.par[m]
         /\ ToSet(e.unlinked) = ToSet(d.unlinked) \ {n}
         /\ DeleteNode(d, n) = e
<1> DEFINE e == InsertChildPreamble(d, n)
<1>1. n \in Nodes /\ d.unlinked \in Seq(Nodes)  BY DEF Live, DomType
<1>a. /\ DomType(e) /\ Shape(e) /\ SameStock(d, e)
      /\ \A m \in Nodes : e.par[m] = IF m = n THEN Nil ELSE d.par[m]
      /\ Once(e.unlinked) /\ ToSet(e.unlinked) = ToSet(d.unlinked) \ {n}
      /\ DeleteNode(d, n) = e
  <2>1. CASE d.par[n] # Nil
    <3>1. e = Unlink(d, n)  BY <2>1 DEF InsertChildPreamble
    <3>2. n \notin ToSet(d.unlinked)  BY <2>1 DEF OneOwner
    <3>3. DomType(e) /\ SameStock(d, e) /\ Unlinked(d, e, n) /\ e.unlinked = d.unlinked
      BY <1>1, <2>1, <3>1, UnlinkType, UnlinkIs
    <3>4. Shape(e)  BY <1>1, <2>1, <3>1, UnlinkShape
    <3>5. ~ Contains(e.unlinked, n)  BY <1>1, <3>2, <3>3, ToSetIn DEF Contains
    <3>6. DeleteNode(d, n) = e  BY <2>1, <3>1, <3>5 DEF DeleteNode, DeleteChild, MarkInUse
    <3>7. Once(e.unlinked)  BY <3>3 DEF OneOwner
    <3>8. QED  BY <3>2, <3>3, <3>4, <3>6, <3>7 DEF Unlinked
  <2>2. CASE d.par[n] = Nil
    <3>1. e = MarkInUse(d, n) /\ DeleteNode(d, n) = e
      BY <2>2 DEF InsertChildPreamble, DeleteNode
    <3>2. DomType(e) /\ SameStock(d, e) /\ SamePtrs(d, e)  BY <1>1, <3>1, MarkInUseType
    <3>3. Once(d.unlinked)  BY DEF OneOwner
    <3>4. Once(e.unlinked) /\ ToSet(e.unlinked) = ToSet(d.unlinked) \ {n}
      BY <1>1, <3>1, <3>3, MarkInUseSet
    <3>5. Shape(e)  BY <3>2, ShapeSame DEF SameStock
    <3>6. QED  BY <2>2, <3>1, <3>2, <3>4, <3>5 DEF SamePtrs
  <2>3. QED  BY <2>1, <2>2
<1> HIDE DEF e
<1>2. Live(e) = Live(d)  BY <1>a, LiveSame DEF SameStock
<1>3. Once(Append(R, n)) /\ ToSet(Append(R, n)) = ToSet(R) \cup {n}
  BY <1>1, AppendSet DEF OneOwner
<1>4. OneOwner(e, Append(R, n))
  <2>1. ToSet(e.unlinked) \cup ToSet(Append(R, n)) \subseteq Live(e)
    BY <1>2, <1>3, <1>a DEF OneOwner
  <2>2. ToSet(e.unlinked) \cap ToSet(Append(R, n)) = {}
    BY <1>3, <1>a DEF OneOwner
  <2>3. ASSUME NEW m \in Live(e)
        PROVE  e.par[m] = Nil <=> m \in ToSet(e.unlinked) \cup ToSet(Append(R, n))
    <3>1. m \in Live(d) /\ m \in Nodes  BY <1>2 DEF Live
    <3>2. d.par[m] = Nil <=> m \in ToSet(d.unlinked) \cup ToSet(R)  BY <3>1 DEF OneOwner
    <3>3. QED  BY <3>1, <3>2, <1>3, <1>a
  <2>4. QED  BY <1>3, <1>a, <2>1, <2>2, <2>3 DEF OneOwner
<1>5. QED  BY <1>a, <1>4 DEF e

\* The node that was taken gets a place below p.
LEMMA Give ==
  ASSUME NEW d, NEW f, DomType(d), DomType(f), Shape(d), NEW R \in Seq(Nodes),
         NEW n \in Nodes, OneOwner(d, Append(R, n)), n \notin ToSet(R), Once(R), d.par[n] = Nil,
         NEW p \in Live(d) \cup {Doc}, ~ Below(d, p, n), NEW a, NEW b,
         Neighbours(d, p, a, b), Inserted(d, f, p, n, a, b),
         SameStock(d, f), f.unlinked = d.unlinked
  PROVE  Shape(f) /\ OneOwner(f, R)
<1>1. PtrType(d) /\ PtrType(f)  BY DomPtr
<1>2. p \in Nodes \cup {Doc}  BY DEF Live
<1>3. Links(d) /\ OneList(d) /\ Tree(d) /\ FreeClean(d) /\ ParLive(d)  BY DEF Shape
<1>4. Links(f)  BY <1>1, <1>2, <1>3, InsertLinks
<1>5. OneList(f)  BY <1>1, <1>2, <1>3, InsertOneList
<1>6. Tree(f)  BY <1>1, <1>2, <1>3, InsertTree
<1>k. f.kind = d.kind /\ f.attrs = d.attrs /\ Live(f) = Live(d)  BY LiveSame DEF SameStock
<1>n. ToSet(Append(R, n)) = ToSet(R) \cup {n}  BY AppendSet
<1>l. n \in Live(d)  BY <1>n DEF OneOwner
<1>7. FreeClean(f)
  <2>1. ASSUME NEW m \in Nodes, d.kind[m] = "free"
        PROVE  f.par[m] = Nil /\ f.first[m] = Nil /\ d.attrs[m] = <<>>
    <3>1. d.par[m] = Nil /\ d.first[m] = Nil /\ d.attrs[m] = <<>>  BY <1>3, <2>1 DEF FreeClean
    <3>2. m # n /\ m # p  BY <1>l, <2>1, NodeNumbers DEF Live
    <3>3. QED  BY <3>1, <3>2 DEF Inserted
  <2>2. QED  BY <1>k, <2>1 DEF FreeClean
<1>8. ParLive(f)
  <2>1. \A m \in Nodes : f.par[m] = d.par[m] \/ f.par[m] = p  BY DEF Inserted
  <2>2. p \in Nodes => d.kind[p] # "free"  BY NodeNumbers DEF Live
  <2>3. QED  BY <1>3, <1>k, <2>1, <2>2 DEF ParLive
<1>9. OneOwner(f, R)
  <2>1. ToSet(f.unlinked) \cup ToSet(R) \subseteq Live(f)  BY <1>k, <1>n DEF OneOwner
  <2>2. ToSet(f.unlinked) \cap ToSet(R) = {} /\ Once(f.unlinked)  BY <1>n DEF OneOwner
  <2>3. ASSUME NEW m \in Live(f) PROVE f.par[m] = Nil <=> m \in ToSet(f.unlinked) \cup ToSet(R)
    <3>1. m \in Live(d) /\ m \in Nodes  BY <1>k DEF Live
    <3>2. d.par[m] = Nil <=> m \in ToSet(d.unlinked) \cup ToSet(R) \cup {n}
      BY <1>n, <3>1 DEF OneOwner
    <3>3. CASE m = n
      <4>1. f.par[m] = p /\ p # Nil  BY <1>2, <3>3, NodeNumbers DEF Inserted
      <4>2. n \notin ToSet(d.unlinked)  BY <1>n DEF OneOwner
      <4>3. QED  BY <3>3, <4>1, <4>2
    <3>4. CASE m # n
      <4>1. f.par[m] = d.par[m]  BY <3>1, <3>4 DEF Inserted
      <4>2. QED  BY <3>2, <3>4, <4>1
    <3>5. QED  BY <3>3, <3>4
  <2>4. QED  BY <2>1, <2>2, <2>3 DEF OneOwner
<1>10. QED  BY <1>4, <1>5, <1>6, <1>7, <1>8, <1>9 DEF Shape

LEMMA BelowTaken ==
  ASSUME NEW d, NEW e, NEW p \in Nodes \cup {Doc}, NEW n \in Nodes, ~ Below(d, p, n),
         \A m \in Nodes : e.par[m] = IF m = n THEN Nil ELSE d.par[m]
  PROVE  ~ Below(e, p, n)
<1>1. PICK U \in SUBSET (Nodes \cup {Doc}) :
         /\ p \in U /\ n \notin U
         /\ \A k \in U \ {Doc} : d.par[k] # Nil => d.par[k] \in U
  BY DEF Below
<1>2. \A k \in U \ {Doc} : e.par[k] = d.par[k]  BY <1>1
<1>3. QED  BY <1>1, <1>2 DEF Below

\* What InsertEndChild and InsertFirstChild do after the preamble.
PutLast(e, p, n) ==
    LET l == e.last[p] IN
    [e EXCEPT !.next = [m \in Nodes |-> IF m = n THEN Nil ELSE IF m = l THEN n ELSE @[m]],
              !.prev[n] = l, !.last[p] = n, !.par[n] = p,
              !.first[p] = IF l = Nil THEN n ELSE @]
PutFirst(e, p, n) ==
    LET f == e.first[p] IN
    [e EXCEPT !.prev = [m \in Nodes |-> IF m = n THEN Nil ELSE IF m = f THEN n ELSE @[m]],
              !.next[n] = f, !.first[p] = n, !.par[n] = p,
              !.last[p] = IF f = Nil THEN n ELSE @]
PutAfter(e, p, a, n) ==
    LET x == e.next[a] IN
    [e EXCEPT !.prev = [m \in Nodes |-> IF m = n THEN a ELSE IF m = x THEN n ELSE @[m]],
              !.next = [m \in Nodes |-> IF m = n THEN x ELSE IF m = a THEN n ELSE @[m]],
              !.par[n] = p]

LEMMA PutLastIs ==
  ASSUME NEW e, DomType(e), Links(e), NEW p \in Nodes \cup {Doc}, NEW n \in Nodes, e.par[n] = Nil
  PROVE  LET f == PutLast(e, p, n) IN
         /\ DomType(f) /\ SameStock(e, f) /\ f.unlinked = e.unlinked
         /\ Neighbours(e, p, e.last[p], Nil) /\ Inserted(e, f, p, n, e.last[p], Nil)
<1> DEFINE l == e.last[p]
           f == PutLast(e, p, n)
<1>1. l \in Ptr /\ Nil \in Ptr /\ n \in Ptr  BY DEF DomType, Ptr
<1>2. DomType(f)  BY <1>1, NodeNumbers DEF DomType, PutLast, Ptr
<1>3. SameStock(e, f) /\ f.unlinked = e.unlinked  BY DEF DomType, PutLast, SameStock
<1>4. Ends(e, p)  BY LinksParts
<1>5. Neighbours(e, p, l, Nil)  BY <1>1, <1>4 DEF Neighbours, Ends
<1>6. l # n  BY <1>4, NodeNumbers DEF Ends
<1>7. /\ f.par = [e.par EXCEPT ![n] = p] /\ f.prev = [e.prev EXCEPT ![n] = l]
      /\ f.next = [m \in Nodes |-> IF m = n THEN Nil ELSE IF m = l THEN n ELSE e.next[m]]
      /\ f.first = [e.first EXCEPT ![p] = IF l = Nil THEN n ELSE e.first[p]]
      /\ f.last = [e.last EXCEPT ![p] = n]
  BY DEF DomType, PutLast
<1>8. /\ e.par \in [Nodes -> Ptr \cup {Doc}] /\ e.prev \in [Nodes -> Ptr]
      /\ e.first \in [Nodes \cup {Doc} -> Ptr] /\ e.last \in [Nodes \cup {Doc} -> Ptr]
  BY DEF DomType
<1> HIDE DEF f, l
<1>9. Inserted(e, f, p, n, l, Nil)  BY <1>7, <1>8, NodeNumbers DEF Inserted
<1>10. QED  BY <1>2, <1>3, <1>5, <1>9 DEF f, l

LEMMA PutFirstIs ==
  ASSUME NEW e, DomType(e), Links(e), NEW p \in Nodes \cup {Doc}, NEW n \in Nodes, e.par[n] = Nil
  PROVE  LET f == PutFirst(e, p, n) IN
         /\ DomType(f) /\ SameStock(e, f) /\ f.unlinked = e.unlinked
         /\ Neighbours(e, p, Nil, e.first[p]) /\ Inserted(e, f, p, n, Nil, e.first[p])
<1> DEFINE l == e.first[p]
           f == PutFirst(e, p, n)
<1>1. l \in Ptr /\ Nil \in Ptr /\ n \in Ptr  BY DEF DomType, Ptr
<1>2. DomType(f)  BY <1>1, NodeNumbers DEF DomType, PutFirst, Ptr
<1>3. SameStock(e, f) /\ f.unlinked = e.unlinked  BY DEF DomType, PutFirst, SameStock
<1>4. Ends(e, p)  BY LinksParts
<1>5. Neighbours(e, p, Nil, l)  BY <1>1, <1>4 DEF Neighbours, Ends
<1>6. /\ f.par = [e.par EXCEPT ![n] = p] /\ f.next = [e.next EXCEPT ![n] = l]
      /\ f.prev = [m \in Nodes |-> IF m = n THEN Nil ELSE IF m = l THEN n ELSE e.prev[m]]
      /\ f.last = [e.last EXCEPT ![p] = IF l = Nil THEN n ELSE e.last[p]]
      /\ f.first = [e.first EXCEPT ![p] = n]
  BY DEF DomType, PutFirst
<1>7. /\ e.par \in [Nodes -> Ptr \cup {Doc}] /\ e.next \in [Nodes -> Ptr]
      /\ e.first \in [Nodes \cup {Doc} -> Ptr] /\ e.last \in [Nodes \cup {Doc} -> Ptr]
  BY DEF DomType
<1> HIDE DEF f, l
<1>8. Inserted(e, f, p, n, Nil, l)  BY <1>6, <1>7, NodeNumbers DEF Inserted
<1>9. QED  BY <1>2, <1>3, <1>5, <1>8 DEF f, l

LEMMA PutAfterIs ==
  ASSUME NEW e, DomType(e), Links(e), NEW p \in Nodes \cup {Doc}, NEW n \in Nodes, e.par[n] = Nil,
         NEW a \in Nodes, e.par[a] = p, e.next[a] # Nil
  PROVE  LET f == PutAfter(e, p, a, n) IN
         /\ DomType(f) /\ SameStock(e, f) /\ f.unlinked = e.unlinked
         /\ Neighbours(e, p, a, e.next[a]) /\ Inserted(e, f, p, n, a, e.next[a])
<1> DEFINE x == e.next[a]
           f == PutAfter(e, p, a, n)
<1>1. x \in Nodes /\ x \in Ptr /\ a \in Ptr  BY DEF DomType, Ptr
<1>2. DomType(f)  BY <1>1, NodeNumbers DEF DomType, PutAfter, Ptr
<1>3. SameStock(e, f) /\ f.unlinked = e.unlinked  BY DEF DomType, PutAfter, SameStock
<1>4. Right(e, a)  BY LinksParts
<1>5. Neighbours(e, p, a, x)  BY <1>1, <1>4, NodeNumbers DEF Neighbours, Right
<1>6. /\ f.par = [e.par EXCEPT ![n] = p] /\ f.first = e.first /\ f.last = e.last
      /\ f.prev = [m \in Nodes |-> IF m = n THEN a ELSE IF m = x THEN n ELSE e.prev[m]]
      /\ f.next = [m \in Nodes |-> IF m = n THEN x ELSE IF m = a THEN n ELSE e.next[m]]
  BY DEF DomType, PutAfter
<1>7. e.par \in [Nodes -> Ptr \cup {Doc}]
  BY DEF DomType
<1> HIDE DEF f, x
<1>8. Inserted(e, f, p, n, a, x)  BY <1>1, <1>6, <1>7, NodeNumbers DEF Inserted
<1>9. QED  BY <1>2, <1>3, <1>5, <1>8 DEF f, x

-----------------------------------------------------------------------------
(***************************************************************************)
(* Insertion and deletion, as their callers see them.                      *)
(***************************************************************************)
\* f is d with n as a child of p.
Moved(d, R, f, p, n) ==
    /\ DomType(f) /\ Shape(f) /\ OneOwner(f, R) /\ SameStock(d, f)
    /\ ToSet(f.unlinked) = ToSet(d.unlinked) \ {n}
    /\ \A m \in Nodes : f.par[m] = IF m = n THEN p ELSE d.par[m]

\* What an insertion needs.
Ready(d, R, p, n) ==
    /\ DomType(d) /\ Shape(d) /\ R \in Seq(Nodes) /\ OneOwner(d, R)
    /\ n \in Live(d) /\ n \notin ToSet(R) /\ p \in Live(d) \cup {Doc} /\ ~ Below(d, p, n)

LEMMA Insert ==
  ASSUME NEW d, NEW R, NEW p, NEW n, Ready(d, R, p, n), NEW f, NEW a, NEW b,
         LET e == InsertChildPreamble(d, n) IN
         /\ DomType(f) /\ SameStock(e, f) /\ f.unlinked = e.unlinked
         /\ Neighbours(e, p, a, b) /\ Inserted(e, f, p, n, a, b)
  PROVE  Moved(d, R, f, p, n)
<1> DEFINE e == InsertChildPreamble(d, n)
<1>1. n \in Nodes /\ p \in Nodes \cup {Doc} /\ R \in Seq(Nodes) /\ n \in Live(d) /\ n \notin ToSet(R)
      /\ DomType(d) /\ Shape(d) /\ OneOwner(d, R)
  BY DEF Ready, Live
<1>2. /\ DomType(e) /\ Shape(e) /\ SameStock(d, e) /\ OneOwner(e, Append(R, n))
      /\ \A m \in Nodes : e.par[m] = IF m = n THEN Nil ELSE d.par[m]
      /\ ToSet(e.unlinked) = ToSet(d.unlinked) \ {n}
  BY <1>1, Take
<1> HIDE DEF e
<1>3. /\ DomType(f) /\ SameStock(e, f) /\ f.unlinked = e.unlinked
      /\ Neighbours(e, p, a, b) /\ Inserted(e, f, p, n, a, b)
  BY DEF e
<1>4. ~ Below(d, p, n)  BY DEF Ready
<1>5. ~ Below(e, p, n)  BY <1>1, <1>2, <1>4, BelowTaken
<1>6. p \in Live(e) \cup {Doc}
  <2>1. Live(e) = Live(d)  BY <1>2, LiveSame DEF SameStock
  <2>2. QED  BY <2>1 DEF Ready
<1>7. Once(R) /\ e.par[n] = Nil  BY <1>1, <1>2 DEF OneOwner
<1>8. Shape(f) /\ OneOwner(f, R)  BY <1>1, <1>2, <1>3, <1>5, <1>6, <1>7, Give
<1>9. SameStock(d, f)  BY <1>2, <1>3 DEF SameStock
<1>10. \A m \in Nodes : f.par[m] = IF m = n THEN p ELSE d.par[m]  BY <1>2, <1>3 DEF Inserted
<1>11. QED  BY <1>2, <1>3, <1>8, <1>9, <1>10 DEF Moved

LEMMA Prepared ==
  ASSUME NEW d, NEW R, NEW p, NEW n, Ready(d, R, p, n)
  PROVE  LET e == InsertChildPreamble(d, n) IN
         /\ n \in Nodes /\ p \in Nodes \cup {Doc}
         /\ DomType(e) /\ Links(e) /\ SameStock(d, e)
         /\ \A m \in Nodes : e.par[m] = IF m = n THEN Nil ELSE d.par[m]
BY Take DEF Ready, Live, Shape

LEMMA InsertEndMoves ==
  ASSUME NEW d, NEW R, NEW p, NEW n, Ready(d, R, p, n)
  PROVE  Moved(d, R, InsertEndChild(d, p, n), p, n)
<1> DEFINE e == InsertChildPreamble(d, n)
           f == PutLast(e, p, n)
<1>1. InsertEndChild(d, p, n) = f  BY DEF InsertEndChild, PutLast
<1>2. n \in Nodes /\ p \in Nodes \cup {Doc} /\ DomType(e) /\ Links(e) /\ e.par[n] = Nil
  BY Prepared
<1>3. /\ DomType(f) /\ SameStock(e, f) /\ f.unlinked = e.unlinked
      /\ Neighbours(e, p, e.last[p], Nil) /\ Inserted(e, f, p, n, e.last[p], Nil)
  BY <1>2, PutLastIs
<1> HIDE DEF f
<1>4. QED  BY <1>1, <1>3, Insert

LEMMA InsertFirstMoves ==
  ASSUME NEW d, NEW R, NEW p, NEW n, Ready(d, R, p, n)
  PROVE  Moved(d, R, InsertFirstChild(d, p, n), p, n)
<1> DEFINE e == InsertChildPreamble(d, n)
           f == PutFirst(e, p, n)
<1>1. InsertFirstChild(d, p, n) = f  BY DEF InsertFirstChild, PutFirst
<1>2. n \in Nodes /\ p \in Nodes \cup {Doc} /\ DomType(e) /\ Links(e) /\ e.par[n] = Nil
  BY Prepared
<1>3. /\ DomType(f) /\ SameStock(e, f) /\ f.unlinked = e.unlinked
      /\ Neighbours(e, p, Nil, e.first[p]) /\ Inserted(e, f, p, n, Nil, e.first[p])
  BY <1>2, PutFirstIs
<1> HIDE DEF f
<1>4. QED  BY <1>1, <1>3, Insert

\* InsertAfterChild moves the node, leaves it where it is, or uses a null pointer.
LEMMA InsertAfterMoves ==
  ASSUME NEW d, NEW R, NEW a \in Nodes, NEW n, Ready(d, R, d.par[a], n)
  PROVE  LET f == InsertAfterChild(d, d.par[a], a, n) IN
         \/ f = d
         \/ Moved(d, R, f, d.par[a], n)
         \/ DomType(f) /\ f.crash /\ f.err = d.err
<1> DEFINE p == d.par[a]
           e == InsertChildPreamble(d, n)
           f == InsertAfterChild(d, p, a, n)
<1>1. CASE a = n  BY <1>1 DEF InsertAfterChild
<1>2. CASE a # n /\ d.next[a] = Nil
  <2>1. f = InsertEndChild(d, p, n)  BY <1>2 DEF InsertAfterChild
  <2>2. QED  BY <2>1, InsertEndMoves
<1>3. CASE a # n /\ d.next[a] # Nil
  <2>1. /\ n \in Nodes /\ p \in Nodes \cup {Doc} /\ DomType(e) /\ Links(e) /\ e.par[n] = Nil
        /\ e.par[a] = p /\ SameStock(d, e)
    BY <1>3, Prepared
  <2>2. CASE e.next[a] = Nil
    <3>1. f = [e EXCEPT !.crash = TRUE]  BY <1>3, <2>2 DEF InsertAfterChild
    <3> HIDE DEF e
    <3>2. DomType(f) /\ f.crash /\ f.err = e.err  BY <2>1, <3>1 DEF DomType
    <3>3. QED  BY <2>1, <3>2 DEF SameStock
  <2>3. CASE e.next[a] # Nil
    <3>1. f = PutAfter(e, p, a, n)  BY <1>3, <2>3 DEF InsertAfterChild, PutAfter
    <3>2. /\ DomType(f) /\ SameStock(e, f) /\ f.unlinked = e.unlinked
          /\ Neighbours(e, p, a, e.next[a]) /\ Inserted(e, f, p, n, a, e.next[a])
      BY <2>1, <2>3, <3>1, PutAfterIs
    <3>3. QED  BY <3>2, Insert
  <2>4. QED  BY <2>2, <2>3
<1>4. QED  BY <1>1, <1>2, <1>3

-----------------------------------------------------------------------------
(***************************************************************************)
(* The pools.                                                              *)
(***************************************************************************)
LEMMA NodesFinite == IsFiniteSet(Nodes)
BY NodesAssumption, FS_Interval DEF Nodes

LEMMA PoolFinite == ASSUME NEW d, NEW p PROVE IsFiniteSet(PoolNodes(d, p))
BY NodesFinite, FS_Subset DEF PoolNodes

\* The attributes of the node n, and of the others.
AttrsOf(d, n) == {n} \X (1 .. Len(d.attrs[n]))
AttrsBut(d, n) == UNION {AttrsOf(d, m) : m \in Nodes \ {n}}

LEMMA AttrsOfCount ==
  ASSUME NEW d, d.attrs \in [Nodes -> Seq(Names)], NEW n \in Nodes
  PROVE  IsFiniteSet(AttrsOf(d, n)) /\ Cardinality(AttrsOf(d, n)) = Len(d.attrs[n])
<1> DEFINE k == Len(d.attrs[n])
<1>1. k \in Nat  OBVIOUS
<1> HIDE DEF k
<1>2. IsFiniteSet(1 .. k) /\ Cardinality(1 .. k) = k
  <2>1. 1 \in Int /\ k \in Int  BY <1>1
  <2>2. IsFiniteSet(1 .. k) /\ Cardinality(1 .. k) = IF 1 > k THEN 0 ELSE k - 1 + 1
    BY ONLY <2>1, FS_Interval
  <2>3. QED  BY <1>1, <2>2
<1>3. IsFiniteSet({n}) /\ Cardinality({n}) = 1  BY FS_Singleton
<1> DEFINE A == {n}
           B == 1 .. k
<1>4. IsFiniteSet(A) /\ IsFiniteSet(B)  BY <1>2, <1>3
<1> HIDE DEF A, B
<1>5. IsFiniteSet(A \X B) /\ Cardinality(A \X B) = Cardinality(A) * Cardinality(B)
  BY <1>4, FS_Product
<1>6. Cardinality(A) * Cardinality(B) = k  BY <1>1, <1>2, <1>3 DEF A, B
<1>7. QED  BY <1>5, <1>6 DEF AttrsOf, k, A, B

LEMMA AttrsButFinite ==
  ASSUME NEW d, d.attrs \in [Nodes -> Seq(Names)], NEW n
  PROVE  IsFiniteSet(AttrsBut(d, n))
<1> DEFINE S == Nodes \ {n}
           T == {AttrsOf(d, m) : m \in S}
           f == [m \in S |-> AttrsOf(d, m)]
<1>1. IsFiniteSet(S)  BY NodesFinite, FS_RemoveElement
<1>2. f \in [S -> T] /\ \A t \in T : \E m \in S : f[m] = t  OBVIOUS
<1>3. \A t \in T : IsFiniteSet(t)  BY AttrsOfCount
<1> HIDE DEF f, S
<1>4. f \in Surjection(S, T)  BY <1>2 DEF Surjection
<1>5. IsFiniteSet(T)  BY <1>1, <1>4, FS_Surjection
<1> HIDE DEF T
<1>6. IsFiniteSet(UNION T)  BY <1>3, <1>5, FS_UNION
<1>7. QED  BY <1>6 DEF AttrsBut, T, S

LEMMA AttrsCount ==
  ASSUME NEW d, d.attrs \in [Nodes -> Seq(Names)], NEW n \in Nodes
  PROVE  /\ Cardinality(AttrsBut(d, n)) \in Nat
         /\ Cardinality(Attributes(d)) = Cardinality(AttrsBut(d, n)) + Len(d.attrs[n])
<1>1. Attributes(d) = AttrsBut(d, n) \cup AttrsOf(d, n)
  <2>1. Attributes(d) = UNION {AttrsOf(d, m) : m \in Nodes}  BY DEF Attributes, AttrsOf
  <2>2. QED  BY <2>1 DEF AttrsBut
<1>2. AttrsBut(d, n) \cap AttrsOf(d, n) = {}
  <2>1. \A m \in Nodes \ {n} : AttrsOf(d, m) \cap AttrsOf(d, n) = {}  BY DEF AttrsOf
  <2>2. QED  BY <2>1 DEF AttrsBut
<1>3. IsFiniteSet(AttrsBut(d, n))  BY AttrsButFinite
<1>4. IsFiniteSet(AttrsOf(d, n)) /\ Cardinality(AttrsOf(d, n)) = Len(d.attrs[n])  BY AttrsOfCount
<1>5. Cardinality(AttrsBut(d, n)) \in Nat  BY <1>3, FS_CardinalityType
<1>6. Cardinality(AttrsBut(d, n) \cup AttrsOf(d, n))
        = Cardinality(AttrsBut(d, n)) + Cardinality(AttrsOf(d, n)) - Cardinality({})
  BY <1>2, <1>3, <1>4, FS_Union
<1>7. Cardinality({}) = 0 /\ Len(d.attrs[n]) \in Nat  BY FS_EmptySet
<1>8. QED  BY <1>1, <1>4, <1>5, <1>6, <1>7

\* The attributes of one node change, and their pool with them.
LEMMA AttrsChange ==
  ASSUME NEW d, DomType(d), PoolsExact(d), NEW e, DomType(e), NEW n \in Nodes,
         e.kind = d.kind,
         \A m \in Nodes \ {n} : e.attrs[m] = d.attrs[m],
         \A p \in Pools \ {"attribute"} : e.allocs[p] = d.allocs[p],
         e.allocs["attribute"] = d.allocs["attribute"] - Len(d.attrs[n]) + Len(e.attrs[n])
  PROVE  PoolsExact(e)
<1>1. d.attrs \in [Nodes -> Seq(Names)] /\ e.attrs \in [Nodes -> Seq(Names)]  BY DEF DomType
<1>2. AttrsBut(e, n) = AttrsBut(d, n)
  <2>1. \A m \in Nodes \ {n} : AttrsOf(e, m) = AttrsOf(d, m)  BY DEF AttrsOf
  <2>2. QED  BY <2>1 DEF AttrsBut
<1>3. /\ Cardinality(AttrsBut(d, n)) \in Nat
      /\ Cardinality(Attributes(d)) = Cardinality(AttrsBut(d, n)) + Len(d.attrs[n])
  BY <1>1, AttrsCount
<1>4. Cardinality(Attributes(e)) = Cardinality(AttrsBut(e, n)) + Len(e.attrs[n])
  BY <1>1, AttrsCount
<1>5. d.allocs["attribute"] = Cardinality(Attributes(d))  BY DEF PoolsExact
<1>6. Len(d.attrs[n]) \in Nat /\ Len(e.attrs[n]) \in Nat  BY <1>1
<1>7. e.allocs["attribute"] = Cardinality(Attributes(e))
  BY <1>2, <1>3, <1>4, <1>5, <1>6
<1>8. \A p : PoolNodes(e, p) = PoolNodes(d, p)  BY DEF PoolNodes
<1>9. QED  BY <1>7, <1>8 DEF PoolsExact

\* What a new document record needs to be Good besides its links.
LEMMA StockSame ==
  ASSUME NEW d, NEW e, PoolsExact(d), SameStock(d, e) PROVE PoolsExact(e)
BY PoolsSame DEF SameStock

\* CreateUnlinkedNode.
Created(d, e, n, k) ==
    /\ n \in Nodes /\ d.kind[n] = "free"
    /\ e.kind = [d.kind EXCEPT ![n] = k] /\ SamePtrs(d, e)
    /\ e.attrs = d.attrs /\ e.unlinked = Append(d.unlinked, n)
    /\ e.allocs = [d.allocs EXCEPT ![Pool(k)] = @ + 1] /\ e.err = d.err /\ e.crash = d.crash

LEMMA CreateIs ==
  ASSUME NEW d, DomType(d), Free(d) # {}, NEW k \in Kinds, NEW x \in Names \cup {"none"}
  PROVE  DomType(Create(d, k, x)) /\ Created(d, Create(d, k, x), NextFree(d), k)
<1> DEFINE n == NextFree(d)
<1>1. n \in Nodes /\ d.kind[n] = "free"  BY DEF NextFree, Free, Live
<1>2. Pool(k) \in Pools \ {"attribute"}  BY DEF Pool, Pools
<1>3. Create(d, k, x) = [d EXCEPT !.kind[n] = k, !.name[n] = x, !.allocs[Pool(k)] = @ + 1,
                                  !.unlinked = Append(@, n)]
  BY DEF Create
<1> HIDE DEF n
<1>u. Append(d.unlinked, n) \in Seq(Nodes) /\ d.allocs[Pool(k)] + 1 \in Int
  BY <1>1, <1>2 DEF DomType
<1>4. DomType(Create(d, k, x))
  <2> DEFINE v == Append(d.unlinked, n)
             q == d.allocs[Pool(k)] + 1
  <2>1. v \in Seq(Nodes) /\ q \in Int  BY <1>u
  <2>2. Create(d, k, x) = [d EXCEPT !.kind = [d.kind EXCEPT ![n] = k], !.name = [d.name EXCEPT ![n] = x],
                                    !.allocs = [d.allocs EXCEPT ![Pool(k)] = q], !.unlinked = v]
    BY <1>3 DEF DomType
  <2> HIDE DEF v, q
  <2>3. /\ [d.kind EXCEPT ![n] = k] \in [Nodes -> Kinds \cup {"free"}]
        /\ [d.name EXCEPT ![n] = x] \in [Nodes -> Names \cup {"none"}]
        /\ [d.allocs EXCEPT ![Pool(k)] = q] \in [Pools -> Int]
    BY <1>1, <1>2, <2>1 DEF DomType
  <2>4. QED  BY <2>1, <2>2, <2>3 DEF DomType
<1>5. Created(d, Create(d, k, x), n, k)  BY <1>1, <1>3 DEF DomType, Created, SamePtrs
<1>6. QED  BY <1>4, <1>5 DEF n

LEMMA CreatedGood ==
  ASSUME NEW d, DomType(d), NEW R \in Seq(Nodes), Good(d, R),
         NEW e, DomType(e), NEW n, NEW k \in Kinds, Created(d, e, n, k)
  PROVE  /\ Good(e, R) /\ Live(e) = Live(d) \cup {n} /\ n \in Nodes \ Live(d)
         /\ ToSet(e.unlinked) = ToSet(d.unlinked) \cup {n}
         /\ e.par[n] = Nil /\ e.first[n] = Nil /\ e.attrs[n] = <<>>
<1>1. n \in Nodes /\ d.kind[n] = "free" /\ k # "free" /\ d.unlinked \in Seq(Nodes)
  BY DEF Created, Kinds, Leaves, DomType
<1>k. \A m \in Nodes : e.kind[m] = IF m = n THEN k ELSE d.kind[m]
  BY DEF Created, DomType
<1>2. Live(e) = Live(d) \cup {n} /\ n \notin Live(d)  BY <1>1, <1>k DEF Live
<1>3. d.par[n] = Nil /\ d.first[n] = Nil /\ d.attrs[n] = <<>>
  BY <1>1 DEF Good, Shape, FreeClean
<1>4. Shape(e)
  <2>1. SamePtrs(d, e) /\ e.attrs = d.attrs  BY DEF Created
  <2>2. Links(e)  BY <2>1 DEF Good, Shape, Links, SamePtrs
  <2>3. OneList(e)  BY <2>1 DEF Good, Shape, OneList, SamePtrs
  <2>4. Tree(e)  BY <2>1 DEF Good, Shape, Tree, SamePtrs
  <2>5. FreeClean(e)  BY <1>1, <1>k, <2>1 DEF Good, Shape, FreeClean, SamePtrs
  <2>6. ParLive(e)  BY <1>1, <1>k, <2>1 DEF Good, Shape, ParLive, SamePtrs
  <2>7. QED  BY <2>2, <2>3, <2>4, <2>5, <2>6 DEF Shape
<1>5. n \notin ToSet(d.unlinked) /\ n \notin ToSet(R)  BY <1>2 DEF Good, OneOwner
<1>6. ToSet(e.unlinked) = ToSet(d.unlinked) \cup {n} /\ Once(e.unlinked)
  BY <1>1, <1>5, AppendSet DEF Created, Good, OneOwner
<1>7. OneOwner(e, R)
  <2>1. e.par = d.par  BY DEF Created, SamePtrs
  <2>2. Once(R) /\ ToSet(e.unlinked) \cup ToSet(R) \subseteq Live(e)
        /\ ToSet(e.unlinked) \cap ToSet(R) = {}
    BY <1>2, <1>5, <1>6 DEF Good, OneOwner
  <2>3. ASSUME NEW m \in Live(e) PROVE e.par[m] = Nil <=> m \in ToSet(e.unlinked) \cup ToSet(R)
    <3>1. CASE m = n  BY <1>3, <1>6, <2>1, <3>1
    <3>2. CASE m # n
      <4>1. m \in Live(d)  BY <1>2, <3>2
      <4>2. QED  BY <1>6, <2>1, <3>2, <4>1 DEF Good, OneOwner
    <3>3. QED  BY <3>1, <3>2
  <2>4. QED  BY <1>6, <2>2, <2>3 DEF OneOwner
<1>8. PoolsExact(e)
  <2>1. Pool(k) \in Pools \ {"attribute"}  BY DEF Pool, Pools
  <2>2. d.allocs \in [Pools -> Int] /\ e.allocs = [d.allocs EXCEPT ![Pool(k)] = @ + 1]
    BY DEF DomType, Created
  <2>3. ASSUME NEW p \in Pools \ {"attribute"} PROVE e.allocs[p] = Cardinality(PoolNodes(e, p))
    <3>1. d.allocs[p] = Cardinality(PoolNodes(d, p)) /\ IsFiniteSet(PoolNodes(d, p))
      BY PoolFinite DEF Good, PoolsExact
    <3>2. CASE p = Pool(k)
      <4>1. PoolNodes(e, p) = PoolNodes(d, p) \cup {n} /\ n \notin PoolNodes(d, p)
        BY <1>1, <1>k, <3>2 DEF PoolNodes
      <4>2. Cardinality(PoolNodes(d, p) \cup {n}) = Cardinality(PoolNodes(d, p)) + 1
        BY <3>1, <4>1, FS_AddElement
      <4>3. QED  BY <2>1, <2>2, <3>1, <3>2, <4>1, <4>2
    <3>3. CASE p # Pool(k)
      <4>1. PoolNodes(e, p) = PoolNodes(d, p)  BY <1>1, <1>k, <3>3 DEF PoolNodes
      <4>2. QED  BY <2>1, <2>2, <3>1, <3>3, <4>1
    <3>4. QED  BY <3>2, <3>3
  <2>4. "attribute" \in Pools /\ e.allocs["attribute"] = d.allocs["attribute"]
    BY <2>1, <2>2 DEF Pools
  <2>5. Attributes(e) = Attributes(d)  BY DEF Created, Attributes
  <2>6. QED  BY <2>3, <2>4, <2>5 DEF Good, PoolsExact
<1>9. e.par[n] = Nil /\ e.first[n] = Nil /\ e.attrs[n] = <<>>  BY <1>3 DEF Created, SamePtrs
<1>10. QED  BY <1>1, <1>2, <1>4, <1>6, <1>7, <1>8, <1>9 DEF Good

\* The attributes of one node and their pool.
WithAttrs(d, e, n) ==
    /\ SamePtrs(d, e) /\ e.kind = d.kind /\ e.unlinked = d.unlinked
    /\ e.err = d.err /\ e.crash = d.crash
    /\ \A m \in Nodes \ {n} : e.attrs[m] = d.attrs[m]
    /\ \A p \in Pools \ {"attribute"} : e.allocs[p] = d.allocs[p]
    /\ e.allocs["attribute"] = d.allocs["attribute"] - Len(d.attrs[n]) + Len(e.attrs[n])

LEMMA AttrsGood ==
  ASSUME NEW d, DomType(d), NEW R, Good(d, R), NEW e, DomType(e), NEW n \in Live(d),
         WithAttrs(d, e, n)
  PROVE  Good(e, R) /\ Live(e) = Live(d)
<1>1. n \in Nodes /\ d.kind[n] # "free"  BY DEF Live
<1>2. PoolsExact(e)  BY <1>1, AttrsChange DEF WithAttrs, Good
<1>3. Live(e) = Live(d)  BY LiveSame DEF WithAttrs
<1>4. OneOwner(e, R)  BY <1>3 DEF Good, OneOwner, WithAttrs, SamePtrs
<1>5. Shape(e)
  <2> USE DEF Good, Shape, WithAttrs, SamePtrs
  <2>1. Links(e)  BY DEF Links
  <2>2. OneList(e)  BY DEF OneList
  <2>3. Tree(e)  BY DEF Tree
  <2>4. FreeClean(e)  BY <1>1 DEF FreeClean
  <2>5. ParLive(e)  BY DEF ParLive
  <2>6. QED  BY <2>1, <2>2, <2>3, <2>4, <2>5
<1>6. QED  BY <1>2, <1>3, <1>4, <1>5 DEF Good

\* All methods that change attributes have this form.
SetAttrs(d, n, al, k) == [d EXCEPT !.attrs[n] = al, !.allocs["attribute"] = k]

LEMMA SetAttrsIs ==
  ASSUME NEW d, DomType(d), NEW n \in Nodes, NEW al \in Seq(Names), NEW k \in Int,
         k = d.allocs["attribute"] - Len(d.attrs[n]) + Len(al)
  PROVE  LET e == SetAttrs(d, n, al, k) IN
         DomType(e) /\ WithAttrs(d, e, n) /\ e.attrs[n] = al
<1> DEFINE e == SetAttrs(d, n, al, k)
<1>1. "attribute" \in Pools  BY DEF Pools
<1>2. e = [d EXCEPT !.attrs = [d.attrs EXCEPT ![n] = al], !.allocs = [d.allocs EXCEPT !["attribute"] = k]]
  BY DEF DomType, SetAttrs
<1> HIDE DEF e
<1>3. DomType(e)  BY <1>1, <1>2 DEF DomType
<1>4. e.attrs = [d.attrs EXCEPT ![n] = al] /\ e.allocs = [d.allocs EXCEPT !["attribute"] = k]
  BY <1>2 DEF DomType
<1>5. SamePtrs(d, e) /\ e.kind = d.kind /\ e.unlinked = d.unlinked
      /\ e.err = d.err /\ e.crash = d.crash
  BY <1>2 DEF DomType, SamePtrs
<1>6. d.attrs \in [Nodes -> Seq(Names)] /\ d.allocs \in [Pools -> Int]  BY DEF DomType
<1>7. WithAttrs(d, e, n) /\ e.attrs[n] = al  BY <1>1, <1>4, <1>5, <1>6 DEF WithAttrs
<1>8. QED  BY <1>3, <1>7 DEF e

LEMMA AttrTypes ==
  ASSUME NEW d, DomType(d), NEW n \in Nodes
  PROVE  d.attrs[n] \in Seq(Names) /\ Len(d.attrs[n]) \in Nat /\ d.allocs["attribute"] \in Int
BY DEF DomType, Pools

LEMMA FindOrCreateIs ==
  ASSUME NEW d, DomType(d), NEW n \in Nodes, NEW x \in Names
  PROVE  LET e == FindOrCreateAttribute(d, n, x) IN
         e = d \/ (DomType(e) /\ WithAttrs(d, e, n))
<1>1. d.attrs[n] \in Seq(Names) /\ Len(d.attrs[n]) \in Nat /\ d.allocs["attribute"] \in Int
  BY AttrTypes
<1> DEFINE al == Append(d.attrs[n], x)
           k == d.allocs["attribute"] + 1
<1>2. al \in Seq(Names) /\ k \in Int /\ k = d.allocs["attribute"] - Len(d.attrs[n]) + Len(al)
  BY <1>1
<1>3. CreateAttribute(d, n, x) = SetAttrs(d, n, al, k)
  BY DEF CreateAttribute, DomType, SetAttrs
<1> HIDE DEF al, k
<1>4. DomType(SetAttrs(d, n, al, k)) /\ WithAttrs(d, SetAttrs(d, n, al, k), n)  BY <1>2, SetAttrsIs
<1>5. QED  BY <1>3, <1>4 DEF FindOrCreateAttribute

LEMMA DeleteAttributeIs ==
  ASSUME NEW d, DomType(d), NEW n \in Nodes, NEW x \in Names
  PROVE  LET e == DeleteAttribute(d, n, x) IN
         e = d \/ (DomType(e) /\ WithAttrs(d, e, n))
<1>1. d.attrs[n] \in Seq(Names) /\ Len(d.attrs[n]) \in Nat /\ d.allocs["attribute"] \in Int
  BY AttrTypes
<1> DEFINE s == d.attrs[n]
           i == CHOOSE j \in 1 .. Len(s) : s[j] = x
           al == RemoveAt(s, i)
           k == d.allocs["attribute"] - 1
<1>2. CASE ~ HasAttribute(d, n, x)  BY <1>2 DEF DeleteAttribute
<1>3. CASE HasAttribute(d, n, x)
  <2>1. i \in 1 .. Len(s)  BY <1>3 DEF HasAttribute, Contains
  <2>2. DeleteAttribute(d, n, x) = SetAttrs(d, n, al, k)
    BY <1>3 DEF DeleteAttribute, DomType, SetAttrs
  <2>s. s \in Seq(Names)  BY <1>1
  <2> HIDE DEF i, s
  <2>a. SubSeq(s, 1, i - 1) \in Seq(Names) /\ Len(SubSeq(s, 1, i - 1)) = i - 1
    BY <2>s, <2>1
  <2>b. SubSeq(s, i + 1, Len(s)) \in Seq(Names) /\ Len(SubSeq(s, i + 1, Len(s))) = Len(s) - i
    BY <2>s, <2>1
  <2> DEFINE t1 == SubSeq(s, 1, i - 1)
             t2 == SubSeq(s, i + 1, Len(s))
  <2>c. al = t1 \o t2  BY DEF RemoveAt
  <2>d. t1 \in Seq(Names) /\ Len(t1) = i - 1 /\ t2 \in Seq(Names) /\ Len(t2) = Len(s) - i
    BY <2>a, <2>b
  <2> HIDE DEF t1, t2
  <2>e. t1 \o t2 \in Seq(Names) /\ Len(t1 \o t2) = Len(t1) + Len(t2)  BY <2>d
  <2>f. i \in Int /\ Len(s) \in Int  BY <2>1, <2>s
  <2>3. al \in Seq(Names) /\ Len(al) = Len(s) - 1  BY <2>c, <2>d, <2>e, <2>f
  <2>4. k \in Int /\ k = d.allocs["attribute"] - Len(d.attrs[n]) + Len(al)  BY <1>1, <2>3 DEF s
  <2> HIDE DEF al, k
  <2>5. DomType(SetAttrs(d, n, al, k)) /\ WithAttrs(d, SetAttrs(d, n, al, k), n)
    BY <2>3, <2>4, SetAttrsIs
  <2>6. QED  BY <2>2, <2>5
<1>4. QED  BY <1>2, <1>3



LEMMA LenNat == ASSUME NEW S, NEW s \in Seq(S) PROVE Len(s) \in Nat
OBVIOUS

LEMMA WithAttributesIs ==
  ASSUME NEW d, DomType(d), NEW n \in Nodes, d.attrs[n] = <<>>, NEW al \in Seq(Names)
  PROVE  LET e == WithAttributes(d, n, al) IN
         DomType(e) /\ WithAttrs(d, e, n)
<1> DEFINE k == d.allocs["attribute"] + Len(al)
<1>a. d.allocs["attribute"] \in Int  BY AttrTypes
<1>b. Len(al) \in Nat  BY LenNat
<1>c. Len(d.attrs[n]) = 0  OBVIOUS
<1>1. k \in Int /\ k = d.allocs["attribute"] - Len(d.attrs[n]) + Len(al)  BY <1>a, <1>b, <1>c
<1>2. WithAttributes(d, n, al) = SetAttrs(d, n, al, k)
  BY DEF WithAttributes, DomType, SetAttrs
<1> HIDE DEF k
<1>3. DomType(SetAttrs(d, n, al, k)) /\ WithAttrs(d, SetAttrs(d, n, al, k), n)
  BY <1>1, SetAttrsIs
<1>4. QED  BY <1>2, <1>3

\* The node on top of the destructors goes back to its pool.
LEMMA DestroyIs ==
  ASSUME NEW d, DomType(d), NEW n \in Live(d)
  PROVE  LET e == Destroy(d, n) IN
         /\ DomType(e) /\ SamePtrs(d, e) /\ e.unlinked = d.unlinked
         /\ e.err = d.err /\ e.crash = d.crash
         /\ e.kind = [d.kind EXCEPT ![n] = "free"] /\ e.attrs = [d.attrs EXCEPT ![n] = <<>>]
         /\ \A p \in Pools : e.allocs[p] = d.allocs[p] - (IF p = Pool(d.kind[n]) THEN 1 ELSE 0)
                                             - (IF p = "attribute" THEN Len(d.attrs[n]) ELSE 0)
<1> DEFINE e == Destroy(d, n)
           k == [d.kind EXCEPT ![n] = "free"]
           m == [d.name EXCEPT ![n] = "none"]
           t == [d.attrs EXCEPT ![n] = <<>>]
           q == [p \in Pools |-> d.allocs[p] - (IF p = Pool(d.kind[n]) THEN 1 ELSE 0)
                                             - (IF p = "attribute" THEN Len(d.attrs[n]) ELSE 0)]
<1>1. n \in Nodes  BY DEF Live
<1>2. e = [d EXCEPT !.kind = k, !.name = m, !.attrs = t, !.allocs = q]  BY DEF Destroy, DomType
<1>3. Len(d.attrs[n]) \in Nat /\ \A p \in Pools : d.allocs[p] \in Int  BY <1>1, LenNat DEF DomType
<1>4. q \in [Pools -> Int]  BY <1>3
<1>5. /\ k \in [Nodes -> Kinds \cup {"free"}] /\ m \in [Nodes -> Names \cup {"none"}]
      /\ t \in [Nodes -> Seq(Names)]
  BY <1>1 DEF DomType
<1> HIDE DEF k, m, t, q, e
<1>6. DomType(e)  BY <1>2, <1>4, <1>5 DEF DomType
<1>7. /\ SamePtrs(d, e) /\ e.unlinked = d.unlinked /\ e.err = d.err /\ e.crash = d.crash
      /\ e.kind = k /\ e.attrs = t /\ e.allocs = q
  BY <1>2 DEF DomType, SamePtrs
<1>8. QED  BY <1>6, <1>7 DEF e, k, t, q

\* A node with neither parent nor children, whose destructor is the innermost.
LEMMA DestroyGood ==
  ASSUME NEW d, DomType(d), NEW R \in Seq(Nodes), Once(R), NEW n \in Nodes, n \notin ToSet(R),
         Good(d, Append(R, n)), d.first[n] = Nil
  PROVE  Good(Destroy(d, n), R) /\ Live(Destroy(d, n)) = Live(d) \ {n}
<1> DEFINE e == Destroy(d, n)
<1>n. ToSet(Append(R, n)) = ToSet(R) \cup {n}  BY AppendSet
<1>1. n \in Live(d) /\ d.par[n] = Nil /\ n \notin ToSet(d.unlinked)  BY <1>n DEF Good, OneOwner
<1>2. /\ DomType(e) /\ SamePtrs(d, e) /\ e.unlinked = d.unlinked
      /\ e.kind = [d.kind EXCEPT ![n] = "free"] /\ e.attrs = [d.attrs EXCEPT ![n] = <<>>]
      /\ \A p \in Pools : e.allocs[p] = d.allocs[p] - (IF p = Pool(d.kind[n]) THEN 1 ELSE 0)
                                             - (IF p = "attribute" THEN Len(d.attrs[n]) ELSE 0)
  BY <1>1, DestroyIs
<1> HIDE DEF e
<1>k. /\ \A m \in Nodes : e.kind[m] = IF m = n THEN "free" ELSE d.kind[m]
      /\ \A m \in Nodes : e.attrs[m] = IF m = n THEN <<>> ELSE d.attrs[m]
      /\ d.kind[n] \in Kinds
  BY <1>1, <1>2 DEF DomType, Live
<1>3. Live(e) = Live(d) \ {n}  BY <1>k DEF Live
<1>4. OneOwner(e, R)
  <2>1. e.par = d.par  BY <1>2 DEF SamePtrs
  <2>2. Once(e.unlinked) /\ ToSet(e.unlinked) \cup ToSet(R) \subseteq Live(e)
        /\ ToSet(e.unlinked) \cap ToSet(R) = {}
    BY <1>1, <1>2, <1>3, <1>n DEF Good, OneOwner
  <2>3. ASSUME NEW m \in Live(e) PROVE e.par[m] = Nil <=> m \in ToSet(e.unlinked) \cup ToSet(R)
    <3>1. m \in Live(d) /\ m # n  BY <1>3
    <3>2. QED  BY <1>2, <1>n, <2>1, <3>1 DEF Good, OneOwner
  <2>4. QED  BY <2>2, <2>3 DEF OneOwner
<1>5. Shape(e)
  <2>1. SamePtrs(d, e)  BY <1>2
  <2>2. Links(e)  BY <2>1 DEF Good, Shape, Links, SamePtrs
  <2>3. OneList(e)  BY <2>1 DEF Good, Shape, OneList, SamePtrs
  <2>4. Tree(e)  BY <2>1 DEF Good, Shape, Tree, SamePtrs
  <2>5. FreeClean(e)  BY <1>1, <1>k, <2>1 DEF Good, Shape, FreeClean, SamePtrs
  <2>6. ParLive(e)
    <3>1. \A m \in Nodes : d.par[m] # n
      <4>1. PtrType(d) /\ Links(d) /\ OneList(d)  BY DomPtr DEF Good, Shape
      <4>2. QED  BY <4>1, HasFirst
    <3>2. QED  BY <1>k, <2>1, <3>1 DEF Good, Shape, ParLive, SamePtrs
  <2>7. QED  BY <2>2, <2>3, <2>4, <2>5, <2>6 DEF Shape
<1>6. PoolsExact(e)
  <2>1. Pool(d.kind[n]) \in Pools \ {"attribute"} /\ d.kind[n] # "free"
    BY <1>k DEF Pool, Pools, Kinds, Leaves
  <2>2. ASSUME NEW p \in Pools \ {"attribute"} PROVE e.allocs[p] = Cardinality(PoolNodes(e, p))
    <3>1. d.allocs[p] = Cardinality(PoolNodes(d, p)) /\ IsFiniteSet(PoolNodes(d, p))
      BY PoolFinite DEF Good, PoolsExact
    <3>a. d.allocs[p] \in Int /\ e.allocs[p] = d.allocs[p] - (IF p = Pool(d.kind[n]) THEN 1 ELSE 0)
      BY <1>2 DEF DomType
    <3>2. CASE p = Pool(d.kind[n])
      <4>1. PoolNodes(e, p) = PoolNodes(d, p) \ {n} /\ n \in PoolNodes(d, p)
        BY <1>k, <2>1, <3>2 DEF PoolNodes
      <4>2. Cardinality(PoolNodes(d, p) \ {n}) = Cardinality(PoolNodes(d, p)) - 1
        BY <3>1, <4>1, FS_RemoveElement
      <4>3. QED  BY <3>1, <3>2, <3>a, <4>1, <4>2
    <3>3. CASE p # Pool(d.kind[n])
      <4>1. PoolNodes(e, p) = PoolNodes(d, p)  BY <1>k, <3>3 DEF PoolNodes
      <4>2. QED  BY <3>1, <3>3, <3>a, <4>1
    <3>4. QED  BY <3>2, <3>3
  <2>3. e.allocs["attribute"] = d.allocs["attribute"] - Len(d.attrs[n])
    <3>1. "attribute" \in Pools /\ "attribute" # Pool(d.kind[n]) /\ d.allocs["attribute"] \in Int
      BY <2>1 DEF Pools, DomType
    <3>2. Len(d.attrs[n]) \in Nat  BY LenNat DEF DomType
    <3>3. e.allocs["attribute"] = d.allocs["attribute"] - 0 - Len(d.attrs[n])  BY <1>2, <3>1
    <3>4. QED  BY <3>1, <3>2, <3>3
  <2>4. d.attrs \in [Nodes -> Seq(Names)] /\ e.attrs \in [Nodes -> Seq(Names)]
    BY <1>2 DEF DomType
  <2>5. AttrsBut(e, n) = AttrsBut(d, n)
    <3>1. \A m \in Nodes \ {n} : AttrsOf(e, m) = AttrsOf(d, m)  BY <1>k DEF AttrsOf
    <3>2. QED  BY <3>1 DEF AttrsBut
  <2>6. /\ Cardinality(AttrsBut(d, n)) \in Nat
        /\ Cardinality(Attributes(d)) = Cardinality(AttrsBut(d, n)) + Len(d.attrs[n])
    BY <2>4, AttrsCount
  <2>7. Cardinality(Attributes(e)) = Cardinality(AttrsBut(e, n)) + Len(e.attrs[n])
    BY <2>4, AttrsCount
  <2>8. Len(e.attrs[n]) = 0 /\ Len(d.attrs[n]) \in Nat  BY <1>k, <2>4, LenNat
  <2>9. d.allocs["attribute"] = Cardinality(Attributes(d))  BY DEF Good, PoolsExact
  <2>10. e.allocs["attribute"] = Cardinality(Attributes(e))
    BY <2>3, <2>5, <2>6, <2>7, <2>8, <2>9
  <2>11. QED  BY <2>2, <2>10 DEF PoolsExact
<1>7. QED  BY <1>3, <1>4, <1>5, <1>6 DEF Good, e

-----------------------------------------------------------------------------
(***************************************************************************)
(* The methods on a good document.                                         *)
(***************************************************************************)
\* A node is handed to its destructor.
LEMMA DeleteNodeGood ==
  ASSUME NEW d, DomType(d), NEW R \in Seq(Nodes), Good(d, R), NEW n \in Live(d), n \notin ToSet(R)
  PROVE  LET e == DeleteNode(d, n) IN
         /\ DomType(e) /\ Good(e, Append(R, n)) /\ Live(e) = Live(d)
         /\ e.err = d.err /\ e.crash = d.crash
         /\ \A m \in Nodes : e.par[m] = IF m = n THEN Nil ELSE d.par[m]
         /\ ToSet(e.unlinked) = ToSet(d.unlinked) \ {n}
<1> DEFINE e == DeleteNode(d, n)
<1>1. Shape(d) /\ OneOwner(d, R) /\ PoolsExact(d)  BY DEF Good
<1>2. /\ DomType(e) /\ Shape(e) /\ SameStock(d, e) /\ OneOwner(e, Append(R, n))
      /\ \A m \in Nodes : e.par[m] = IF m = n THEN Nil ELSE d.par[m]
      /\ ToSet(e.unlinked) = ToSet(d.unlinked) \ {n}
  BY <1>1, Take
<1> HIDE DEF e
<1>3. PoolsExact(e) /\ Live(e) = Live(d)  BY <1>1, <1>2, StockSame, LiveSame DEF SameStock
<1>4. QED  BY <1>2, <1>3 DEF e, Good, SameStock

LEMMA MoveGood ==
  ASSUME NEW d, NEW R, NEW f, NEW p, NEW n, Good(d, R), Moved(d, R, f, p, n)
  PROVE  /\ DomType(f) /\ Good(f, R) /\ Live(f) = Live(d) /\ f.err = d.err /\ f.crash = d.crash
         /\ ToSet(f.unlinked) = ToSet(d.unlinked) \ {n}
         /\ \A m \in Nodes : f.par[m] = IF m = n THEN p ELSE d.par[m]
<1>1. DomType(f) /\ Shape(f) /\ OneOwner(f, R) /\ SameStock(d, f)  BY DEF Moved
<1>2. PoolsExact(d)  BY DEF Good
<1>3. PoolsExact(f) /\ Live(f) = Live(d)  BY <1>1, <1>2, StockSame, LiveSame DEF SameStock
<1>4. QED  BY <1>1, <1>3 DEF Good, SameStock, Moved

\* A node that was created and is not wanted.
LEMMA DeleteLeafGood ==
  ASSUME NEW d, DomType(d), NEW R \in Seq(Nodes), Good(d, R), NEW n \in Live(d), n \notin ToSet(R),
         d.par[n] = Nil, d.first[n] = Nil
  PROVE  LET e == DeleteLeaf(d, n) IN
         /\ DomType(e) /\ Good(e, R) /\ Live(e) = Live(d) \ {n}
         /\ e.err = d.err /\ e.crash = d.crash /\ e.par = d.par
         /\ ToSet(e.unlinked) = ToSet(d.unlinked) \ {n}
<1> DEFINE c == MarkInUse(d, n)
           e == DeleteLeaf(d, n)
<1>1. n \in Nodes /\ Once(R)  BY DEF Live, Good, OneOwner
<1>2. c = DeleteNode(d, n) /\ e = Destroy(c, n)  BY DEF DeleteNode, DeleteLeaf
<1>3. /\ DomType(c) /\ Good(c, Append(R, n)) /\ Live(c) = Live(d) /\ c.err = d.err /\ c.crash = d.crash
      /\ ToSet(c.unlinked) = ToSet(d.unlinked) \ {n}
  BY <1>2, DeleteNodeGood
<1>4. SamePtrs(d, c)  BY <1>1, MarkInUseType
<1> HIDE DEF c, e
<1>5. c.first[n] = Nil /\ n \in Live(c)  BY <1>3, <1>4 DEF SamePtrs
<1>6. Good(e, R) /\ Live(e) = Live(c) \ {n}  BY <1>1, <1>2, <1>3, <1>5, DestroyGood
<1>7. DomType(e) /\ SamePtrs(c, e) /\ e.unlinked = c.unlinked /\ e.err = c.err /\ e.crash = c.crash
  BY <1>2, <1>3, <1>5, DestroyIs
<1>8. QED  BY <1>3, <1>4, <1>6, <1>7 DEF e, SamePtrs

LEMMA SetErrorGood ==
  ASSUME NEW d, DomType(d), NEW err \in Errors
  PROVE  LET e == SetError(d, err) IN
         /\ DomType(e) /\ SamePtrs(d, e) /\ e.kind = d.kind /\ e.attrs = d.attrs
         /\ e.unlinked = d.unlinked /\ e.crash = d.crash /\ e.err = err /\ Live(e) = Live(d)
         /\ \A R : Good(d, R) => Good(e, R)
<1> DEFINE e == SetError(d, err)
<1>1. /\ DomType(e) /\ SamePtrs(d, e) /\ e.kind = d.kind /\ e.attrs = d.attrs
      /\ e.unlinked = d.unlinked /\ e.crash = d.crash /\ e.err = err /\ e.allocs = d.allocs
  BY DEF DomType, SamePtrs, SetError
<1> HIDE DEF e
<1>2. Live(e) = Live(d)  BY <1>1, LiveSame
<1>3. ASSUME NEW R, Good(d, R) PROVE Good(e, R)
  <2>1. Shape(d) /\ OneOwner(d, R) /\ PoolsExact(d)  BY <1>3 DEF Good
  <2>2. Shape(e)  BY <1>1, <2>1, ShapeSame
  <2>3. PoolsExact(e)  BY <1>1, <2>1, PoolsSame
  <2>4. OneOwner(e, R)  BY <1>1, <1>2, <2>1 DEF OneOwner, SamePtrs
  <2>5. QED  BY <2>2, <2>3, <2>4 DEF Good
<1>4. QED  BY <1>1, <1>2, <1>3 DEF e

\* A node with no parent is not below another one, and nothing is below a new node.
LEMMA NotBelowAlone ==
  ASSUME NEW d, NEW p \in Nodes \cup {Doc}, NEW n \in Nodes, p # n, p # Doc => d.par[p] = Nil
  PROVE  ~ Below(d, p, n)
<1> DEFINE U == {p}
<1>1. U \in SUBSET (Nodes \cup {Doc}) /\ p \in U /\ n \notin U  OBVIOUS
<1>2. \A k \in U \ {Doc} : d.par[k] # Nil => d.par[k] \in U  OBVIOUS
<1>3. QED  BY <1>1, <1>2 DEF Below

LEMMA NotBelowLeaf ==
  ASSUME NEW d, DomType(d), Shape(d), NEW p \in Nodes \cup {Doc}, NEW n \in Nodes, p # n,
         d.first[n] = Nil
  PROVE  ~ Below(d, p, n)
<1> DEFINE U == (Nodes \cup {Doc}) \ {n}
<1>1. U \in SUBSET (Nodes \cup {Doc}) /\ p \in U /\ n \notin U  OBVIOUS
<1>2. \A k \in Nodes : d.par[k] # n
  <2>1. PtrType(d) /\ Links(d) /\ OneList(d)  BY DomPtr DEF Shape
  <2>2. QED  BY <2>1, HasFirst
<1>3. \A k \in U \ {Doc} : d.par[k] # Nil => d.par[k] \in U  BY <1>2 DEF DomType, Ptr
<1>4. QED  BY <1>1, <1>3 DEF Below

LEMMA CreateGood ==
  ASSUME NEW d, DomType(d), NEW R \in Seq(Nodes), Good(d, R), Free(d) # {},
         NEW k \in Kinds, NEW x \in Names \cup {"none"}
  PROVE  LET e == Create(d, k, x)
             n == NextFree(d) IN
         /\ DomType(e) /\ Good(e, R) /\ Live(e) = Live(d) \cup {n}
         /\ n \in Nodes \ Live(d) /\ n \in Live(e) /\ n \notin ToSet(R)
         /\ e.err = d.err /\ e.crash = d.crash /\ e.par = d.par
         /\ ToSet(e.unlinked) = ToSet(d.unlinked) \cup {n}
         /\ e.par[n] = Nil /\ e.first[n] = Nil /\ e.attrs[n] = <<>>
<1> DEFINE e == Create(d, k, x)
           n == NextFree(d)
<1>1. DomType(e) /\ Created(d, e, n, k)  BY CreateIs
<1> HIDE DEF e, n
<1>2. /\ Good(e, R) /\ Live(e) = Live(d) \cup {n} /\ n \in Nodes \ Live(d)
      /\ ToSet(e.unlinked) = ToSet(d.unlinked) \cup {n}
      /\ e.par[n] = Nil /\ e.first[n] = Nil /\ e.attrs[n] = <<>>
  BY <1>1, CreatedGood
<1>3. n \notin ToSet(R)  BY <1>2 DEF Good, OneOwner
<1>4. e.err = d.err /\ e.crash = d.crash /\ e.par = d.par  BY <1>1 DEF Created, SamePtrs
<1>5. QED  BY <1>1, <1>2, <1>3, <1>4 DEF e, n

LEMMA WithAttributesGood ==
  ASSUME NEW d, DomType(d), NEW R, Good(d, R), NEW n \in Live(d), d.attrs[n] = <<>>,
         NEW al \in Seq(Names)
  PROVE  LET e == WithAttributes(d, n, al) IN
         /\ DomType(e) /\ Good(e, R) /\ Live(e) = Live(d)
         /\ e.err = d.err /\ e.crash = d.crash /\ SamePtrs(d, e) /\ e.unlinked = d.unlinked
<1> DEFINE e == WithAttributes(d, n, al)
<1>1. n \in Nodes  BY DEF Live
<1>2. DomType(e) /\ WithAttrs(d, e, n)  BY <1>1, WithAttributesIs
<1> HIDE DEF e
<1>3. Good(e, R) /\ Live(e) = Live(d)  BY <1>2, AttrsGood
<1>4. QED  BY <1>2, <1>3 DEF e, WithAttrs

LEMMA ShallowCloneGood ==
  ASSUME NEW d, DomType(d), NEW R \in Seq(Nodes), Good(d, R), Free(d) # {}, NEW c \in Live(d)
  PROVE  LET e == ShallowClone(d, c)
             n == NextFree(d) IN
         /\ DomType(e) /\ Good(e, R) /\ Live(e) = Live(d) \cup {n}
         /\ n \in Nodes \ Live(d) /\ n \in Live(e)
         /\ e.err = d.err /\ e.crash = d.crash /\ e.par = d.par /\ e.par[n] = Nil
<1> DEFINE k == d.kind[c]
           x == d.name[c]
           b == Create(d, k, x)
           n == NextFree(d)
           e == ShallowClone(d, c)
<1>1. k \in Kinds /\ x \in Names \cup {"none"} /\ d.attrs[c] \in Seq(Names)  BY DEF DomType, Live
<1>2. e = WithAttributes(b, n, d.attrs[c])  BY DEF ShallowClone, WithAttributes
<1> HIDE DEF k, x
<1>3. /\ DomType(b) /\ Good(b, R) /\ Live(b) = Live(d) \cup {n}
      /\ n \in Nodes \ Live(d) /\ n \in Live(b) /\ b.err = d.err /\ b.crash = d.crash /\ b.par = d.par
      /\ b.par[n] = Nil /\ b.attrs[n] = <<>>
  BY <1>1, CreateGood
<1> HIDE DEF b, n, e
<1>4. /\ DomType(e) /\ Good(e, R) /\ Live(e) = Live(b) /\ e.err = b.err /\ e.crash = b.crash
      /\ SamePtrs(b, e)
  BY <1>1, <1>2, <1>3, WithAttributesGood
<1>5. QED  BY <1>3, <1>4 DEF e, n, SamePtrs

\* A new node is inserted at the end of the children of p.
LEMMA InsertNewGood ==
  ASSUME NEW d, DomType(d), NEW R \in Seq(Nodes), Good(d, R), NEW n \in Live(d), n \notin ToSet(R),
         NEW p \in Live(d) \cup {Doc}, p # n, d.first[n] = Nil
  PROVE  /\ Moved(d, R, InsertEndChild(d, p, n), p, n)
         /\ Moved(d, R, InsertFirstChild(d, p, n), p, n)
<1>1. n \in Nodes /\ p \in Nodes \cup {Doc} /\ Shape(d) /\ OneOwner(d, R)  BY DEF Live, Good
<1>2. ~ Below(d, p, n)  BY <1>1, NotBelowLeaf
<1>3. Ready(d, R, p, n)  BY <1>1, <1>2 DEF Ready
<1>4. QED  BY <1>3, InsertEndMoves, InsertFirstMoves

\* An open element, or a clone, is inserted below one that has no parent.
LEMMA InsertAloneGood ==
  ASSUME NEW d, DomType(d), NEW R \in Seq(Nodes), Good(d, R), NEW n \in Live(d), n \notin ToSet(R),
         NEW p \in Live(d) \cup {Doc}, p # n, p # Doc => d.par[p] = Nil
  PROVE  Moved(d, R, InsertEndChild(d, p, n), p, n)
<1>1. n \in Nodes /\ p \in Nodes \cup {Doc} /\ Shape(d) /\ OneOwner(d, R)  BY DEF Live, Good
<1>2. ~ Below(d, p, n)  BY <1>1, NotBelowAlone
<1>3. Ready(d, R, p, n)  BY <1>1, <1>2 DEF Ready
<1>4. QED  BY <1>3, InsertEndMoves

-----------------------------------------------------------------------------
(***************************************************************************)
(* Between two calls, and between two tokens, no destructor is running.    *)
(***************************************************************************)
NoCall == del = <<>> /\ keep = Nil /\ clearing = FALSE /\ cl = <<>>

LEMMA Quiet == ASSUME CallInv PROVE ~ Busy <=> NoCall
<1>1. ASSUME del # <<>> PROVE Emptied # Nil
  <2>1. del \in Seq(Nodes) /\ del # <<>>  BY <1>1 DEF CallInv
  <2>2. Last(del) \in Nodes  BY <2>1 DEF Last
  <2>3. QED  BY <1>1, <2>2, NodeNumbers DEF Emptied
<1>2. ASSUME ~ Busy PROVE NoCall
  <2>1. Emptied = Nil /\ clearing = FALSE /\ cl = <<>>  BY <1>2 DEF Busy, Deleting, CallInv
  <2>2. del = <<>>  BY <1>1, <2>1
  <2>3. keep = Nil  BY <2>1, <2>2 DEF Emptied
  <2>4. QED  BY <2>1, <2>2, <2>3 DEF NoCall
<1>3. ASSUME NoCall PROVE ~ Busy  BY <1>3 DEF NoCall, Busy, Deleting, Emptied
<1>4. QED  BY <1>2, <1>3

LEMMA Empty == Once(<<>>) /\ ToSet(<<>>) = {} /\ <<>> \in Seq(Nodes) /\ Len(<<>>) = 0
<1>1. Len(<<>>) = 0 /\ <<>> \in Seq(Nodes)  OBVIOUS
<1>2. ToSet(<<>>) = {<<>>[i] : i \in 1 .. Len(<<>>)}  BY <1>1, ToSetIn
<1>3. QED  BY <1>1, <1>2 DEF Once

LEMMA QuietCalls == ASSUME NoCall PROVE CallInv
<1>1. ~ Deleting  BY DEF NoCall, Deleting, Emptied
<1>2. Len(cl) = 0 /\ cl \in Seq(Frames)  BY DEF NoCall
<1>3. FramesOK(dom, cl)  BY <1>2 DEF FramesOK
<1>4. del \in Seq(Nodes)  BY Empty DEF NoCall
<1>5. keep \in Ptr \cup {Doc} /\ clearing \in BOOLEAN  BY DEF NoCall, Ptr
<1>6. QED  BY <1>1, <1>2, <1>3, <1>4, <1>5 DEF CallInv

\* Nothing is in use: the pools that are exact are empty.
LEMMA NothingLive ==
  ASSUME NEW d, \A n \in Nodes : d.kind[n] = "free" /\ d.attrs[n] = <<>>,
         \A p \in Pools : d.allocs[p] = 0
  PROVE  PoolsExact(d)
<1>1. \A p : PoolNodes(d, p) = {}  BY DEF PoolNodes
<1>2. Attributes(d) = {}
  <2>1. \A n \in Nodes : {n} \X (1 .. Len(d.attrs[n])) = {}  BY Empty
  <2>2. QED  BY <2>1 DEF Attributes
<1>3. Cardinality({}) = 0 /\ "attribute" \in Pools  BY FS_EmptySet DEF Pools
<1>4. QED  BY <1>1, <1>2, <1>3 DEF PoolsExact

\* No parse is under way either.
Resting ==
    /\ DomType(dom) /\ phase = "idle" /\ stk = <<>> /\ NoCall /\ FailureCleansUp
    /\ dom.crash \/ Good(dom, <<>>)

LEMMA RestingHolds == Resting => IInv
<1> SUFFICES ASSUME Resting PROVE IInv  OBVIOUS
<1> USE DEF Resting
<1>1. ~ Busy /\ Emptied = Nil  BY DEF NoCall, Busy, Deleting, Emptied
<1>2. Alone(dom, <<>>)  BY Empty DEF Alone
<1>3. ParserInv  BY <1>2, Empty DEF ParserInv, NoCall
<1>4. DropInv  BY DEF DropInv
<1>5. CallInv  BY QuietCalls
<1>6. CleanInv  BY <1>1 DEF CleanInv
<1>7. QED  BY <1>1, <1>3, <1>4, <1>5, <1>6 DEF IInv, NoCall

\* Between two tokens.
Reading ==
    /\ DomType(dom) /\ phase \in {"parse", "fail"} /\ stk \in Seq(Nodes) /\ NoCall
    /\ Alone(dom, stk) /\ ToSet(dom.unlinked) = ToSet(stk)
    /\ phase = "parse" => dom.err = "none"
    /\ ~ dom.crash /\ Good(dom, <<>>)

LEMMA ReadingHolds == Reading => IInv
<1> SUFFICES ASSUME Reading PROVE IInv  OBVIOUS
<1> USE DEF Reading
<1>1. ~ Busy /\ Emptied = Nil  BY DEF NoCall, Busy, Deleting, Emptied
<1>2. ParserInv  BY DEF ParserInv, NoCall
<1>3. DropInv  BY DEF DropInv
<1>4. CallInv  BY QuietCalls
<1>5. CleanInv  BY <1>1 DEF CleanInv, FailureCleansUp, Finished
<1>6. QED  BY <1>1, <1>2, <1>3, <1>4, <1>5 DEF IInv, NoCall

LEMMA ReadingIs == ASSUME IInv, phase \in {"parse", "fail"}, ~ Busy PROVE Reading
<1>1. NoCall  BY Quiet DEF IInv
<1>2. ~ dom.crash /\ Good(dom, <<>>)  BY <1>1 DEF IInv, NoCall
<1>3. QED  BY <1>1, <1>2 DEF Reading, IInv, ParserInv, NoCall

LEMMA RestingIs == ASSUME IInv, phase = "idle", ~ Busy PROVE Resting
<1>1. NoCall  BY Quiet DEF IInv
<1>2. dom.crash \/ Good(dom, <<>>)  BY <1>1 DEF IInv, NoCall
<1>3. QED  BY <1>1, <1>2 DEF Resting, IInv, ParserInv, CleanInv, NoCall

LEMMA InitHolds == ASSUME Init PROVE IInv
<1> USE DEF Init
<1>1. DomType(New)
  BY DEF DomType, New, Kinds, Leaves, Ptr, Errors, Pools
<1>2. Good(New, <<>>)
  <2>1. /\ \A n \in Nodes : /\ New.kind[n] = "free" /\ New.par[n] = Nil /\ New.attrs[n] = <<>>
                            /\ New.prev[n] = Nil /\ New.next[n] = Nil
        /\ \A n \in Nodes \cup {Doc} : New.first[n] = Nil /\ New.last[n] = Nil
        /\ New.unlinked = <<>> /\ \A p \in Pools : New.allocs[p] = 0
    BY DEF New
  <2> DEFINE d == New
  <2> HIDE DEF d
  <2> SUFFICES Good(d, <<>>)  BY DEF d
  <2>2. /\ \A n \in Nodes : /\ d.kind[n] = "free" /\ d.par[n] = Nil /\ d.attrs[n] = <<>>
                            /\ d.prev[n] = Nil /\ d.next[n] = Nil
        /\ \A n \in Nodes \cup {Doc} : d.first[n] = Nil /\ d.last[n] = Nil
        /\ d.unlinked = <<>> /\ \A p \in Pools : d.allocs[p] = 0
    BY <2>1 DEF d
  <2>3. Shape(d)
    <3>1. Links(d)  BY <2>2 DEF Links
    <3>2. OneList(d)  BY <2>2, NodeNumbers DEF OneList
    <3>3. Tree(d)
      <4>1. \A S \in SUBSET Nodes : \A n \in S : d.par[n] \notin S  BY <2>2, NodeNumbers
      <4>2. QED  BY <4>1 DEF Tree
    <3>4. FreeClean(d) /\ ParLive(d)  BY <2>2, NodeNumbers DEF FreeClean, ParLive
    <3>5. QED  BY <3>1, <3>2, <3>3, <3>4 DEF Shape
  <2>4. Live(d) = {}  BY <2>2 DEF Live
  <2>5. OneOwner(d, <<>>)  BY <2>2, <2>4, Empty DEF OneOwner
  <2>6. QED  BY <2>2, <2>3, <2>5, NothingLive DEF Good
<1>3. Resting  BY <1>1, <1>2 DEF Resting, NoCall, FailureCleansUp, Finished
<1>4. QED  BY <1>3, RestingHolds

-----------------------------------------------------------------------------
(***************************************************************************)
(* The calls of a user that are over when they return.                     *)
(***************************************************************************)
LEMMA CallsFrom ==
  ASSUME IInv, MayEdit
  PROVE  /\ DomType(dom) /\ Good(dom, <<>>) /\ ~ dom.crash /\ NoCall /\ phase = "idle"
         /\ stk = <<>>
<1>1. phase = "idle" /\ ~ Busy /\ ~ dom.crash  BY DEF MayEdit
<1>2. Resting  BY <1>1, RestingIs
<1>3. QED  BY <1>1, <1>2 DEF Resting

LEMMA OpKeeps ==
  ASSUME IInv, NEW d, Op(d), DomType(d), d.crash \/ Good(d, <<>>)
  PROVE  IInv'
<1>1. NoCall /\ phase = "idle" /\ stk = <<>>  BY CallsFrom DEF Op, ACall
<1>2. dom' = d /\ toks' = <<>> /\ phase' = "idle" /\ stk' = <<>>  BY <1>1 DEF Op, ACall
<1>3. NoCall'  BY <1>1 DEF NoCall, Op, calls
<1>4. FailureCleansUp'  BY <1>2 DEF FailureCleansUp, Finished
<1>5. Resting'  BY <1>2, <1>3, <1>4 DEF Resting
<1>6. QED  BY <1>5, RestingHolds, PTL

LEMMA NewNodeKeeps ==
  ASSUME IInv, NEW k \in Kinds, NEW x \in Names \cup {"none"}, NewNode(k, x) PROVE IInv'
<1>1. Free(dom) # {} /\ Op(Create(dom, k, x)) /\ MayEdit  BY DEF NewNode, Op, ACall
<1>2. DomType(dom) /\ Good(dom, <<>>)  BY <1>1, CallsFrom
<1>3. DomType(Create(dom, k, x)) /\ Good(Create(dom, k, x), <<>>)
  BY <1>1, <1>2, Empty, CreateGood
<1>4. QED  BY <1>1, <1>3, OpKeeps

LEMMA InsertReady ==
  ASSUME IInv, NEW p \in Live(dom) \cup {Doc}, NEW n \in Live(dom), May(p, n)
  PROVE  Good(dom, <<>>) /\ Ready(dom, <<>>, p, n)
<1>1. MayEdit /\ ~ Below(dom, p, n)  BY DEF May
<1>2. DomType(dom) /\ Good(dom, <<>>)  BY <1>1, CallsFrom
<1>3. QED  BY <1>1, <1>2, Empty DEF Ready, Good

LEMMA InsertEndKeeps ==
  ASSUME IInv, NEW p \in Live(dom) \cup {Doc}, NEW n \in Live(dom), InsertEnd(p, n) PROVE IInv'
<1> DEFINE f == InsertEndChild(dom, p, n)
<1>1. May(p, n) /\ Op(f)  BY DEF InsertEnd
<1>2. Good(dom, <<>>) /\ Ready(dom, <<>>, p, n)  BY <1>1, InsertReady
<1>3. Moved(dom, <<>>, f, p, n)  BY <1>2, InsertEndMoves
<1> HIDE DEF f
<1>4. DomType(f) /\ Good(f, <<>>)  BY <1>2, <1>3, MoveGood
<1>5. QED  BY <1>1, <1>4, OpKeeps

LEMMA InsertFirstKeeps ==
  ASSUME IInv, NEW p \in Live(dom) \cup {Doc}, NEW n \in Live(dom), InsertFirst(p, n) PROVE IInv'
<1> DEFINE f == InsertFirstChild(dom, p, n)
<1>1. May(p, n) /\ Op(f)  BY DEF InsertFirst
<1>2. Good(dom, <<>>) /\ Ready(dom, <<>>, p, n)  BY <1>1, InsertReady
<1>3. Moved(dom, <<>>, f, p, n)  BY <1>2, InsertFirstMoves
<1> HIDE DEF f
<1>4. DomType(f) /\ Good(f, <<>>)  BY <1>2, <1>3, MoveGood
<1>5. QED  BY <1>1, <1>4, OpKeeps

\* The null pointer of InsertAfterChild ends the program: dom.crash.
LEMMA InsertAfterKeeps ==
  ASSUME IInv, NEW a \in Live(dom), NEW n \in Live(dom), InsertAfter(a, n) PROVE IInv'
<1> DEFINE p == dom.par[a]
           f == InsertAfterChild(dom, p, a, n)
<1>1. p # Nil /\ May(p, n) /\ Op(f)  BY DEF InsertAfter
<1>2. DomType(dom) /\ Good(dom, <<>>)  BY <1>1, CallsFrom DEF May
<1>3. a \in Nodes /\ p \in Live(dom) \cup {Doc}
  <2>1. a \in Nodes  BY DEF Live
  <2>2. p \in Nodes \cup {Doc}  BY <1>1, <1>2, <2>1 DEF DomType, Ptr
  <2>3. p \in Nodes => p \in Live(dom)  BY <1>2, <2>1 DEF Good, Shape, ParLive, Live
  <2>4. QED  BY <2>1, <2>2, <2>3
<1>4. Ready(dom, <<>>, p, n)  BY <1>1, <1>3, InsertReady
<1>5. \/ f = dom
      \/ Moved(dom, <<>>, f, p, n)
      \/ DomType(f) /\ f.crash /\ f.err = dom.err
  BY <1>3, <1>4, InsertAfterMoves
<1> HIDE DEF f, p
<1>6. DomType(f) /\ (f.crash \/ Good(f, <<>>))  BY <1>2, <1>5, MoveGood
<1>7. QED  BY <1>1, <1>6, OpKeeps

\* No destructor is running when a node is created.
LEMMA CreateNow ==
  ASSUME NEW d, DomType(d), Good(d, <<>>), Free(d) # {},
         NEW k \in Kinds, NEW x \in Names \cup {"none"}
  PROVE  LET e == Create(d, k, x)
             n == NextFree(d) IN
         /\ DomType(e) /\ Good(e, <<>>) /\ Live(e) = Live(d) \cup {n}
         /\ n \in Nodes \ Live(d) /\ n \in Live(e)
         /\ e.err = d.err /\ e.crash = d.crash /\ e.par = d.par
         /\ ToSet(e.unlinked) = ToSet(d.unlinked) \cup {n}
         /\ e.par[n] = Nil /\ e.first[n] = Nil /\ e.attrs[n] = <<>>
<1> DEFINE R == <<>>
<1>1. R \in Seq(Nodes) /\ Good(d, R)  OBVIOUS
<1>2. SUFFICES LET e == Create(d, k, x)
                   n == NextFree(d) IN
         /\ DomType(e) /\ Good(e, R) /\ Live(e) = Live(d) \cup {n}
         /\ n \in Nodes \ Live(d) /\ n \in Live(e)
         /\ e.err = d.err /\ e.crash = d.crash /\ e.par = d.par
         /\ ToSet(e.unlinked) = ToSet(d.unlinked) \cup {n}
         /\ e.par[n] = Nil /\ e.first[n] = Nil /\ e.attrs[n] = <<>>
  OBVIOUS
<1> HIDE DEF R
<1>3. QED  BY <1>1, CreateGood

LEMMA EditTextKeeps ==
  ASSUME IInv, NEW n \in Live(dom), EditText(n) PROVE IInv'
<1>1. Free(dom) # {} /\ Op(SetText(dom, n)) /\ MayEdit  BY DEF EditText, Op, ACall
<1>2. DomType(dom) /\ Good(dom, <<>>)  BY <1>1, CallsFrom
<1>3. CASE HasText(dom, n)
  <2>1. SetText(dom, n) = dom  BY <1>3 DEF SetText
  <2>2. QED  BY <1>1, <1>2, <2>1, OpKeeps
<1>4. CASE ~ HasText(dom, n)
  <2> DEFINE k == "text"
             x == "none"
             c == Create(dom, k, x)
             m == NextFree(dom)
             f == InsertFirstChild(c, n, m)
  <2>1. SetText(dom, n) = f  BY <1>4 DEF SetText
  <2>2. k \in Kinds /\ x \in Names \cup {"none"} /\ <<>> \in Seq(Nodes)  BY DEF Kinds, Leaves
  <2> HIDE DEF k, x
  <2>3. /\ DomType(c) /\ Good(c, <<>>) /\ Live(c) = Live(dom) \cup {m}
        /\ m \in Nodes \ Live(dom) /\ m \in Live(c) /\ c.first[m] = Nil
    BY <1>1, <1>2, <2>2, CreateNow
  <2> HIDE DEF c, m
  <2>4. n \in Live(c) \cup {Doc} /\ n # m /\ m \notin ToSet(<<>>)  BY <2>3, Empty
  <2>5. Moved(c, <<>>, f, n, m)  BY <2>3, <2>4, Empty, InsertNewGood
  <2> HIDE DEF f
  <2>6. DomType(f) /\ Good(f, <<>>)  BY <2>3, <2>5, MoveGood
  <2>7. QED  BY <1>1, <2>1, <2>6, OpKeeps
<1>5. QED  BY <1>3, <1>4

LEMMA AttributesKeep ==
  ASSUME IInv, NEW n \in Live(dom), NEW x \in Names, SetAttribute(n, x) \/ RemoveAttribute(n, x)
  PROVE  IInv'
<1> DEFINE f == FindOrCreateAttribute(dom, n, x)
           g == DeleteAttribute(dom, n, x)
<1>1. Op(f) \/ Op(g)  BY DEF SetAttribute, RemoveAttribute
<1>2. DomType(dom) /\ Good(dom, <<>>)  BY <1>1, CallsFrom DEF Op, ACall
<1>3. n \in Nodes  BY DEF Live
<1>4. /\ f = dom \/ (DomType(f) /\ WithAttrs(dom, f, n))
      /\ g = dom \/ (DomType(g) /\ WithAttrs(dom, g, n))
  BY <1>2, <1>3, FindOrCreateIs, DeleteAttributeIs
<1> HIDE DEF f, g
<1>5. DomType(f) /\ Good(f, <<>>)  BY <1>2, <1>4, AttrsGood
<1>6. DomType(g) /\ Good(g, <<>>)  BY <1>2, <1>4, AttrsGood
<1>7. QED  BY <1>1, <1>5, <1>6, OpKeeps

-----------------------------------------------------------------------------
(***************************************************************************)
(* The parser, a token at a time.                                          *)
(***************************************************************************)
LEMMA AloneSet ==
  ASSUME NEW d, NEW s \in Seq(Nodes)
  PROVE  Alone(d, s) <=> Once(s) /\ \A m \in ToSet(s) : m \in Live(d) /\ d.par[m] = Nil
<1>1. ToSet(s) = {s[i] : i \in 1 .. Len(s)}  BY ToSetIn
<1>2. QED  BY <1>1 DEF Alone

LEMMA FrontSet ==
  ASSUME NEW s \in Seq(Nodes), s # <<>>, Once(s)
  PROVE  /\ Front(s) \in Seq(Nodes) /\ Once(Front(s)) /\ Last(s) \in ToSet(s)
         /\ ToSet(Front(s)) = ToSet(s) \ {Last(s)} /\ s = Append(Front(s), Last(s))
<1> DEFINE f == Front(s)
           x == Last(s)
<1>1. f \in Seq(Nodes) /\ x \in Nodes /\ s = Append(f, x)  BY DEF Front, Last
<1>a. Len(s) \in Nat /\ Len(s) > 0 /\ x = s[Len(s)]  BY DEF Last
<1> DEFINE k == Len(s) - 1
<1>b. k \in Nat /\ k <= Len(s) /\ f = SubSeq(s, 1, k)  BY <1>a DEF Front
<1>c. Len(SubSeq(s, 1, k)) = k
  <2> HIDE DEF f, k
  <2>1. Len(SubSeq(s, 1, k)) = IF 1 <= k THEN k - 1 + 1 ELSE 0  BY <1>b
  <2>2. QED  BY <1>b, <2>1
<1>d. \A i \in 1 .. k : SubSeq(s, 1, k)[i] = s[i]  BY <1>b
<1>2. Len(f) = Len(s) - 1 /\ Len(s) > 0 /\ Len(s) \in Nat /\ x = s[Len(s)]
      /\ \A i \in 1 .. Len(s) - 1 : f[i] = s[i]
  BY <1>a, <1>b, <1>c, <1>d
<1> HIDE DEF f, x
<1>3. Once(f)  BY <1>2 DEF Once
<1>4. x \notin ToSet(f)
  <2>1. ToSet(f) = {f[i] : i \in 1 .. Len(f)}  BY <1>1, ToSetIn
  <2>2. \A i \in 1 .. Len(s) - 1 : s[i] # s[Len(s)]  BY <1>2 DEF Once
  <2>3. QED  BY <1>2, <2>1, <2>2
<1>5. ToSet(s) = ToSet(f) \cup {x}  BY <1>1, AppendSet
<1>6. QED  BY <1>1, <1>3, <1>4, <1>5 DEF f, x

\* Top is the document or an element that has no parent yet.
LEMMA TopIs ==
  ASSUME Reading
  PROVE  /\ Top \in Live(dom) \cup {Doc} /\ (Top # Doc => dom.par[Top] = Nil)
<1>1. CASE stk = <<>>  BY <1>1 DEF Top
<1>2. CASE stk # <<>>
  <2>1. stk \in Seq(Nodes) /\ Once(stk) /\ \A m \in ToSet(stk) : m \in Live(dom) /\ dom.par[m] = Nil
    BY AloneSet DEF Reading
  <2>2. Last(stk) \in ToSet(stk)  BY <1>2, <2>1, FrontSet
  <2>3. QED  BY <1>2, <2>1, <2>2 DEF Top
<1>3. QED  BY <1>1, <1>2

LEMMA TokenFrom ==
  ASSUME IInv, NEW tok, Token(tok)
  PROVE  /\ Reading /\ phase = "parse" /\ Free(dom) # {} /\ dom.err = "none"
         /\ stk \in Seq(Nodes) /\ Once(stk)
         /\ \A m \in ToSet(stk) : m \in Live(dom) /\ dom.par[m] = Nil
         /\ (del' = <<>> => NoCall')
<1>1. phase = "parse" /\ ~ Busy /\ Free(dom) # {}  BY DEF Token
<1>2. Reading  BY <1>1, ReadingIs
<1>3. stk \in Seq(Nodes) /\ Once(stk) /\ \A m \in ToSet(stk) : m \in Live(dom) /\ dom.par[m] = Nil
  BY <1>2, AloneSet DEF Reading
<1>4. del' = <<>> => NoCall'  BY <1>2 DEF Reading, NoCall, Token
<1>5. QED  BY <1>1, <1>2, <1>3, <1>4 DEF Reading

\* The parse goes on, or an error starts to go up.
LEMMA TokenKeeps ==
  ASSUME IInv, NEW tok, Token(tok), del' = del, phase' \in {"parse", "fail"},
         NEW d, dom' = d, DomType(d), Good(d, <<>>), d.crash = dom.crash,
         phase' = "parse" => d.err = "none",
         stk' \in Seq(Nodes), Once(stk'), ToSet(d.unlinked) = ToSet(stk'),
         \A m \in ToSet(stk') : m \in Live(d) /\ d.par[m] = Nil
  PROVE  IInv'
<1>1. Reading  BY TokenFrom
<1>2. del' = <<>>  BY <1>1 DEF Reading, NoCall
<1>3. NoCall'  BY <1>2, TokenFrom
<1>4. Alone(d, stk')  BY AloneSet
<1>5. ~ d.crash  BY <1>1 DEF Reading
<1>6. Reading'  BY <1>3, <1>4, <1>5 DEF Reading
<1>7. QED  BY <1>6, ReadingHolds, PTL

\* d is c with a new node n, which is on the list of unlinked nodes.
Fresh(c, d, n) ==
    /\ DomType(d) /\ Good(d, <<>>) /\ Live(d) = Live(c) \cup {n} /\ n \in Nodes \ Live(c)
    /\ d.err = c.err /\ d.crash = c.crash /\ d.par = c.par
    /\ ToSet(d.unlinked) = ToSet(c.unlinked) \cup {n} /\ ToSet(c.unlinked) \subseteq Live(c)
    /\ d.par[n] = Nil /\ d.first[n] = Nil

LEMMA IdentifyFresh ==
  ASSUME IInv, NEW tok, Token(tok), NEW k \in Kinds, NEW x \in Names \cup {"none"}
  PROVE  /\ Fresh(dom, Create(dom, k, x), NextFree(dom))
         /\ \A al \in Seq(Names) :
              Fresh(dom, WithAttributes(Create(dom, k, x), NextFree(dom), al), NextFree(dom))
<1> DEFINE d == Create(dom, k, x)
           n == NextFree(dom)
<1>1. DomType(dom) /\ Good(dom, <<>>) /\ Free(dom) # {}  BY TokenFrom DEF Reading
<1>2. /\ DomType(d) /\ Good(d, <<>>) /\ Live(d) = Live(dom) \cup {n}
      /\ n \in Nodes \ Live(dom) /\ n \in Live(d)
      /\ d.err = dom.err /\ d.crash = dom.crash /\ d.par = dom.par
      /\ ToSet(d.unlinked) = ToSet(dom.unlinked) \cup {n}
      /\ d.par[n] = Nil /\ d.first[n] = Nil /\ d.attrs[n] = <<>>
  BY <1>1, CreateNow
<1>3. ToSet(dom.unlinked) \subseteq Live(dom)  BY <1>1 DEF Good, OneOwner
<1> HIDE DEF d, n
<1>4. ASSUME NEW al \in Seq(Names) PROVE Fresh(dom, WithAttributes(d, n, al), n)
  <2> DEFINE e == WithAttributes(d, n, al)
  <2>1. /\ DomType(e) /\ Good(e, <<>>) /\ Live(e) = Live(d)
        /\ e.err = d.err /\ e.crash = d.crash /\ SamePtrs(d, e) /\ e.unlinked = d.unlinked
    BY <1>2, WithAttributesGood
  <2> HIDE DEF e
  <2>2. e.par = d.par /\ e.first = d.first  BY <2>1 DEF SamePtrs
  <2>3. QED  BY <1>2, <1>3, <2>1, <2>2 DEF e, Fresh
<1>5. Fresh(dom, d, n)  BY <1>2, <1>3 DEF Fresh
<1>6. QED  BY <1>4, <1>5 DEF d, n

\* The new node is deleted again.
LEMMA DropFresh ==
  ASSUME NEW c, NEW d, NEW n, Fresh(c, d, n)
  PROVE  LET e == DeleteLeaf(d, n) IN
         /\ DomType(e) /\ Good(e, <<>>) /\ Live(e) = Live(c) /\ e.err = d.err /\ e.crash = d.crash
         /\ e.par = c.par /\ ToSet(e.unlinked) = ToSet(c.unlinked)
<1> DEFINE R == <<>>
           e == DeleteLeaf(d, n)
<1>1. n \in Live(d) /\ n \notin Live(c) /\ n \notin ToSet(c.unlinked)  BY DEF Fresh
<1>2. R \in Seq(Nodes) /\ n \notin ToSet(R) /\ Good(d, R)  BY Empty DEF Fresh
<1> HIDE DEF R
<1>3. /\ DomType(e) /\ Good(e, R) /\ Live(e) = Live(d) \ {n}
      /\ e.err = d.err /\ e.crash = d.crash /\ e.par = d.par
      /\ ToSet(e.unlinked) = ToSet(d.unlinked) \ {n}
  BY <1>1, <1>2, DeleteLeafGood DEF Fresh
<1> HIDE DEF e
<1>4. QED  BY <1>1, <1>3 DEF Fresh, R, e

LEMMA FreshError ==
  ASSUME NEW c, NEW d, NEW n, Fresh(c, d, n), NEW err \in Errors
  PROVE  LET e == DeleteLeaf(SetError(d, err), n) IN
         /\ DomType(e) /\ Good(e, <<>>) /\ Live(e) = Live(c) /\ e.err = err /\ e.crash = c.crash
         /\ e.par = c.par /\ ToSet(e.unlinked) = ToSet(c.unlinked)
<1> DEFINE b == SetError(d, err)
           e == DeleteLeaf(b, n)
           c1 == SetError(c, err)
<1>1. /\ DomType(b) /\ SamePtrs(d, b) /\ b.unlinked = d.unlinked /\ b.crash = d.crash
      /\ b.err = err /\ Live(b) = Live(d) /\ Good(b, <<>>)
  BY SetErrorGood DEF Fresh
<1> HIDE DEF b
<1>2. b.par = d.par /\ b.first = d.first  BY <1>1 DEF SamePtrs
<1> DEFINE R == <<>>
<1>3. n \in Live(b) /\ n \notin Live(c) /\ n \notin ToSet(c.unlinked) /\ b.par[n] = Nil /\ b.first[n] = Nil
  BY <1>1, <1>2 DEF Fresh
<1>4. R \in Seq(Nodes) /\ n \notin ToSet(R) /\ Good(b, R)  BY <1>1, Empty
<1> HIDE DEF R
<1>5. /\ DomType(e) /\ Good(e, R) /\ Live(e) = Live(b) \ {n}
      /\ e.err = b.err /\ e.crash = b.crash /\ e.par = b.par
      /\ ToSet(e.unlinked) = ToSet(b.unlinked) \ {n}
  BY <1>1, <1>3, <1>4, DeleteLeafGood
<1> HIDE DEF e
<1>6. QED  BY <1>1, <1>2, <1>3, <1>5 DEF Fresh, R, e, b

LEMMA FailKeeps ==
  ASSUME IInv, NEW tok, Token(tok), NEW d, NEW n, Fresh(dom, d, n), NEW err \in Errors,
         Fail(d, n, err)
  PROVE  IInv'
<1> DEFINE e == DeleteLeaf(SetError(d, err), n)
<1>1. dom' = e /\ phase' = "fail" /\ stk' = stk /\ del' = del  BY DEF Fail
<1>2. /\ DomType(e) /\ Good(e, <<>>) /\ Live(e) = Live(dom) /\ e.err = err /\ e.crash = dom.crash
      /\ e.par = dom.par /\ ToSet(e.unlinked) = ToSet(dom.unlinked)
  BY FreshError
<1> HIDE DEF e
<1>3. /\ stk \in Seq(Nodes) /\ Once(stk) /\ ToSet(dom.unlinked) = ToSet(stk)
      /\ \A m \in ToSet(stk) : m \in Live(dom) /\ dom.par[m] = Nil
  BY TokenFrom DEF Reading
<1>4. \A m \in ToSet(stk') : m \in Live(e) /\ e.par[m] = Nil  BY <1>1, <1>2, <1>3
<1>5. stk' \in Seq(Nodes) /\ Once(stk') /\ ToSet(e.unlinked) = ToSet(stk')  BY <1>1, <1>2, <1>3
<1>6. QED  BY <1>1, <1>2, <1>4, <1>5, TokenKeeps

LEMMA AttachKeeps ==
  ASSUME IInv, NEW tok, Token(tok), NEW d, NEW n, Fresh(dom, d, n),
         dom' = InsertEndChild(d, Top, n), UNCHANGED <<phase, stk, del>>
  PROVE  IInv'
<1> DEFINE f == InsertEndChild(d, Top, n)
           R == <<>>
<1>1. Reading /\ phase = "parse"  BY TokenFrom
<1>2. Top \in Live(dom) \cup {Doc}  BY <1>1, TopIs
<1>3. /\ DomType(d) /\ Good(d, R) /\ n \in Live(d) /\ n \notin ToSet(R) /\ R \in Seq(Nodes)
      /\ Top \in Live(d) \cup {Doc} /\ Top # n /\ d.first[n] = Nil
  BY <1>2, Empty, NodeNumbers DEF Fresh
<1> HIDE DEF R
<1>4. Moved(d, R, f, Top, n)  BY <1>3, InsertNewGood
<1> HIDE DEF f
<1>5. /\ DomType(f) /\ Good(f, R) /\ Live(f) = Live(d) /\ f.err = d.err /\ f.crash = d.crash
      /\ ToSet(f.unlinked) = ToSet(d.unlinked) \ {n}
      /\ \A m \in Nodes : f.par[m] = IF m = n THEN Top ELSE d.par[m]
  BY <1>3, <1>4, MoveGood
<1>6. /\ stk \in Seq(Nodes) /\ Once(stk) /\ ToSet(dom.unlinked) = ToSet(stk) /\ dom.err = "none"
      /\ \A m \in ToSet(stk) : m \in Live(dom) /\ dom.par[m] = Nil
  BY TokenFrom DEF Reading
<1>7. \A m \in ToSet(stk') : m \in Live(f) /\ f.par[m] = Nil
  <2>1. ASSUME NEW m \in ToSet(stk) PROVE m \in Live(f) /\ f.par[m] = Nil
    <3>1. m \in Nodes /\ m \in Live(dom) /\ m # n /\ dom.par[m] = Nil  BY <1>6 DEF Fresh, Live
    <3>2. QED  BY <1>5, <3>1 DEF Fresh
  <2>2. QED  BY <2>1
<1>8. ToSet(f.unlinked) = ToSet(stk')  BY <1>5, <1>6 DEF Fresh
<1>9. f.crash = dom.crash /\ f.err = "none"  BY <1>5, <1>6 DEF Fresh
<1>10. Good(f, <<>>)  BY <1>5 DEF R
<1>11. dom' = f /\ phase' = "parse" /\ del' = del /\ stk' \in Seq(Nodes) /\ Once(stk')
  BY <1>1, <1>6 DEF f
<1>12. QED  BY <1>5, <1>7, <1>8, <1>9, <1>10, <1>11, TokenKeeps

LEMMA ErrorNames ==
  /\ "PARSING" \in Errors /\ "PARSING_DECLARATION" \in Errors /\ "PARSING_ATTRIBUTE" \in Errors
  /\ "DEPTH_EXCEEDED" \in Errors /\ "MISMATCHED_ELEMENT" \in Errors /\ "EMPTY_DOCUMENT" \in Errors
  /\ "FILE_NOT_FOUND" \in Errors /\ "FILE_READ_ERROR" \in Errors /\ "none" \in Errors
BY DEF Errors

LEMMA ParseLeafKeeps ==
  ASSUME IInv, NEW k \in Leaves, ParseLeaf(k) PROVE IInv'
<1> DEFINE tok == Leaf(k)
           x == "none"
           d == Create(dom, k, x)
           n == NextFree(dom)
<1>1. k \in Kinds /\ x \in Names \cup {"none"} /\ Token(tok)  BY DEF Kinds, ParseLeaf
<1>2. IF k = "declaration" /\ ~ WellLocated(dom) THEN Fail(d, n, "PARSING_DECLARATION")
      ELSE dom' = InsertEndChild(d, Top, n) /\ UNCHANGED <<phase, stk, del>>
  BY DEF ParseLeaf
<1> HIDE DEF tok, x
<1>3. Fresh(dom, d, n)  BY <1>1, IdentifyFresh
<1> HIDE DEF d, n
<1>4. QED  BY <1>1, <1>2, <1>3, FailKeeps, AttachKeeps, ErrorNames

LEMMA ParseBrokenKeeps ==
  ASSUME IInv, NEW k \in Kinds, ParseBroken(k) PROVE IInv'
<1> DEFINE tok == Tag("broken", "none", <<>>)
           x == "none"
           d == Create(dom, k, x)
           n == NextFree(dom)
<1>1. x \in Names \cup {"none"} /\ Token(tok) /\ Fail(d, n, "PARSING")  BY DEF ParseBroken
<1> HIDE DEF tok, x
<1>2. Fresh(dom, d, n)  BY <1>1, IdentifyFresh
<1> HIDE DEF d, n
<1>3. QED  BY <1>1, <1>2, FailKeeps, ErrorNames

LEMMA ParseEmptyKeeps ==
  ASSUME IInv, NEW x \in Names, NEW al \in Seq(Names), ParseEmpty(x, al) PROVE IInv'
<1> DEFINE tok == Tag("empty", x, al)
           k == "element"
           d == Create(dom, k, x)
           n == NextFree(dom)
           w == WithAttributes(d, n, al)
<1>1. k \in Kinds /\ x \in Names \cup {"none"} /\ Token(tok)  BY DEF Kinds, ParseEmpty
<1>2. IF Duplicate(al) THEN Fail(d, n, "PARSING_ATTRIBUTE")
      ELSE dom' = InsertEndChild(w, Top, n) /\ UNCHANGED <<phase, stk, del>>
  BY DEF ParseEmpty
<1> HIDE DEF tok, k
<1>3. Fresh(dom, d, n) /\ Fresh(dom, w, n)  BY <1>1, IdentifyFresh
<1> HIDE DEF d, n, w
<1>4. QED  BY <1>1, <1>2, <1>3, FailKeeps, AttachKeeps, ErrorNames

LEMMA ParseOpenKeeps ==
  ASSUME IInv, NEW x \in Names, NEW al \in Seq(Names), ParseOpen(x, al) PROVE IInv'
<1> DEFINE tok == Tag("open", x, al)
           k == "element"
           d == Create(dom, k, x)
           n == NextFree(dom)
           w == WithAttributes(d, n, al)
<1>1. k \in Kinds /\ x \in Names \cup {"none"} /\ Token(tok)  BY DEF Kinds, ParseOpen
<1>2. \/ Fail(d, n, "PARSING_ATTRIBUTE") \/ Fail(w, n, "DEPTH_EXCEEDED")
      \/ dom' = w /\ stk' = Append(stk, n) /\ UNCHANGED <<phase, del>>
  BY DEF ParseOpen
<1> HIDE DEF tok, k
<1>3. Fresh(dom, d, n) /\ Fresh(dom, w, n)  BY <1>1, IdentifyFresh
<1> HIDE DEF d, n, w
<1>4. CASE Fail(d, n, "PARSING_ATTRIBUTE") \/ Fail(w, n, "DEPTH_EXCEEDED")
  BY <1>1, <1>3, <1>4, FailKeeps, ErrorNames
<1>5. CASE dom' = w /\ stk' = Append(stk, n) /\ UNCHANGED <<phase, del>>
  <2>1. /\ stk \in Seq(Nodes) /\ Once(stk) /\ ToSet(dom.unlinked) = ToSet(stk) /\ dom.err = "none"
        /\ \A m \in ToSet(stk) : m \in Live(dom) /\ dom.par[m] = Nil
        /\ phase = "parse"
    BY <1>1, TokenFrom DEF Reading
  <2>2. n \in Nodes /\ n \notin ToSet(stk)  BY <1>3, <2>1 DEF Fresh
  <2>3. stk' \in Seq(Nodes) /\ ToSet(stk') = ToSet(stk) \cup {n} /\ Once(stk')
    BY <1>5, <2>1, <2>2, AppendSet
  <2>4. \A m \in ToSet(stk') : m \in Live(w) /\ w.par[m] = Nil  BY <1>3, <2>1, <2>3 DEF Fresh
  <2>5. DomType(w) /\ Good(w, <<>>) /\ w.crash = dom.crash /\ w.err = "none"
        /\ ToSet(w.unlinked) = ToSet(stk')
    BY <1>3, <2>1, <2>3 DEF Fresh
  <2>6. dom' = w /\ del' = del /\ phase' = "parse"  BY <1>5, <2>1
  <2>7. QED  BY <1>1, <2>3, <2>4, <2>5, <2>6, TokenKeeps
<1>6. QED  BY <1>2, <1>4, <1>5

LEMMA ParseEofKeeps == ASSUME IInv, ParseEof PROVE IInv'
<1>1. phase = "parse" /\ ~ Busy /\ UNCHANGED <<stk, toks, file, ops, made, del, keep, clearing, cl>>
  BY DEF ParseEof, calls
<1>2. Reading  BY <1>1, ReadingIs
<1>n. NoCall'  BY <1>1, <1>2 DEF Reading, NoCall
<1>3. CASE phase' = "idle" /\ dom' = dom /\ stk = <<>>
  <2>1. FailureCleansUp'  BY <1>1, <1>2, <1>3 DEF FailureCleansUp, Reading
  <2>2. Resting'  BY <1>1, <1>2, <1>3, <1>n, <2>1 DEF Reading, Resting
  <2>3. QED  BY <2>2, RestingHolds, PTL
<1>4. ASSUME NEW err \in Errors, phase' = "fail", dom' = SetError(dom, err) PROVE IInv'
  <2> DEFINE e == SetError(dom, err)
  <2>1. /\ DomType(e) /\ SamePtrs(dom, e) /\ e.kind = dom.kind /\ e.unlinked = dom.unlinked
        /\ e.crash = dom.crash /\ e.err = err /\ Live(e) = Live(dom) /\ Good(e, <<>>)
    BY <1>2, SetErrorGood DEF Reading
  <2>2. dom' = e  BY <1>4
  <2> HIDE DEF e
  <2>3. Alone(e, stk)  BY <1>2, <2>1 DEF Reading, Alone, SamePtrs
  <2>4. Reading'  BY <1>1, <1>2, <1>4, <1>n, <2>1, <2>2, <2>3 DEF Reading
  <2>5. QED  BY <2>4, ReadingHolds, PTL
<1>5. QED  BY <1>3, <1>4, ErrorNames DEF ParseEof

\* While a destructor is running no clone is made.
Destroying ==
    /\ DomType(dom) /\ ~ dom.crash /\ Good(dom, del) /\ cl = <<>>
    /\ del \in Seq(Nodes) /\ keep \in Ptr \cup {Doc} /\ clearing \in BOOLEAN
    /\ ParserInv /\ DropInv /\ CleanInv

LEMMA DestroyingHolds == Destroying => IInv
<1> SUFFICES ASSUME Destroying PROVE IInv  OBVIOUS
<1> USE DEF Destroying
<1>1. Len(cl) = 0 /\ cl \in Seq(Frames)  OBVIOUS
<1>2. FramesOK(dom, cl)  BY <1>1 DEF FramesOK
<1>3. CallInv  BY <1>1, <1>2 DEF CallInv
<1>4. QED  BY <1>3 DEF IInv

LEMMA DestroyingIs == ASSUME IInv, Deleting PROVE Destroying
<1>1. Busy /\ cl = <<>>  BY DEF Busy, IInv, CallInv
<1>2. ~ dom.crash /\ Good(dom, del)  BY <1>1 DEF IInv
<1>3. QED  BY <1>1, <1>2 DEF Destroying, IInv, CallInv

LEMMA OneRunning == ASSUME NEW n PROVE Append(<<>>, n) = <<n>>
OBVIOUS

\* An error goes up one level.
LEMMA LevelFails ==
  ASSUME Reading, stk # <<>>,
         NEW d, DomType(d), Good(d, <<>>), Live(d) = Live(dom), d.crash = dom.crash,
         d.par = dom.par, ToSet(d.unlinked) = ToSet(dom.unlinked),
         dom' = DeleteNode(d, Last(stk)), del' = <<Last(stk)>>, stk' = Front(stk),
         phase' = "fail", UNCHANGED <<keep, clearing, cl>>
  PROVE  IInv'
<1> DEFINE n == Last(stk)
           e == DeleteNode(d, n)
           R == <<>>
<1>1. /\ stk \in Seq(Nodes) /\ Once(stk) /\ ToSet(dom.unlinked) = ToSet(stk)
      /\ \A m \in ToSet(stk) : m \in Live(dom) /\ dom.par[m] = Nil
  BY AloneSet DEF Reading
<1>2. /\ stk' \in Seq(Nodes) /\ Once(stk') /\ n \in ToSet(stk) /\ ToSet(stk') = ToSet(stk) \ {n}
  BY <1>1, FrontSet
<1> HIDE DEF n
<1>3. n \in Live(d) /\ n \in Nodes /\ R \in Seq(Nodes) /\ n \notin ToSet(R) /\ Good(d, R)
  BY <1>1, <1>2, Empty DEF Live
<1>4. del' = Append(R, n)  BY OneRunning DEF n
<1> HIDE DEF R
<1>5. /\ DomType(e) /\ Good(e, Append(R, n)) /\ Live(e) = Live(d) /\ e.crash = d.crash
      /\ \A m \in Nodes : e.par[m] = IF m = n THEN Nil ELSE d.par[m]
      /\ ToSet(e.unlinked) = ToSet(d.unlinked) \ {n}
  BY <1>3, DeleteNodeGood
<1>6. dom' = e  BY DEF n
<1> HIDE DEF e
<1>7. \A m \in ToSet(stk') : m \in Live(e) /\ e.par[m] = Nil
  <2>1. ASSUME NEW m \in ToSet(stk') PROVE m \in Live(e) /\ e.par[m] = Nil
    <3>1. m \in Live(dom) /\ m \in Nodes /\ dom.par[m] = Nil  BY <1>1, <1>2 DEF Live
    <3>2. QED  BY <1>5, <3>1
  <2>2. QED  BY <2>1
<1>8. Alone(e, stk')  BY <1>2, <1>7, AloneSet
<1>9. keep' = Nil /\ clearing' = FALSE /\ cl' = <<>>  BY DEF Reading, NoCall
<1>10. ParserInv'  BY <1>1, <1>2, <1>5, <1>6, <1>8, <1>9 DEF ParserInv
<1>11. DropInv' /\ CleanInv'  BY DEF DropInv, CleanInv, FailureCleansUp, Finished
<1>12. del' \in Seq(Nodes)  BY <1>3, <1>4
<1>13. ~ e.crash  BY <1>5 DEF Reading
<1>14. Destroying'  BY <1>4, <1>5, <1>6, <1>9, <1>10, <1>11, <1>12, <1>13 DEF Destroying, Ptr
<1>15. QED  BY <1>14, DestroyingHolds, PTL

LEMMA ParseCloseKeeps ==
  ASSUME IInv, NEW x \in Names, ParseClose(x) PROVE IInv'
<1> DEFINE tok == Tag("close", x, <<>>)
           k == "element"
           c == Create(dom, k, x)
           m == NextFree(dom)
           d == DeleteLeaf(c, m)
           e == Last(stk)
           up == Front(stk)
           p == IF up = <<>> THEN Doc ELSE Last(up)
           g == SetError(d, "MISMATCHED_ELEMENT")
<1>1. k \in Kinds /\ x \in Names \cup {"none"} /\ Token(tok)  BY DEF Kinds, ParseClose
<1>2. IF stk = <<>> THEN dom' = d /\ phase' = "idle" /\ UNCHANGED <<stk, del>>
      ELSE /\ stk' = up
           /\ IF dom.name[e] = x THEN dom' = InsertEndChild(d, p, e) /\ UNCHANGED <<phase, del>>
              ELSE dom' = DeleteNode(g, e) /\ del' = <<e>> /\ phase' = "fail"
  BY DEF ParseClose
<1>u. UNCHANGED <<keep, clearing, cl>>  BY DEF ParseClose, Token
<1> HIDE DEF tok, k
<1>3. Fresh(dom, c, m)  BY <1>1, IdentifyFresh
<1> HIDE DEF c, m
<1>4. /\ DomType(d) /\ Good(d, <<>>) /\ Live(d) = Live(dom) /\ d.err = c.err /\ d.crash = c.crash
      /\ d.par = dom.par /\ ToSet(d.unlinked) = ToSet(dom.unlinked)
  BY <1>3, DropFresh
<1> HIDE DEF d
<1>5. /\ stk \in Seq(Nodes) /\ Once(stk) /\ ToSet(dom.unlinked) = ToSet(stk) /\ dom.err = "none"
      /\ \A n \in ToSet(stk) : n \in Live(dom) /\ dom.par[n] = Nil
      /\ phase = "parse" /\ Reading /\ (del' = <<>> => NoCall')
  BY <1>1, TokenFrom DEF Reading
<1>6. d.err = "none" /\ d.crash = dom.crash  BY <1>3, <1>4, <1>5 DEF Fresh
<1>7. CASE stk = <<>>
  <2>1. dom' = d /\ phase' = "idle" /\ stk' = <<>> /\ del' = <<>>
    BY <1>2, <1>5, <1>7 DEF Reading, NoCall
  <2>2. FailureCleansUp'  BY <1>6, <2>1 DEF FailureCleansUp
  <2>3. Resting'  BY <1>4, <1>5, <2>1, <2>2 DEF Resting
  <2>4. QED  BY <2>3, RestingHolds, PTL
<1>8. CASE stk # <<>> /\ dom.name[e] # x
  <2>1. /\ DomType(g) /\ SamePtrs(d, g) /\ g.unlinked = d.unlinked /\ g.crash = d.crash
        /\ Live(g) = Live(d) /\ Good(g, <<>>)
    BY <1>4, SetErrorGood, ErrorNames
  <2>2. /\ dom' = DeleteNode(g, Last(stk)) /\ del' = <<Last(stk)>> /\ stk' = Front(stk)
        /\ phase' = "fail"
    BY <1>2, <1>8
  <2> HIDE DEF g
  <2>3. g.par = dom.par /\ ToSet(g.unlinked) = ToSet(dom.unlinked) /\ Live(g) = Live(dom)
        /\ g.crash = dom.crash
    BY <1>4, <1>6, <2>1 DEF SamePtrs
  <2>4. stk # <<>>  BY <1>8
  <2>5. QED  BY <1>u, <1>5, <2>1, <2>2, <2>3, <2>4, LevelFails
<1>9. CASE stk # <<>> /\ dom.name[e] = x
  <2> DEFINE f == InsertEndChild(d, p, e)
             R == <<>>
  <2>1. /\ up \in Seq(Nodes) /\ Once(up) /\ e \in ToSet(stk) /\ ToSet(up) = ToSet(stk) \ {e}
    BY <1>5, <1>9, FrontSet
  <2>2. p = Doc \/ p \in ToSet(up)
    <3>1. up # <<>> => Last(up) \in ToSet(up)  BY <2>1, FrontSet
    <3>2. QED  BY <3>1
  <2>3. dom' = f /\ stk' = up /\ del' = del /\ phase' = "parse"  BY <1>2, <1>5, <1>9
  <2>4. Doc \notin Live(d)  BY NodeNumbers DEF Live
  <2> HIDE DEF up, e, p
  <2>5. /\ e \in Live(d) /\ p \in Live(d) \cup {Doc} /\ p # e /\ (p # Doc => d.par[p] = Nil)
        /\ R \in Seq(Nodes) /\ e \notin ToSet(R) /\ Good(d, R)
    BY <1>4, <1>5, <2>1, <2>2, <2>4, Empty
  <2> HIDE DEF R
  <2>6. Moved(d, R, f, p, e)  BY <1>4, <2>5, InsertAloneGood
  <2> HIDE DEF f
  <2>7. /\ DomType(f) /\ Good(f, R) /\ Live(f) = Live(d) /\ f.err = d.err /\ f.crash = d.crash
        /\ ToSet(f.unlinked) = ToSet(d.unlinked) \ {e}
        /\ \A n \in Nodes : f.par[n] = IF n = e THEN p ELSE d.par[n]
    BY <2>5, <2>6, MoveGood
  <2>8. \A n \in ToSet(up) : n \in Live(f) /\ f.par[n] = Nil
    <3>1. ASSUME NEW n \in ToSet(up) PROVE n \in Live(f) /\ f.par[n] = Nil
      <4>1. n \in Live(dom) /\ n \in Nodes /\ n # e /\ dom.par[n] = Nil  BY <1>5, <2>1 DEF Live
      <4>2. QED  BY <1>4, <2>7, <4>1
    <3>2. QED  BY <3>1
  <2>9. ToSet(f.unlinked) = ToSet(up) /\ f.crash = dom.crash /\ f.err = "none"
    BY <1>4, <1>5, <1>6, <2>1, <2>7
  <2>10. Good(f, <<>>)  BY <2>7 DEF R
  <2>11. QED  BY <1>1, <2>1, <2>3, <2>7, <2>8, <2>9, <2>10, TokenKeeps
<1>10. QED  BY <1>7, <1>8, <1>9

LEMMA NothingUnlinked ==
  ASSUME NEW d, DomType(d), ToSet(d.unlinked) = {} PROVE d.unlinked = <<>>
<1> DEFINE u == d.unlinked
<1>1. u \in Seq(Nodes) /\ ToSet(u) = {}  BY DEF DomType
<1> SUFFICES u = <<>>  OBVIOUS
<1> HIDE DEF u
<1>2. ToSet(u) = {u[i] : i \in 1 .. Len(u)}  BY <1>1, ToSetIn
<1>3. ASSUME Len(u) # 0 PROVE FALSE
  <2>1. 1 \in 1 .. Len(u)  BY <1>1, <1>3, LenNat
  <2>2. QED  BY <1>1, <1>2, <2>1
<1>4. QED  BY <1>1, <1>3

LEMMA UnwindKeeps == ASSUME IInv, Unwind PROVE IInv'
<1>1. phase = "fail" /\ ~ Busy  BY DEF Unwind
<1>2. Reading  BY <1>1, ReadingIs
<1>3. CASE stk # <<>>
  <2>1. /\ dom' = DeleteNode(dom, Last(stk)) /\ del' = <<Last(stk)>> /\ stk' = Front(stk)
        /\ phase' = "fail" /\ UNCHANGED <<keep, clearing, cl>>
    BY <1>1, <1>3 DEF Unwind
  <2>2. DomType(dom) /\ Good(dom, <<>>)  BY <1>2 DEF Reading
  <2>3. QED  BY <1>2, <1>3, <2>1, <2>2, LevelFails
<1>4. CASE stk = <<>>
  <2>1. UNCHANGED <<dom, del, stk, toks, file, clearing, cl>>  BY <1>4 DEF Unwind
  <2>2. DomType(dom) /\ Good(dom, <<>>) /\ ToSet(dom.unlinked) = {} /\ NoCall /\ ~ dom.crash
    BY <1>2, <1>4, Empty DEF Reading
  <2>3. dom.unlinked = <<>>  BY <2>2, NothingUnlinked
  <2>4. CASE file
    <3>1. phase' = "idle" /\ keep' = keep  BY <1>4, <2>4 DEF Unwind
    <3>2. NoCall'  BY <2>1, <2>2, <3>1 DEF NoCall
    <3>3. FailureCleansUp'  BY <2>1, <2>3, <2>4 DEF FailureCleansUp
    <3>4. Resting'  BY <1>4, <2>1, <2>2, <3>1, <3>2, <3>3 DEF Resting
    <3>5. QED  BY <3>4, RestingHolds, PTL
  <2>5. CASE ~ file
    <3>1. phase' = "drop" /\ keep' = Doc  BY <1>4, <2>5 DEF Unwind
    <3>2. del' = <<>> /\ clearing' = FALSE /\ cl' = <<>>  BY <2>1, <2>2 DEF NoCall
    <3>3. Alone(dom, <<>>)  BY Empty DEF Alone
    <3>4. ParserInv'  BY <1>4, <2>1, <2>2, <3>1, <3>2, <3>3, Empty DEF ParserInv
    <3>5. DropInv'  BY <3>1, <3>2 DEF DropInv
    <3>6. CleanInv'  BY <3>1 DEF CleanInv, FailureCleansUp, Finished
    <3>7. Good(dom', del')  BY <2>1, <2>2, <3>2
    <3>8. del' \in Seq(Nodes)  BY <3>2
    <3>9. Destroying'  BY <2>1, <2>2, <3>1, <3>2, <3>4, <3>5, <3>6, <3>7, <3>8 DEF Destroying
    <3>10. QED  BY <3>9, DestroyingHolds, PTL
  <2>6. QED  BY <2>4, <2>5
<1>5. QED  BY <1>3, <1>4

\* When the document has no child and nothing is unlinked, nothing is in use: the
\* pools may be cleared as a whole.
LEMMA EmptyDocument ==
  ASSUME NEW d, DomType(d), Good(d, <<>>), ToSet(d.unlinked) = {}, d.first[Doc] = Nil
  PROVE  Live(d) = {}
<1> SUFFICES ASSUME Live(d) # {} PROVE FALSE  OBVIOUS
<1>1. Links(d) /\ OneList(d) /\ Tree(d) /\ ParLive(d) /\ OneOwner(d, <<>>)  BY DEF Good, Shape
<1>2. Live(d) \in SUBSET Nodes  BY DEF Live
<1>3. PICK n \in Live(d) : d.par[n] \notin Live(d)  BY <1>1, <1>2 DEF Tree
<1>4. n \in Nodes /\ d.par[n] \in Nodes \cup {Nil, Doc}  BY <1>2 DEF DomType, Ptr
<1>5. d.par[n] # Nil  BY <1>1, Empty DEF OneOwner
<1>6. d.par[n] # Doc
  <2>1. PtrType(d)  BY DomPtr
  <2>2. QED  BY <1>1, <1>4, <2>1, HasFirst
<1>7. d.par[n] \notin Nodes  BY <1>1, <1>3, <1>4 DEF ParLive, Live
<1>8. QED  BY <1>4, <1>5, <1>6, <1>7

LEMMA DropTextKeeps == ASSUME IInv, DropText PROVE IInv'
<1>1. phase = "drop" /\ ~ Busy /\ phase' = "idle" /\ dom' = ClearPools(dom)
      /\ UNCHANGED <<stk, toks, file, ops, made, del, keep, clearing, cl>>
  BY DEF DropText, calls
<1>2. NoCall  BY <1>1, Quiet DEF IInv
<1>3. NoCall'  BY <1>1, <1>2 DEF NoCall
<1>4. DomType(dom) /\ Good(dom, <<>>) /\ ~ dom.crash  BY <1>1, <1>2 DEF IInv, NoCall
<1>5. stk = <<>> /\ ToSet(dom.unlinked) = {}  BY <1>1, <1>2, Empty DEF IInv, ParserInv, NoCall
<1>6. dom.first[Doc] = Nil  BY <1>1, <1>2 DEF IInv, DropInv, NoCall, Nil, Doc
<1>7. Live(dom) = {}  BY <1>4, <1>5, <1>6, EmptyDocument
<1>8. dom.unlinked = <<>>  BY <1>4, <1>5, NothingUnlinked
<1> DEFINE e == ClearPools(dom)
           q == [p \in Pools |-> 0]
<1>9. e = [dom EXCEPT !.allocs = q] /\ q \in [Pools -> Int] /\ \A p \in Pools : q[p] = 0
  BY DEF ClearPools
<1> HIDE DEF e, q
<1>10. DomType(e)  BY <1>4, <1>9 DEF DomType
<1>11. /\ SamePtrs(dom, e) /\ e.kind = dom.kind /\ e.attrs = dom.attrs /\ e.unlinked = dom.unlinked
       /\ e.crash = dom.crash /\ e.allocs = q
  BY <1>4, <1>9 DEF DomType, SamePtrs
<1>12. Live(e) = {}  BY <1>7, <1>11, LiveSame
<1>13. Shape(dom) /\ OneOwner(dom, <<>>)  BY <1>4 DEF Good
<1>14. Shape(e)  BY <1>11, <1>13, ShapeSame
<1>15. OneOwner(e, <<>>)  BY <1>7, <1>11, <1>12, <1>13 DEF OneOwner
<1>16. PoolsExact(e)
  <2>1. \A n \in Nodes : e.kind[n] = "free"  BY <1>12 DEF Live
  <2>2. \A n \in Nodes : e.attrs[n] = <<>>  BY <1>14, <2>1 DEF Shape, FreeClean
  <2>3. QED  BY <1>9, <1>11, <2>1, <2>2, NothingLive
<1>17. Good(e, <<>>)  BY <1>14, <1>15, <1>16 DEF Good
<1>18. dom' = e  BY <1>1 DEF e
<1>19. FailureCleansUp'  BY <1>8, <1>11, <1>12, <1>18 DEF FailureCleansUp
<1>20. Resting'  BY <1>1, <1>3, <1>5, <1>10, <1>17, <1>18, <1>19 DEF Resting
<1>21. QED  BY <1>20, RestingHolds, PTL

-----------------------------------------------------------------------------
(***************************************************************************)
(* Clear, and the calls of a user that go down a tree.                     *)
(***************************************************************************)
\* Clear starts when nothing is under way.
LEMMA ClearKeeps ==
  ASSUME IInv, phase = "idle", ~ Busy, ~ dom.crash, NEW err \in Errors, Clear(err),
         stk' = <<>>, toks' = <<>>,
         phase' = "idle" \/ (phase' = "parse" /\ err = "none")
  PROVE  IInv'
<1> DEFINE e == SetError(dom, err)
<1>1. Resting  BY RestingIs
<1>2. DomType(dom) /\ Good(dom, <<>>) /\ NoCall  BY <1>1 DEF Resting
<1>3. /\ DomType(e) /\ e.crash = dom.crash /\ e.err = err /\ Good(e, <<>>)
  BY <1>2, SetErrorGood
<1>4. dom' = e /\ del' = <<>> /\ keep' = Doc /\ clearing' = TRUE /\ cl' = <<>>
  BY <1>2 DEF Clear, NoCall
<1> HIDE DEF e
<1>5. Alone(e, <<>>)  BY Empty DEF Alone
<1>6. ParserInv'  BY <1>3, <1>4, <1>5, Empty DEF ParserInv
<1>7. DropInv'  BY DEF DropInv
<1>8. CleanInv'  BY <1>4 DEF CleanInv, FailureCleansUp, Finished
<1>9. Good(dom', del')  BY <1>3, <1>4
<1>10. del' \in Seq(Nodes)  BY <1>4
<1>11. Destroying'  BY <1>3, <1>4, <1>6, <1>7, <1>8, <1>9, <1>10 DEF Destroying
<1>12. QED  BY <1>11, DestroyingHolds, PTL

LEMMA StartParseKeeps == ASSUME IInv, NEW f, StartParse(f) PROVE IInv'
BY ClearKeeps, ErrorNames DEF StartParse

LEMMA LoadFailsKeeps ==
  ASSUME IInv, NEW err \in {"FILE_NOT_FOUND", "FILE_READ_ERROR"}, LoadFails(err) PROVE IInv'
<1>1. err \in Errors /\ stk = <<>>  BY ErrorNames DEF LoadFails, IInv, ParserInv
<1>2. /\ phase = "idle" /\ ~ Busy /\ ~ dom.crash /\ Clear(err) /\ stk' = <<>> /\ toks' = <<>>
      /\ phase' = "idle"
  BY <1>1 DEF LoadFails
<1>3. QED  BY <1>1, <1>2, ClearKeeps

LEMMA ClearDocKeeps == ASSUME IInv, ClearDoc PROVE IInv'
<1>1. stk = <<>> /\ phase = "idle" /\ ~ Busy /\ ~ dom.crash  BY CallsFrom DEF ClearDoc, ACall, MayEdit
<1>2. Clear("none") /\ stk' = <<>> /\ toks' = <<>> /\ phase' = "idle"  BY <1>1 DEF ClearDoc, ACall
<1>3. QED  BY <1>1, <1>2, ClearKeeps, ErrorNames

\* The destructor of n, or the loop over the children of a node, starts.
LEMMA DeleteKeeps == ASSUME IInv, NEW n \in Live(dom), Delete(n) PROVE IInv'
<1> DEFINE e == DeleteNode(dom, n)
           R == <<>>
<1>1. MayEdit /\ toks' = <<>> /\ dom' = e /\ del' = <<n>> /\ UNCHANGED <<phase, stk, keep, clearing, cl>>
  BY DEF Delete, ACall
<1>2. DomType(dom) /\ Good(dom, <<>>) /\ ~ dom.crash /\ NoCall /\ phase = "idle" /\ stk = <<>>
  BY <1>1, CallsFrom
<1>3. n \in Nodes /\ R \in Seq(Nodes) /\ n \notin ToSet(R) /\ Good(dom, R)  BY <1>2, Empty DEF Live
<1>4. del' = Append(R, n)  BY <1>1, OneRunning
<1> HIDE DEF R
<1>5. DomType(e) /\ Good(e, Append(R, n)) /\ e.crash = dom.crash  BY <1>2, <1>3, DeleteNodeGood
<1> HIDE DEF e
<1>6. stk' = <<>> /\ phase' = "idle" /\ keep' = Nil /\ clearing' = FALSE /\ cl' = <<>>
  BY <1>1, <1>2 DEF NoCall
<1>7. Alone(e, <<>>)  BY Empty DEF Alone
<1>8. ParserInv'  BY <1>1, <1>6, <1>7, Empty DEF ParserInv
<1>9. DropInv' /\ CleanInv'  BY <1>1, <1>6 DEF DropInv, CleanInv, FailureCleansUp, Finished
<1>10. del' \in Seq(Nodes)  BY <1>3, <1>4
<1>11. Destroying'
  BY <1>1, <1>2, <1>4, <1>5, <1>6, <1>8, <1>9, <1>10 DEF Destroying, Ptr
<1>12. QED  BY <1>11, DestroyingHolds, PTL

LEMMA DeleteChildrenKeeps ==
  ASSUME IInv, NEW p \in Live(dom) \cup {Doc}, DeleteChildren(p) PROVE IInv'
<1>1. MayEdit /\ toks' = <<>> /\ keep' = p /\ UNCHANGED <<phase, stk, dom, del, clearing, cl>>
  BY DEF DeleteChildren, ACall
<1>2. DomType(dom) /\ Good(dom, <<>>) /\ ~ dom.crash /\ NoCall /\ phase = "idle" /\ stk = <<>>
  BY <1>1, CallsFrom
<1>3. stk' = <<>> /\ phase' = "idle" /\ del' = <<>> /\ clearing' = FALSE /\ cl' = <<>>
  BY <1>1, <1>2 DEF NoCall
<1>4. keep' \in Ptr \cup {Doc}  BY <1>1 DEF Live, Ptr
<1>5. Alone(dom, <<>>)  BY Empty DEF Alone
<1>6. ParserInv'  BY <1>1, <1>3, <1>5, Empty DEF ParserInv
<1>7. DropInv' /\ CleanInv'  BY <1>1, <1>3 DEF DropInv, CleanInv, FailureCleansUp, Finished
<1>8. del' \in Seq(Nodes)  BY <1>3
<1>9. Good(dom', del')  BY <1>1, <1>2, <1>3
<1>10. Destroying'  BY <1>1, <1>2, <1>3, <1>4, <1>6, <1>7, <1>8, <1>9 DEF Destroying
<1>11. QED  BY <1>10, DestroyingHolds, PTL

-----------------------------------------------------------------------------
(***************************************************************************)
(* The destructors.                                                        *)
(***************************************************************************)
\* A step of a deletion: the rest of the state stays, and dom is e afterwards.
LEMMA DeletionKeeps ==
  ASSUME IInv, Deleting, UNCHANGED <<phase, stk, toks, file, cl>>,
         NEW e, dom' = e, DomType(e), Good(e, del'), e.err = dom.err, e.crash = dom.crash,
         del' \in Seq(Nodes), keep' \in Ptr \cup {Doc}, clearing' \in BOOLEAN,
         ToSet(stk) \subseteq Live(e),
         \A m \in ToSet(stk) : e.par[m] = Nil,
         phase # "idle" /\ ~ clearing' => ToSet(e.unlinked) = ToSet(stk),
         clearing' => clearing, phase = "drop" => DropInv'
  PROVE  IInv'
<1>1. Destroying  BY DestroyingIs
<1>2. ParserInv /\ CleanInv /\ ~ dom.crash  BY <1>1 DEF Destroying
<1>3. stk \in Seq(Nodes) /\ Once(stk)  BY <1>2 DEF ParserInv, Alone
<1>4. Alone(e, stk)  BY <1>3, AloneSet
<1>5. ParserInv'  BY <1>2, <1>3, <1>4 DEF ParserInv
<1>6. phase = "idle" => toks = <<>>  BY <1>2 DEF CleanInv, Busy
<1>7. CleanInv'  BY <1>6 DEF CleanInv, FailureCleansUp, Finished
<1>8. DropInv'  BY DEF DropInv
<1>9. cl' = <<>>  BY <1>1 DEF Destroying
<1>10. Destroying'  BY <1>2, <1>5, <1>7, <1>8, <1>9 DEF Destroying
<1>11. QED  BY <1>10, DestroyingHolds, PTL

LEMMA StackFacts ==
  ASSUME IInv, Deleting
  PROVE  /\ DomType(dom) /\ Good(dom, del) /\ del \in Seq(Nodes) /\ keep \in Ptr \cup {Doc}
         /\ clearing \in BOOLEAN /\ ToSet(stk) \subseteq Live(dom)
         /\ (\A m \in ToSet(stk) : dom.par[m] = Nil) /\ ToSet(stk) \cap ToSet(del) = {}
         /\ (phase # "idle" /\ ~ clearing => ToSet(dom.unlinked) = ToSet(stk))
         /\ (clearing => stk = <<>>)
<1>1. Destroying  BY DestroyingIs
<1>2. ParserInv  BY <1>1 DEF Destroying
<1>3. stk \in Seq(Nodes) /\ \A m \in ToSet(stk) : m \in Live(dom) /\ dom.par[m] = Nil
  BY <1>2, AloneSet DEF ParserInv
<1>4. ToSet(stk) \cap ToSet(del) = {}
  <2>1. CASE phase = "idle" \/ clearing  BY <1>2, <2>1, Empty DEF ParserInv
  <2>2. CASE phase # "idle" /\ ~ clearing
    <3>1. ToSet(dom.unlinked) = ToSet(stk)  BY <1>2, <2>2 DEF ParserInv
    <3>2. ToSet(dom.unlinked) \cap ToSet(del) = {}  BY <1>1 DEF Destroying, Good, OneOwner
    <3>3. QED  BY <3>1, <3>2
  <2>3. QED  BY <2>1, <2>2
<1>5. QED  BY <1>1, <1>2, <1>3, <1>4 DEF Destroying, ParserInv

LEMMA DeleteFirstKeeps == ASSUME IInv, DeleteFirst PROVE IInv'
<1> DEFINE p == Emptied
           n == dom.first[p]
           e == DeleteNode(dom, n)
<1>1. p # Nil /\ n # Nil /\ Deleting  BY DEF DeleteFirst, Deleting
<1>2. dom' = DeleteChild(dom, n) /\ del' = Append(del, n)
      /\ UNCHANGED <<phase, stk, toks, file, keep, clearing, cl>>
  BY DEF DeleteFirst
<1>3. /\ DomType(dom) /\ Good(dom, del) /\ del \in Seq(Nodes) /\ keep \in Ptr \cup {Doc}
      /\ clearing \in BOOLEAN /\ ToSet(stk) \subseteq Live(dom)
      /\ (\A m \in ToSet(stk) : dom.par[m] = Nil) /\ ToSet(stk) \cap ToSet(del) = {}
      /\ (phase # "idle" /\ ~ clearing => ToSet(dom.unlinked) = ToSet(stk))
  BY <1>1, StackFacts
<1>4. p \in Nodes \cup {Doc}
  <2>1. CASE del = <<>>  BY <1>1, <1>3, <2>1 DEF Emptied, Ptr
  <2>2. CASE del # <<>>
    <3>1. Last(del) \in Nodes  BY <1>3, <2>2 DEF Last
    <3>2. QED  BY <2>2, <3>1 DEF Emptied
  <2>3. QED  BY <2>1, <2>2
<1> HIDE DEF p
<1>5. n \in Nodes /\ dom.par[n] = p
  <2>1. Links(dom)  BY <1>3 DEF Good, Shape
  <2>2. Ends(dom, p)  BY <1>4, <2>1, LinksParts
  <2>3. n \in Ptr  BY <1>3, <1>4 DEF DomType
  <2>4. QED  BY <1>1, <2>2, <2>3 DEF Ends, Ptr
<1> HIDE DEF n
<1>6. n \in Live(dom)  BY <1>1, <1>3, <1>5 DEF Good, Shape, FreeClean, Live
<1>7. n \notin ToSet(del) /\ n \notin ToSet(dom.unlinked)  BY <1>1, <1>3, <1>5, <1>6 DEF Good, OneOwner
<1>8. dom' = e  BY <1>1, <1>2, <1>5 DEF DeleteNode
<1>9. /\ DomType(e) /\ Good(e, Append(del, n)) /\ Live(e) = Live(dom)
      /\ e.err = dom.err /\ e.crash = dom.crash
      /\ \A m \in Nodes : e.par[m] = IF m = n THEN Nil ELSE dom.par[m]
      /\ ToSet(e.unlinked) = ToSet(dom.unlinked) \ {n}
  BY <1>3, <1>6, <1>7, DeleteNodeGood
<1> HIDE DEF e
<1>10. ToSet(stk) \subseteq Live(e) /\ \A m \in ToSet(stk) : e.par[m] = Nil
  <2>1. ToSet(stk) \subseteq Nodes  BY <1>3 DEF Live
  <2>2. QED  BY <1>3, <1>9, <2>1
<1>11. phase # "idle" /\ ~ clearing' => ToSet(e.unlinked) = ToSet(stk)  BY <1>2, <1>3, <1>7, <1>9
<1>12. phase = "drop" => DropInv'
  <2>1. phase = "drop" => ~ clearing /\ keep = Doc  BY <1>1 DEF IInv, DropInv, p
  <2>2. QED  BY <1>2, <2>1 DEF DropInv
<1>13. del' \in Seq(Nodes)  BY <1>2, <1>3, <1>5
<1>14. QED  BY <1>1, <1>2, <1>3, <1>8, <1>9, <1>10, <1>11, <1>12, <1>13, DeletionKeeps

LEMMA EndDeleteKeeps == ASSUME IInv, EndDelete PROVE IInv'
<1>1. Emptied # Nil /\ Deleting /\ UNCHANGED <<phase, stk, toks, file, clearing, cl>>
      /\ dom.first[Emptied] = Nil
  BY DEF EndDelete, Deleting
<1>2. /\ DomType(dom) /\ Good(dom, del) /\ del \in Seq(Nodes) /\ keep \in Ptr \cup {Doc}
      /\ clearing \in BOOLEAN /\ ToSet(stk) \subseteq Live(dom)
      /\ (\A m \in ToSet(stk) : dom.par[m] = Nil) /\ ToSet(stk) \cap ToSet(del) = {}
      /\ (phase # "idle" /\ ~ clearing => ToSet(dom.unlinked) = ToSet(stk))
  BY <1>1, StackFacts
<1>3. phase = "drop" => ~ clearing /\ keep = Doc  BY <1>1 DEF IInv, DropInv
<1>4. CASE del = <<>>
  <2>1. keep' = Nil /\ dom' = dom /\ del' = <<>>  BY <1>4 DEF EndDelete
  <2>2. phase = "drop" => DropInv'
    <3>1. phase = "drop" => dom.first[Doc] = Nil  BY <1>1, <1>3, <1>4 DEF Emptied
    <3>2. Emptied' = Nil  BY <2>1 DEF Emptied
    <3>3. QED  BY <1>1, <1>3, <2>1, <3>1, <3>2 DEF DropInv
  <2>3. del' \in Seq(Nodes) /\ keep' \in Ptr \cup {Doc} /\ Good(dom, del')
    BY <1>2, <1>4, <2>1 DEF Ptr
  <2>4. QED  BY <1>1, <1>2, <2>1, <2>2, <2>3, DeletionKeeps
<1>5. CASE del # <<>>
  <2> DEFINE n == Last(del)
             R == Front(del)
             e == Destroy(dom, n)
  <2>1. dom' = e /\ del' = R /\ keep' = keep  BY <1>5 DEF EndDelete
  <2>2. Once(del)  BY <1>2 DEF Good, OneOwner
  <2>3. R \in Seq(Nodes) /\ Once(R) /\ n \in ToSet(del) /\ ToSet(R) = ToSet(del) \ {n} /\ del = Append(R, n)
    BY <1>2, <1>5, <2>2, FrontSet
  <2>4. dom.first[n] = Nil  BY <1>1, <1>5 DEF Emptied
  <2> HIDE DEF n, R
  <2>5. n \in Live(dom) /\ n \in Nodes /\ n \notin ToSet(R) /\ Good(dom, Append(R, n))
        /\ n \notin ToSet(dom.unlinked)
    BY <1>2, <2>3 DEF Good, OneOwner, Live
  <2>6. Good(e, R) /\ Live(e) = Live(dom) \ {n}  BY <1>2, <2>3, <2>4, <2>5, DestroyGood
  <2>7. DomType(e) /\ SamePtrs(dom, e) /\ e.unlinked = dom.unlinked /\ e.err = dom.err
        /\ e.crash = dom.crash
    BY <1>2, <2>5, DestroyIs
  <2> HIDE DEF e
  <2>8. ToSet(stk) \subseteq Live(e) /\ \A m \in ToSet(stk) : e.par[m] = Nil
    BY <1>2, <2>3, <2>6, <2>7 DEF SamePtrs
  <2>9. phase = "drop" => DropInv'  BY <1>1, <1>3, <2>1 DEF DropInv
  <2>10. phase # "idle" /\ ~ clearing' => ToSet(e.unlinked) = ToSet(stk)  BY <1>1, <1>2, <2>7
  <2>11. QED  BY <1>1, <1>2, <2>1, <2>3, <2>6, <2>7, <2>8, <2>9, <2>10, DeletionKeeps
<1>6. QED  BY <1>4, <1>5

LEMMA DeleteUnlinkedKeeps == ASSUME IInv, DeleteUnlinked PROVE IInv'
<1>1. clearing /\ Emptied = Nil /\ Deleting /\ UNCHANGED <<phase, stk, toks, file, keep, cl>>
  BY DEF DeleteUnlinked, Deleting
<1>2. /\ DomType(dom) /\ Good(dom, del) /\ del \in Seq(Nodes) /\ keep \in Ptr \cup {Doc}
      /\ clearing \in BOOLEAN /\ ToSet(stk) \subseteq Live(dom)
      /\ (\A m \in ToSet(stk) : dom.par[m] = Nil) /\ stk = <<>>
  BY <1>1, StackFacts
<1>3. del = <<>>
  <2>1. ASSUME del # <<>> PROVE FALSE
    <3>1. Last(del) \in Nodes  BY <1>2, <2>1 DEF Last
    <3>2. QED  BY <1>1, <2>1, <3>1, NodeNumbers DEF Emptied
  <2>2. QED  BY <2>1
<1>4. phase # "drop"  BY <1>1 DEF IInv, DropInv
<1>5. CASE dom.unlinked = <<>>
  <2>1. clearing' = FALSE /\ dom' = dom /\ del' = del  BY <1>5 DEF DeleteUnlinked
  <2>2. ToSet(dom.unlinked) = ToSet(stk)  BY <1>2, <1>5
  <2>3. Good(dom, del') /\ del' \in Seq(Nodes) /\ keep' \in Ptr \cup {Doc}  BY <1>1, <1>2, <2>1
  <2>4. QED  BY <1>1, <1>2, <1>4, <2>1, <2>2, <2>3, DeletionKeeps
<1>6. CASE dom.unlinked # <<>>
  <2> DEFINE n == dom.unlinked[1]
             e == DeleteNode(dom, n)
             R == <<>>
  <2>1. dom' = e /\ del' = <<n>> /\ clearing' = clearing  BY <1>6 DEF DeleteUnlinked
  <2>2. n \in ToSet(dom.unlinked)
    <3> DEFINE u == dom.unlinked
    <3>1. u \in Seq(Nodes) /\ u # <<>>  BY <1>2, <1>6 DEF DomType
    <3> HIDE DEF u
    <3>2. ToSet(u) = {u[i] : i \in 1 .. Len(u)} /\ 1 \in 1 .. Len(u)  BY <3>1, ToSetIn
    <3>3. QED  BY <3>2 DEF u
  <2> HIDE DEF n
  <2>3. n \in Live(dom) /\ n \in Nodes /\ n \notin ToSet(R) /\ R \in Seq(Nodes) /\ Good(dom, R)
    BY <1>2, <1>3, <2>2, Empty DEF Good, OneOwner, Live
  <2>4. del' = Append(R, n)  BY <2>1, OneRunning
  <2> HIDE DEF R
  <2>5. DomType(e) /\ Good(e, Append(R, n)) /\ e.err = dom.err /\ e.crash = dom.crash
    BY <1>2, <2>3, DeleteNodeGood
  <2> HIDE DEF e
  <2>6. ToSet(stk) = {}  BY <1>2, Empty
  <2>7. del' \in Seq(Nodes)  BY <2>3, <2>4
  <2>8. Good(e, del') /\ clearing' = TRUE /\ keep' \in Ptr \cup {Doc}  BY <1>1, <1>2, <2>1, <2>4, <2>5
  <2>9. QED  BY <1>1, <1>4, <2>1, <2>5, <2>6, <2>7, <2>8, DeletionKeeps
<1>7. QED  BY <1>5, <1>6

-----------------------------------------------------------------------------
(***************************************************************************)
(* DeepClone.                                                              *)
(***************************************************************************)
Cloning ==
    /\ DomType(dom) /\ ~ dom.crash /\ Good(dom, <<>>)
    /\ del = <<>> /\ keep = Nil /\ clearing = FALSE
    /\ phase = "idle" /\ stk = <<>> /\ toks = <<>>
    /\ cl \in Seq(Frames) /\ FramesOK(dom, cl)

LEMMA CloningHolds == Cloning => IInv
<1> SUFFICES ASSUME Cloning PROVE IInv  OBVIOUS
<1> USE DEF Cloning
<1>1. ~ Deleting  BY DEF Deleting, Emptied
<1>2. Alone(dom, <<>>)  BY Empty DEF Alone
<1>3. ParserInv  BY <1>2, Empty DEF ParserInv
<1>4. DropInv /\ CleanInv  BY DEF DropInv, CleanInv, FailureCleansUp, Finished
<1>5. CallInv
  <2>1. del \in Seq(Nodes)  BY Empty
  <2>2. keep \in Ptr \cup {Doc} /\ clearing \in BOOLEAN  BY DEF Ptr
  <2>3. QED  BY <1>1, <2>1, <2>2 DEF CallInv
<1>6. Good(dom, del)  OBVIOUS
<1>7. QED  BY <1>3, <1>4, <1>5, <1>6 DEF IInv

LEMMA CloningIs == ASSUME IInv, cl # <<>> PROVE Cloning
<1>1. CallInv /\ ~ Deleting /\ Busy  BY DEF IInv, CallInv, Busy
<1>2. phase = "idle" /\ stk = <<>> /\ toks = <<>>  BY <1>1 DEF IInv, ParserInv, CleanInv
<1>3. del = <<>> /\ keep = Nil /\ clearing = FALSE
  <2>1. Emptied = Nil /\ clearing = FALSE  BY <1>1 DEF Deleting, CallInv
  <2>2. ASSUME del # <<>> PROVE FALSE
    <3>1. del \in Seq(Nodes)  BY <1>1 DEF CallInv
    <3>2. Last(del) \in Nodes  BY <2>2, <3>1 DEF Last
    <3>3. QED  BY <2>1, <2>2, <3>2, NodeNumbers DEF Emptied
  <2>3. QED  BY <2>1, <2>2 DEF Emptied
<1>4. ~ dom.crash /\ Good(dom, <<>>)  BY <1>1, <1>3 DEF IInv
<1>5. QED  BY <1>1, <1>2, <1>3, <1>4 DEF Cloning, IInv, CallInv

\* A node that has a place is in use.
LEMMA PlacedLive ==
  ASSUME NEW d, Shape(d), NEW m \in Nodes, d.par[m] # Nil PROVE m \in Live(d)
BY DEF Shape, FreeClean, Live

LEMMA FirstLive ==
  ASSUME NEW d, DomType(d), Shape(d), NEW n \in Nodes
  PROVE  d.first[n] \in Ptr /\ (d.first[n] = Nil \/ d.first[n] \in Live(d))
<1>1. d.first[n] \in Ptr /\ Ends(d, n)  BY LinksParts DEF DomType, Shape
<1>2. ASSUME d.first[n] # Nil PROVE d.first[n] \in Live(d)
  <2>1. d.first[n] \in Nodes /\ d.par[d.first[n]] # Nil
    BY <1>1, <1>2, NodeNumbers DEF Ends, Ptr
  <2>2. QED  BY <2>1, PlacedLive
<1>3. QED  BY <1>1, <1>2

LEMMA NextLive ==
  ASSUME NEW d, DomType(d), Shape(d), NEW n \in Nodes
  PROVE  d.next[n] \in Ptr /\ (d.next[n] = Nil \/ d.next[n] \in Live(d))
<1>1. d.next[n] \in Ptr /\ Single(d, n) /\ Right(d, n)  BY LinksParts DEF DomType, Shape
<1>2. ASSUME d.next[n] # Nil PROVE d.next[n] \in Live(d)
  <2>1. d.par[n] # Nil  BY <1>1, <1>2 DEF Single
  <2>2. d.next[n] \in Nodes /\ d.par[d.next[n]] # Nil  BY <1>1, <1>2, <2>1 DEF Right, Ptr
  <2>3. QED  BY <2>2, PlacedLive
<1>3. QED  BY <1>1, <1>2

\* A frame for the new node is put on a stack of calls that wait.
LEMMA FramesGrow ==
  ASSUME NEW d, NEW e, NEW c \in Seq(Frames), FramesOK(d, c), NEW f \in Frames,
         \A i \in 1 .. Len(c) : c[i].from \in Live(d),
         Live(e) = Live(d) \cup {f.to}, f.to \notin Live(d), e.par = d.par, e.par[f.to] = Nil,
         f.from = Nil \/ f.from \in Live(d)
  PROVE  Append(c, f) \in Seq(Frames) /\ FramesOK(e, Append(c, f))
<1> DEFINE k == Len(c)
           b == Append(c, f)
<1>1. b \in Seq(Frames) /\ Len(b) = k + 1 /\ k \in Nat /\ b[k + 1] = f
      /\ \A i \in 1 .. k : b[i] = c[i]
  OBVIOUS
<1> HIDE DEF b, k
<1>2. \A i \in 1 .. k : b[i].from \in Live(d) /\ b[i].to \in Live(d) /\ d.par[b[i].to] = Nil
  BY <1>1 DEF FramesOK, k
<1>3. \A i, j \in 1 .. k : b[i].to = b[j].to => i = j  BY <1>1 DEF FramesOK, k
<1>4. \A i \in 1 .. Len(b) : i \in 1 .. k \/ i = k + 1  BY <1>1
<1>5. \A i \in 1 .. Len(b) : b[i].from \in Live(e) \/ (i = Len(b) /\ b[i].from = Nil)
  BY <1>1, <1>2, <1>4
<1>6. \A i \in 1 .. Len(b) : b[i].to \in Live(e) /\ e.par[b[i].to] = Nil  BY <1>1, <1>2, <1>4
<1>7. \A i, j \in 1 .. Len(b) : b[i].to = b[j].to => i = j
  <2>1. ASSUME NEW i \in 1 .. Len(b), NEW j \in 1 .. Len(b), b[i].to = b[j].to PROVE i = j
    <3>1. CASE i \in 1 .. k /\ j \in 1 .. k  BY <1>3, <2>1, <3>1
    <3>2. CASE i \in 1 .. k /\ j = k + 1  BY <1>1, <1>2, <2>1, <3>2
    <3>3. CASE i = k + 1 /\ j \in 1 .. k  BY <1>1, <1>2, <2>1, <3>3
    <3>4. QED  BY <1>4, <3>1, <3>2, <3>3
  <2>2. QED  BY <2>1
<1>8. QED  BY <1>1, <1>5, <1>6, <1>7 DEF FramesOK, b

LEMMA FrameIs ==
  ASSUME NEW d, DomType(d), Good(d, <<>>), Free(d) # {}, NEW n \in Live(d)
  PROVE  LET e == ShallowClone(d, n)
             f == Frame(d, n) IN
         /\ f \in Frames /\ DomType(e) /\ Good(e, <<>>) /\ Live(e) = Live(d) \cup {f.to}
         /\ f.to \notin Live(d) /\ e.par = d.par /\ e.par[f.to] = Nil /\ e.crash = d.crash
         /\ (f.from = Nil \/ f.from \in Live(d))
<1> DEFINE e == ShallowClone(d, n)
           m == NextFree(d)
           R == <<>>
<1>1. R \in Seq(Nodes) /\ Good(d, R) /\ n \in Nodes  BY DEF Live
<1> HIDE DEF R
<1>2. /\ DomType(e) /\ Good(e, R) /\ Live(e) = Live(d) \cup {m}
      /\ m \in Nodes \ Live(d) /\ e.crash = d.crash /\ e.par = d.par /\ e.par[m] = Nil
  BY <1>1, ShallowCloneGood
<1> HIDE DEF e, m
<1>3. d.first[n] \in Ptr /\ (d.first[n] = Nil \/ d.first[n] \in Live(d))
  BY <1>1, FirstLive DEF Good
<1>4. Frame(d, n) = [from |-> d.first[n], to |-> m]  BY DEF Frame, m
<1>5. QED  BY <1>2, <1>3, <1>4 DEF Frames, e, R

LEMMA CloneChildKeeps == ASSUME IInv, CloneChild PROVE IInv'
<1> DEFINE c == Last(cl).from
           e == ShallowClone(dom, c)
           f == Frame(dom, c)
<1>1. cl # <<>> /\ c # Nil /\ Free(dom) # {} /\ dom' = e /\ cl' = Append(cl, f)
      /\ UNCHANGED <<phase, stk, toks, del, keep, clearing>>
  BY DEF CloneChild
<1>2. Cloning  BY <1>1, CloningIs
<1>3. cl \in Seq(Frames) /\ FramesOK(dom, cl) /\ DomType(dom) /\ Good(dom, <<>>)  BY <1>2 DEF Cloning
<1>4. Len(cl) \in Nat /\ Len(cl) > 0 /\ c = cl[Len(cl)].from  BY <1>1, <1>3 DEF Last
<1> HIDE DEF c
<1>5. \A i \in 1 .. Len(cl) : cl[i].from \in Live(dom)
  <2>1. ASSUME NEW i \in 1 .. Len(cl) PROVE cl[i].from \in Live(dom)
    <3>1. cl[i].from \in Live(dom) \/ (i = Len(cl) /\ cl[i].from = Nil)  BY <1>3 DEF FramesOK
    <3>2. QED  BY <1>1, <1>4, <3>1
  <2>2. QED  BY <2>1
<1>6. c \in Live(dom)  BY <1>4, <1>5
<1>7. /\ f \in Frames /\ DomType(e) /\ Good(e, <<>>) /\ Live(e) = Live(dom) \cup {f.to}
      /\ f.to \notin Live(dom) /\ e.par = dom.par /\ e.par[f.to] = Nil /\ e.crash = dom.crash
      /\ (f.from = Nil \/ f.from \in Live(dom))
  BY <1>1, <1>3, <1>6, FrameIs
<1> HIDE DEF e, f
<1>8. cl' \in Seq(Frames) /\ FramesOK(e, cl')  BY <1>1, <1>3, <1>5, <1>7, FramesGrow
<1>9. Cloning'  BY <1>1, <1>2, <1>7, <1>8 DEF Cloning
<1>10. QED  BY <1>9, CloningHolds, PTL

LEMMA DeepCloneKeeps == ASSUME IInv, NEW n \in Live(dom), DeepClone(n) PROVE IInv'
<1> DEFINE e == ShallowClone(dom, n)
           f == Frame(dom, n)
           B == {m \in Live(dom) : Below(dom, m, n)}
<1>1. /\ MayEdit /\ toks' = <<>> /\ Cardinality(B) <= Cardinality(Free(dom))
      /\ dom' = e /\ cl' = <<f>> /\ UNCHANGED <<phase, stk, del, keep, clearing>>
  BY DEF DeepClone, ACall
<1>2. DomType(dom) /\ Good(dom, <<>>) /\ ~ dom.crash /\ NoCall /\ phase = "idle" /\ stk = <<>>
  BY <1>1, CallsFrom
<1>3. Free(dom) # {}
  <2>1. n \in B  BY DEF Below
  <2>2. B \subseteq Nodes  BY DEF Live
  <2> HIDE DEF B
  <2>3. IsFiniteSet(B)  BY <2>2, NodesFinite, FS_Subset
  <2>4. Cardinality(B) \in Nat /\ Cardinality(B) # 0  BY <2>1, <2>3, FS_CardinalityType, FS_EmptySet
  <2>5. Cardinality({}) = 0  BY FS_EmptySet
  <2>6. Cardinality(B) <= Cardinality(Free(dom))  BY <1>1 DEF B
  <2>7. ASSUME Free(dom) = {} PROVE FALSE
    <3>1. Cardinality(Free(dom)) = 0  BY <2>5, <2>7
    <3>2. QED  BY <2>4, <2>6, <3>1
  <2>8. QED  BY <2>7
<1>4. /\ f \in Frames /\ DomType(e) /\ Good(e, <<>>) /\ Live(e) = Live(dom) \cup {f.to}
      /\ f.to \notin Live(dom) /\ e.par = dom.par /\ e.par[f.to] = Nil /\ e.crash = dom.crash
      /\ (f.from = Nil \/ f.from \in Live(dom))
  BY <1>2, <1>3, FrameIs
<1> HIDE DEF e, f
<1> DEFINE c == <<>>
<1>5. c \in Seq(Frames) /\ Len(c) = 0 /\ cl' = Append(c, f)  BY <1>1, OneRunning
<1> HIDE DEF c
<1>6. FramesOK(dom, c) /\ \A i \in 1 .. Len(c) : c[i].from \in Live(dom)  BY <1>5 DEF FramesOK
<1>7. cl' \in Seq(Frames) /\ FramesOK(e, cl')  BY <1>4, <1>5, <1>6, FramesGrow
<1>8. Cloning'  BY <1>1, <1>2, <1>4, <1>7 DEF Cloning, NoCall
<1>9. QED  BY <1>8, CloningHolds, PTL

LEMMA EndCloneKeeps == ASSUME IInv, EndClone PROVE IInv'
<1>1. cl # <<>> /\ UNCHANGED <<phase, stk, toks, del, keep, clearing>>  BY DEF EndClone
<1>2. Cloning  BY <1>1, CloningIs
<1>3. cl \in Seq(Frames) /\ FramesOK(dom, cl) /\ DomType(dom) /\ Good(dom, <<>>)  BY <1>2 DEF Cloning
<1> DEFINE k == Len(cl)
<1>4. k \in Nat /\ k > 0  BY <1>1, <1>3
<1>5. CASE k = 1
  <2>1. cl' = <<>> /\ dom' = dom  BY <1>5 DEF EndClone
  <2>2. <<>> \in Seq(Frames) /\ FramesOK(dom, <<>>)  BY Empty DEF FramesOK
  <2>3. Cloning'  BY <1>1, <1>2, <2>1, <2>2 DEF Cloning
  <2>4. QED  BY <2>3, CloningHolds, PTL
<1>6. CASE k # 1
  <2>1. k - 1 \in Nat /\ k - 1 > 0 /\ k - 1 \in 1 .. k - 1
    <3> HIDE DEF k
    <3>1. QED  BY <1>4, <1>6
  <2> DEFINE up == Front(cl)
             n == Last(cl).to
             p == Last(up).to
             f == InsertEndChild(dom, p, n)
             x == dom.next[up[Len(up)].from]
             c == [up EXCEPT ![Len(up)].from = x]
             R == <<>>
  <2>2. dom' = f /\ cl' = c  BY <1>6 DEF EndClone
  <2>3. up \in Seq(Frames) /\ Len(up) = k - 1 /\ \A i \in 1 .. k - 1 : up[i] = cl[i]
    <3>1. k - 1 \in Nat /\ k - 1 <= Len(cl) /\ up = SubSeq(cl, 1, k - 1)  BY <1>4 DEF Front
    <3> DEFINE h == k - 1
    <3> HIDE DEF k, h, up
    <3>2. h \in Nat /\ h <= Len(cl) /\ up = SubSeq(cl, 1, h)  BY <3>1 DEF h
    <3>3. Len(SubSeq(cl, 1, h)) = IF 1 <= h THEN h - 1 + 1 ELSE 0  BY <1>3, <3>2
    <3>4. Len(SubSeq(cl, 1, h)) = h  BY <3>2, <3>3
    <3>5. SubSeq(cl, 1, h) \in Seq(Frames)  BY <1>3, <3>2
    <3>6. \A i \in 1 .. h : SubSeq(cl, 1, h)[i] = cl[i]  BY <1>3, <3>2
    <3>7. QED  BY <3>2, <3>4, <3>5, <3>6 DEF h
  <2>4. n = cl[k].to  BY DEF Last
  <2>5. p = cl[k - 1].to /\ x = dom.next[cl[k - 1].from]
    <3>1. k - 1 \in 1 .. k - 1  BY <2>1
    <3>2. Last(up) = up[k - 1]  BY <2>3 DEF Last
    <3>3. QED  BY <2>3, <3>1, <3>2
  <2> HIDE DEF n, p, x
  <2>6. k \in 1 .. k /\ k - 1 \in 1 .. k /\ k - 1 # k  BY <1>4, <1>6
  <2>7. /\ n \in Live(dom) /\ dom.par[n] = Nil /\ p \in Live(dom) /\ dom.par[p] = Nil /\ p # n
        /\ cl[k - 1].from \in Live(dom)
    BY <1>3, <2>4, <2>5, <2>6 DEF FramesOK
  <2>8. x \in Ptr /\ (x = Nil \/ x \in Live(dom))
    <3>1. cl[k - 1].from \in Nodes /\ Shape(dom)  BY <1>3, <2>7 DEF Live, Good
    <3>2. QED  BY <1>3, <2>5, <3>1, NextLive
  <2>9. R \in Seq(Nodes) /\ Good(dom, R) /\ n \notin ToSet(R)  BY <1>3, Empty
  <2> HIDE DEF R
  <2>10. Moved(dom, R, f, p, n)  BY <1>3, <2>7, <2>9, InsertAloneGood
  <2> HIDE DEF f
  <2>11. /\ DomType(f) /\ Good(f, R) /\ Live(f) = Live(dom) /\ f.crash = dom.crash
         /\ \A m \in Nodes : f.par[m] = IF m = n THEN p ELSE dom.par[m]
    BY <2>9, <2>10, MoveGood
  <2>12. /\ c \in Seq(Frames) /\ Len(c) = k - 1
         /\ \A i \in 1 .. k - 1 : c[i].to = cl[i].to /\ c[i].from = IF i = k - 1 THEN x ELSE cl[i].from
    <3> DEFINE h == k - 1
    <3>1. h \in Nat /\ h > 0 /\ h \in 1 .. h  BY <2>1
    <3>2. \A i \in 1 .. h : cl[i] \in Frames
      <4>1. 1 .. h \subseteq 1 .. k  BY <1>4
      <4>2. QED  BY <1>3, <4>1
    <3>3. up \in Seq(Frames) /\ Len(up) = h /\ \A i \in 1 .. h : up[i] = cl[i]  BY <2>3
    <3>4. c = [up EXCEPT ![h] = [up[h] EXCEPT !.from = x]]  BY <3>3
    <3> HIDE DEF up, c, h, k
    <3>5. up[h] \in Frames /\ [up[h] EXCEPT !.from = x] \in Frames
          /\ [up[h] EXCEPT !.from = x].to = up[h].to /\ [up[h] EXCEPT !.from = x].from = x
      BY <2>8, <3>1, <3>2, <3>3 DEF Frames
    <3>6. c \in Seq(Frames) /\ Len(c) = h
          /\ \A i \in 1 .. h : c[i] = IF i = h THEN [up[h] EXCEPT !.from = x] ELSE up[i]
      BY <3>1, <3>3, <3>4, <3>5
    <3>7. \A i \in 1 .. h : c[i].to = cl[i].to /\ c[i].from = IF i = h THEN x ELSE cl[i].from
      BY <3>1, <3>3, <3>5, <3>6
    <3>8. QED  BY <3>6, <3>7 DEF h
  <2> HIDE DEF c, up, k
  <2>13. FramesOK(f, c)
    <3>1. ASSUME NEW i \in 1 .. Len(c)
          PROVE  /\ c[i].from \in Live(f) \/ (i = Len(c) /\ c[i].from = Nil)
                 /\ c[i].to \in Live(f) /\ f.par[c[i].to] = Nil
      <4>1. i \in 1 .. k - 1 /\ i \in 1 .. k /\ i # k  BY <1>4, <2>12
      <4>2. /\ cl[i].from \in Live(dom) /\ cl[i].to \in Live(dom) /\ dom.par[cl[i].to] = Nil
            /\ cl[i].to # n
        BY <1>3, <2>4, <2>6, <4>1 DEF FramesOK, k
      <4>3. cl[i].to \in Nodes  BY <4>2 DEF Live
      <4>4. QED  BY <2>8, <2>11, <2>12, <4>1, <4>2, <4>3
    <3>2. ASSUME NEW i \in 1 .. Len(c), NEW j \in 1 .. Len(c), c[i].to = c[j].to PROVE i = j
      <4>1. i \in 1 .. k - 1 /\ i \in 1 .. k /\ j \in 1 .. k - 1 /\ j \in 1 .. k  BY <1>4, <2>12
      <4>2. QED  BY <1>3, <2>12, <3>2, <4>1 DEF FramesOK, k
    <3>3. QED  BY <3>1, <3>2 DEF FramesOK
  <2>14. Good(f, <<>>)  BY <2>11 DEF R
  <2>15. Cloning'  BY <1>1, <1>2, <2>2, <2>11, <2>12, <2>13, <2>14 DEF Cloning
  <2>16. QED  BY <2>15, CloningHolds, PTL
<1>7. QED  BY <1>5, <1>6

-----------------------------------------------------------------------------
(***************************************************************************)
(* The theorems.                                                           *)
(***************************************************************************)
LEMMA ElementsLive == Elements \subseteq Live(dom)
BY DEF Elements, Live

LEMMA AttrListsAre == ASSUME NEW x \in Names PROVE AttrLists(x) \subseteq Seq(Names)
BY DEF AttrLists

LEMMA StutterKeeps == ASSUME IInv, UNCHANGED vars PROVE IInv'
<1> USE DEF vars
<1>1. /\ ParserInv' = ParserInv /\ DropInv' = DropInv /\ CallInv' = CallInv /\ CleanInv' = CleanInv
  BY DEF ParserInv, DropInv, CallInv, CleanInv, FailureCleansUp, Finished, Busy, Deleting, Emptied
<1>2. Busy' = Busy  BY DEF Busy, Deleting, Emptied
<1>3. QED  BY <1>1, <1>2 DEF IInv

LEMMA StepKeeps == ASSUME IInv, [Next]_vars PROVE IInv'
<1>1. CASE UNCHANGED vars  BY <1>1, StutterKeeps
<1>2. ASSUME NEW f \in BOOLEAN, StartParse(f) PROVE IInv'  BY <1>2, StartParseKeeps
<1>3. ASSUME NEW e \in {"FILE_NOT_FOUND", "FILE_READ_ERROR"}, LoadFails(e) PROVE IInv'
  BY <1>3, LoadFailsKeeps
<1>4. ASSUME NEW k \in Leaves, ParseLeaf(k) PROVE IInv'  BY <1>4, ParseLeafKeeps
<1>5. ASSUME NEW k \in Kinds, ParseBroken(k) PROVE IInv'  BY <1>5, ParseBrokenKeeps
<1>6. ASSUME NEW x \in Names, NEW al \in AttrLists(x), ParseOpen(x, al) PROVE IInv'
  BY <1>6, AttrListsAre, ParseOpenKeeps
<1>7. ASSUME NEW x \in Names, NEW al \in AttrLists(x), ParseEmpty(x, al) PROVE IInv'
  BY <1>7, AttrListsAre, ParseEmptyKeeps
<1>8. ASSUME NEW x \in Names, ParseClose(x) PROVE IInv'  BY <1>8, ParseCloseKeeps
<1>9. CASE ParseEof  BY <1>9, ParseEofKeeps
<1>10. CASE Unwind  BY <1>10, UnwindKeeps
<1>11. CASE DropText  BY <1>11, DropTextKeeps
<1>12. CASE DeleteFirst  BY <1>12, DeleteFirstKeeps
<1>13. CASE EndDelete  BY <1>13, EndDeleteKeeps
<1>14. CASE DeleteUnlinked  BY <1>14, DeleteUnlinkedKeeps
<1>15. CASE CloneChild  BY <1>15, CloneChildKeeps
<1>16. CASE EndClone  BY <1>16, EndCloneKeeps
<1>17. ASSUME NEW x \in Names, NewNode("element", x) PROVE IInv'
  <2>1. "element" \in Kinds  BY DEF Kinds
  <2>2. QED  BY <1>17, <2>1, NewNodeKeeps
<1>18. ASSUME NEW k \in Leaves, NewNode(k, "none") PROVE IInv'
  <2>1. k \in Kinds  BY DEF Kinds
  <2>2. QED  BY <1>18, <2>1, NewNodeKeeps
<1>19. ASSUME NEW p \in Elements \cup {Doc}, NEW n \in Live(dom), InsertEnd(p, n) PROVE IInv'
  BY <1>19, ElementsLive, InsertEndKeeps
<1>20. ASSUME NEW p \in Elements \cup {Doc}, NEW n \in Live(dom), InsertFirst(p, n) PROVE IInv'
  BY <1>20, ElementsLive, InsertFirstKeeps
<1>21. ASSUME NEW a \in Live(dom), NEW n \in Live(dom), InsertAfter(a, n) PROVE IInv'
  BY <1>21, InsertAfterKeeps
<1>22. ASSUME NEW n \in Live(dom), Delete(n) PROVE IInv'  BY <1>22, DeleteKeeps
<1>23. ASSUME NEW p \in Elements \cup {Doc}, DeleteChildren(p) PROVE IInv'
  BY <1>23, ElementsLive, DeleteChildrenKeeps
<1>24. CASE ClearDoc  BY <1>24, ClearDocKeeps
<1>25. ASSUME NEW n \in Elements, EditText(n) PROVE IInv'  BY <1>25, ElementsLive, EditTextKeeps
<1>26. ASSUME NEW n \in Elements, NEW x \in Names, SetAttribute(n, x) \/ RemoveAttribute(n, x)
       PROVE  IInv'
  BY <1>26, ElementsLive, AttributesKeep
<1>27. ASSUME NEW n \in Live(dom), DeepClone(n) PROVE IInv'  BY <1>27, DeepCloneKeeps
<1>28. CASE Next
  <2>1. CASE \/ \E f \in BOOLEAN : StartParse(f)
             \/ \E e \in {"FILE_NOT_FOUND", "FILE_READ_ERROR"} : LoadFails(e)
             \/ \E k \in Leaves : ParseLeaf(k)
             \/ \E k \in Kinds : ParseBroken(k)
             \/ \E x \in Names : \E al \in AttrLists(x) : ParseOpen(x, al)
             \/ \E x \in Names : \E al \in AttrLists(x) : ParseEmpty(x, al)
             \/ \E x \in Names : ParseClose(x)
    BY <2>1, <1>2, <1>3, <1>4, <1>5, <1>6, <1>7, <1>8
  <2>2. CASE \/ ParseEof \/ Unwind \/ DropText
             \/ DeleteFirst \/ EndDelete \/ DeleteUnlinked \/ CloneChild \/ EndClone \/ ClearDoc
    BY <2>2, <1>9, <1>10, <1>11, <1>12, <1>13, <1>14, <1>15, <1>16, <1>24
  <2>3. CASE \/ \E x \in Names : NewNode("element", x)
             \/ \E k \in Leaves : NewNode(k, "none")
             \/ \E p \in Elements \cup {Doc}, n \in Live(dom) : InsertEnd(p, n)
             \/ \E p \in Elements \cup {Doc}, n \in Live(dom) : InsertFirst(p, n)
             \/ \E a, n \in Live(dom) : InsertAfter(a, n)
    BY <2>3, <1>17, <1>18, <1>19, <1>20, <1>21
  <2>4. CASE \/ \E n \in Live(dom) : Delete(n)
             \/ \E p \in Elements \cup {Doc} : DeleteChildren(p)
             \/ \E n \in Elements : EditText(n)
             \/ \E n \in Elements, x \in Names : SetAttribute(n, x)
             \/ \E n \in Elements, x \in Names : RemoveAttribute(n, x)
             \/ \E n \in Live(dom) : DeepClone(n)
    BY <2>4, <1>22, <1>23, <1>25, <1>26, <1>27
  <2>5. QED  BY <1>28, <2>1, <2>2, <2>3, <2>4 DEF Next
<1>29. QED  BY <1>1, <1>28

\* The inductive invariant: the types of the members, the pointers of the nodes,
\* their owners, the pools, and where the parser, Clear and DeepClone are.
THEOREM Invariant == Spec => []IInv
<1>1. Init => IInv  BY InitHolds
<1>2. IInv /\ [Next]_vars => IInv'  BY StepKeeps
<1>3. QED  BY <1>1, <1>2, PTL DEF Spec

\* Parent, sibling and child pointers agree, and siblings are one list, at every
\* moment of InsertEndChild, InsertFirstChild, InsertAfterChild, Unlink, ParseDeep,
\* DeleteChildren and DeepClone, unless InsertAfterChild used its null pointer.
THEOREM LinksAgreeTheorem == Spec => []LinksAgree
<1>1. IInv => LinksAgree  BY DEF IInv, Good, Shape, LinksAgree
<1>2. QED  BY <1>1, Invariant, PTL

\* Every node that is in use has one owner (its parent, _unlinked or the destructor
\* that is running) and is counted once in its MemPool.
THEOREM OwnedOnceTheorem == Spec => []OwnedOnce
<1>1. IInv => OwnedOnce  BY DEF IInv, Good, OwnedOnce
<1>2. QED  BY <1>1, Invariant, PTL

\* Parse of a text with an error leaves no node behind, although it clears the pools
\* and not _unlinked; LoadFile leaves only what is below the document.
THEOREM FailureCleansUpTheorem == Spec => []FailureCleansUp
<1>1. IInv => FailureCleansUp  BY DEF IInv, CleanInv
<1>2. QED  BY <1>1, Invariant, PTL

-----------------------------------------------------------------------------
(***************************************************************************)
(* The verdict of the parser.  The parser has a stack and stops at the     *)
(* first error; WellFormed counts the tags of the whole text.  While the   *)
(* parse goes on, the tokens so far are Accepted: each fits, each start    *)
(* tag has its end tag or waits for it, and the elements that wait are     *)
(* those on the stack, in order and by their names.                        *)
(***************************************************************************)
\* A token that the grammar allows where it is.
TokenOK(u, i) ==
    /\ u[i].t # "broken" /\ ~ Duplicate(u[i].as)
    /\ u[i].t = "declaration" => \A j \in 1 .. i : u[j].t = "declaration"
    /\ Opened(u, i) < MaxDepth - 1

\* The start tag u[i] has its end tag, or waits for it.
Ended(u, i) ==
    \E j \in i + 1 .. Len(u) :
       /\ u[j].t = "close" /\ u[j].n = u[i].n
       /\ Opened(u, j) = Opened(u, i) - 1
       /\ \A m \in i .. j - 1 : Opened(u, m) >= Opened(u, i)
Waits(u, i) == u[i].t = "open" /\ \A m \in i .. Len(u) : Opened(u, m) >= Opened(u, i)

\* The tokens u were accepted, and elements of the names x[1], ..., x[h] are open.
Accepted(u, h, x) ==
    /\ Opened(u, Len(u)) = h
    /\ \A i \in 1 .. Len(u) : TokenOK(u, i) /\ Opened(u, i) >= 0
    /\ \A i \in 1 .. Len(u) : u[i].t = "open" => Ended(u, i) \/ Waits(u, i)
    /\ \A k \in 1 .. h : \E i \in 1 .. Len(u) : Waits(u, i) /\ Opened(u, i) = k /\ u[i].n = x[k]

OnlyDecl(u) == \A i \in 1 .. Len(u) : u[i].t = "declaration"

OpenNames == [k \in 1 .. Len(stk) |-> dom.name[stk[k]]]
OpenInv ==
    /\ del = <<>> /\ keep = Nil
    /\ Accepted(toks, Len(stk), OpenNames)
    /\ \A k \in 1 .. Len(stk) : dom.kind[stk[k]] = "element"
    /\ OnlyDecl(toks) <=> WellLocated(dom)

Tokens == [t : Kinds \cup {"open", "close", "empty", "broken"}, n : Names \cup {"none"}, as : Seq(Names)]
VerdictInv ==
    /\ toks \in Seq(Tokens)
    /\ phase = "parse" => IF clearing THEN toks = <<>> /\ (keep = Doc \/ dom.first[Doc] = Nil) ELSE OpenInv
    /\ phase \in {"fail", "drop"} => dom.err # "none" /\ ~ WellFormed(toks)
    /\ Finished => (dom.err = "none" <=> WellFormed(toks))

-----------------------------------------------------------------------------
(***************************************************************************)
(* What a token more does to the count of open elements.                   *)
(***************************************************************************)
Change(t) == IF t = "open" THEN 1 ELSE IF t = "close" THEN -1 ELSE 0
Of(u, i, t) == {j \in 1 .. i : u[j].t = t}

LEMMA OfFinite == ASSUME NEW u, NEW i \in Nat, NEW t PROVE IsFiniteSet(Of(u, i, t)) /\ Cardinality(Of(u, i, t)) \in Nat
<1>1. IsFiniteSet(1 .. i)  BY FS_Interval
<1>2. Of(u, i, t) \subseteq 1 .. i  BY DEF Of
<1>3. QED  BY <1>1, <1>2, FS_Subset, FS_CardinalityType

LEMMA OfNext ==
  ASSUME NEW u, NEW i \in Nat, NEW t
  PROVE  Cardinality(Of(u, i + 1, t)) = Cardinality(Of(u, i, t)) + IF u[i + 1].t = t THEN 1 ELSE 0
<1>1. IsFiniteSet(Of(u, i, t)) /\ Cardinality(Of(u, i, t)) \in Nat  BY OfFinite
<1>2. CASE u[i + 1].t = t
  <2>1. Of(u, i + 1, t) = Of(u, i, t) \cup {i + 1} /\ i + 1 \notin Of(u, i, t)  BY <1>2 DEF Of
  <2>2. Cardinality(Of(u, i, t) \cup {i + 1}) = Cardinality(Of(u, i, t)) + 1
    BY <1>1, <2>1, FS_AddElement
  <2>3. QED  BY <1>2, <2>1, <2>2
<1>3. CASE u[i + 1].t # t
  <2>1. Of(u, i + 1, t) = Of(u, i, t)  BY <1>3 DEF Of
  <2>2. QED  BY <1>1, <1>3, <2>1
<1>4. QED  BY <1>2, <1>3

LEMMA OpenedIs ==
  ASSUME NEW u, NEW i \in Nat
  PROVE  /\ Opened(u, i) \in Int
         /\ Opened(u, 0) = 0
         /\ Opened(u, i + 1) = Opened(u, i) + Change(u[i + 1].t)
<1>1. \A j : Opened(u, j) = Cardinality(Of(u, j, "open")) - Cardinality(Of(u, j, "close"))
  BY DEF Opened, Of
<1>2. Cardinality(Of(u, i, "open")) \in Nat /\ Cardinality(Of(u, i, "close")) \in Nat  BY OfFinite
<1>3. Of(u, 0, "open") = {} /\ Of(u, 0, "close") = {}  BY DEF Of
<1>4. Cardinality({}) = 0  BY FS_EmptySet
<1>5. Cardinality(Of(u, i + 1, "open")) = Cardinality(Of(u, i, "open")) + IF u[i + 1].t = "open" THEN 1 ELSE 0
  BY OfNext
<1>6. Cardinality(Of(u, i + 1, "close")) = Cardinality(Of(u, i, "close")) + IF u[i + 1].t = "close" THEN 1 ELSE 0
  BY OfNext
<1>7. Opened(u, 0) = 0  BY <1>1, <1>3, <1>4
<1>8. Opened(u, i) \in Int  BY <1>1, <1>2
<1>9. Opened(u, i + 1) = Opened(u, i) + Change(u[i + 1].t)
  <2> DEFINE a == Cardinality(Of(u, i, "open"))
             b == Cardinality(Of(u, i, "close"))
  <2>1. Opened(u, i) = a - b  BY <1>1
  <2>2. Opened(u, i + 1) = Cardinality(Of(u, i + 1, "open")) - Cardinality(Of(u, i + 1, "close"))
    BY <1>1
  <2> HIDE DEF a, b
  <2>3. a \in Nat /\ b \in Nat  BY <1>2 DEF a, b
  <2>4. Opened(u, i + 1) = (a + IF u[i + 1].t = "open" THEN 1 ELSE 0) - (b + IF u[i + 1].t = "close" THEN 1 ELSE 0)
    BY <1>5, <1>6, <2>2 DEF a, b
  <2>5. QED  BY <2>1, <2>3, <2>4 DEF Change
<1>10. QED  BY <1>7, <1>8, <1>9

\* v is u with one token more.
Longer(u, v, tok) ==
    /\ Len(u) \in Nat /\ Len(v) = Len(u) + 1 /\ v[Len(u) + 1] = tok
    /\ \A i \in 1 .. Len(u) : v[i] = u[i]

LEMMA AppendLonger ==
  ASSUME NEW S, NEW u \in Seq(S), NEW tok \in S PROVE Longer(u, Append(u, tok), tok) /\ Append(u, tok) \in Seq(S)
BY DEF Longer

LEMMA LongerOpened ==
  ASSUME NEW u, NEW v, NEW tok, Longer(u, v, tok)
  PROVE  /\ \A i \in 0 .. Len(u) : Opened(v, i) = Opened(u, i)
         /\ Opened(v, Len(u) + 1) = Opened(u, Len(u)) + Change(tok.t)
<1>1. ASSUME NEW i \in 0 .. Len(u) PROVE Opened(v, i) = Opened(u, i)
  <2>1. \A j \in 1 .. i : v[j] = u[j]  BY DEF Longer
  <2>2. {j \in 1 .. i : v[j].t = "open"} = {j \in 1 .. i : u[j].t = "open"}  BY <2>1
  <2>3. {j \in 1 .. i : v[j].t = "close"} = {j \in 1 .. i : u[j].t = "close"}  BY <2>1
  <2>4. QED  BY <2>2, <2>3 DEF Opened
<1>2. Opened(v, Len(u) + 1) = Opened(v, Len(u)) + Change(v[Len(u) + 1].t)  BY OpenedIs DEF Longer
<1>3. Len(u) \in 0 .. Len(u)  BY DEF Longer
<1>4. QED  BY <1>1, <1>2, <1>3 DEF Longer

\* What was said of the tokens of u still holds of them in v.
LEMMA LongerKeeps ==
  ASSUME NEW u, NEW v, NEW tok, Longer(u, v, tok), NEW i \in 1 .. Len(u)
  PROVE  /\ Opened(v, i) = Opened(u, i) /\ Opened(u, i) \in Int
         /\ TokenOK(u, i) => TokenOK(v, i)
         /\ Ended(u, i) => Ended(v, i)
         /\ Waits(u, i) /\ Opened(u, i) <= Opened(v, Len(u) + 1) => Waits(v, i)
<1>1. Len(u) \in Nat /\ Len(v) = Len(u) + 1  BY DEF Longer
<1>2. \A j \in 1 .. Len(u) : v[j] = u[j] /\ Opened(v, j) = Opened(u, j)  BY LongerOpened DEF Longer
<1>3. Opened(v, i) = Opened(u, i) /\ Opened(u, i) \in Int  BY <1>1, <1>2, OpenedIs
<1>4. TokenOK(u, i) => TokenOK(v, i)
  <2>1. \A j \in 1 .. i : v[j] = u[j]  BY <1>1, <1>2
  <2>2. v[i] = u[i]  BY <1>2
  <2>3. QED  BY <1>3, <2>1, <2>2 DEF TokenOK
<1>5. ASSUME Ended(u, i) PROVE Ended(v, i)
  <2>1. PICK j \in i + 1 .. Len(u) :
              /\ u[j].t = "close" /\ u[j].n = u[i].n
              /\ Opened(u, j) = Opened(u, i) - 1
              /\ \A m \in i .. j - 1 : Opened(u, m) >= Opened(u, i)
    BY <1>5 DEF Ended
  <2>2. j \in i + 1 .. Len(v) /\ j \in 1 .. Len(u)  BY <1>1
  <2>3. \A m \in i .. j - 1 : m \in 1 .. Len(u)  BY <1>1
  <2>4. \A m \in i .. j - 1 : Opened(v, m) >= Opened(v, i)  BY <1>2, <1>3, <2>1, <2>3
  <2>5. QED  BY <1>2, <1>3, <2>1, <2>2, <2>4 DEF Ended
<1>6. ASSUME Waits(u, i), Opened(u, i) <= Opened(v, Len(u) + 1) PROVE Waits(v, i)
  <2>1. v[i].t = "open"  BY <1>2, <1>6 DEF Waits
  <2>2. ASSUME NEW m \in i .. Len(v) PROVE Opened(v, m) >= Opened(v, i)
    <3>1. CASE m = Len(u) + 1
      <4>1. Opened(v, Len(u) + 1) \in Int  BY <1>1, OpenedIs
      <4>2. QED  BY <1>3, <1>6, <3>1, <4>1
    <3>2. CASE m # Len(u) + 1
      <4>1. m \in i .. Len(u) /\ m \in 1 .. Len(u)  BY <1>1, <3>2
      <4>2. QED  BY <1>2, <1>3, <1>6, <4>1 DEF Waits
    <3>3. QED  BY <3>1, <3>2
  <2>3. QED  BY <2>1, <2>2 DEF Waits
<1>7. QED  BY <1>3, <1>4, <1>5, <1>6

\* An element that waits is the only one that waits at its level.
LEMMA WaitsAlone ==
  ASSUME NEW u, Len(u) \in Nat, NEW i \in 1 .. Len(u), NEW j \in 1 .. Len(u),
         Waits(u, i), Waits(u, j), Opened(u, i) = Opened(u, j), i < j
  PROVE  FALSE
<1>1. j - 1 \in Nat /\ j - 1 \in i .. Len(u)  OBVIOUS
<1>2. Opened(u, j - 1) \in Int /\ Opened(u, (j - 1) + 1) = Opened(u, j - 1) + Change(u[(j - 1) + 1].t)
  BY <1>1, OpenedIs
<1>3. (j - 1) + 1 = j  OBVIOUS
<1>4. Opened(u, j) = Opened(u, j - 1) + 1  BY <1>2, <1>3 DEF Waits, Change
<1>5. Opened(u, j - 1) >= Opened(u, i)  BY <1>1 DEF Waits
<1>6. QED  BY <1>2, <1>4, <1>5

\* A token that fits: g elements are open after it.
LEMMA AcceptMore ==
  ASSUME NEW u, NEW v, NEW tok, Longer(u, v, tok), NEW h \in Nat, NEW x, Accepted(u, h, x),
         NEW g \in Nat, g = h + Change(tok.t), NEW y,
         tok.t # "broken", ~ Duplicate(tok.as), tok.t = "declaration" => OnlyDecl(u),
         g < MaxDepth - 1,
         \A k \in 1 .. h : k <= g => y[k] = x[k],
         tok.t = "open" => y[g] = tok.n,
         tok.t = "close" => tok.n = x[h]
  PROVE  Accepted(v, g, y)
<1> DEFINE l == Len(u) + 1
<1>1. Len(u) \in Nat /\ l \in Nat /\ Len(v) = l /\ v[l] = tok /\ Opened(u, Len(u)) = h
      /\ \A i \in 1 .. Len(u) : v[i] = u[i]
  BY DEF Longer, Accepted
<1>2. Opened(v, l) = g  BY <1>1, LongerOpened
<1>s. \A i \in 1 .. l : i \in 1 .. Len(u) \/ i = l  BY <1>1
<1>t. l \in 1 .. l  BY <1>1
<1> HIDE DEF l
<1>3. ASSUME NEW i \in 1 .. l PROVE TokenOK(v, i) /\ Opened(v, i) >= 0
  <2>1. CASE i \in 1 .. Len(u)  BY <2>1, LongerKeeps DEF Accepted
  <2>2. CASE i = l
    <3>1. tok.t = "declaration" => \A j \in 1 .. l : v[j].t = "declaration"
      BY <1>1, <1>s DEF OnlyDecl
    <3>2. QED  BY <1>1, <1>2, <2>2, <3>1 DEF TokenOK
  <2>3. QED  BY <1>s, <2>1, <2>2
<1>4. ASSUME NEW i \in 1 .. l, v[i].t = "open" PROVE Ended(v, i) \/ Waits(v, i)
  <2>1. CASE i = l
    <3>1. \A m \in i .. Len(v) : m = i  BY <1>1, <2>1
    <3>2. QED  BY <1>1, <1>2, <1>4, <2>1, <3>1 DEF Waits
  <2>2. CASE i \in 1 .. Len(u)
    <3>1. u[i].t = "open"  BY <1>1, <1>4, <2>2
    <3>2. CASE Ended(u, i)  BY <2>2, <3>2, LongerKeeps
    <3>3. CASE Waits(u, i)
      <4>1. Len(u) \in i .. Len(u)  BY <1>1, <2>2
      <4>2. Opened(u, i) <= h /\ Opened(u, i) \in Int /\ Opened(v, i) = Opened(u, i)
        BY <1>1, <2>2, <3>3, <4>1, LongerKeeps DEF Waits
      <4>3. CASE Opened(u, i) <= g
        BY <1>1, <1>2, <2>2, <3>3, <4>3, LongerKeeps DEF l
      <4>4. CASE ~ (Opened(u, i) <= g)
        <5>1. Opened(u, i) = h /\ tok.t = "close" /\ g = h - 1 /\ h \in 1 .. h
          BY <4>2, <4>4 DEF Change
        <5>2. PICK j \in 1 .. Len(u) : Waits(u, j) /\ Opened(u, j) = h /\ u[j].n = x[h]
          BY <5>1 DEF Accepted
        <5>3. i = j
          <6>1. ~ (i < j) /\ ~ (j < i)  BY <1>1, <2>2, <3>3, <5>1, <5>2, WaitsAlone
          <6>2. QED  BY <1>1, <2>2, <6>1
        <5>4. l \in i + 1 .. Len(v)  BY <1>1, <2>2 DEF l
        <5>5. v[l].t = "close" /\ v[l].n = v[i].n  BY <1>1, <2>2, <5>1, <5>2, <5>3
        <5>6. Opened(v, l) = Opened(v, i) - 1  BY <1>2, <4>2, <5>1
        <5>7. ASSUME NEW m \in i .. l - 1 PROVE Opened(v, m) >= Opened(v, i)
          <6>1. m \in i .. Len(u) /\ m \in 1 .. Len(u)  BY <1>1, <2>2 DEF l
          <6>2. Opened(v, m) = Opened(u, m)  BY <6>1, LongerKeeps
          <6>3. QED  BY <3>3, <4>2, <6>1, <6>2 DEF Waits
        <5>8. QED  BY <5>4, <5>5, <5>6, <5>7 DEF Ended
      <4>5. QED  BY <4>3, <4>4
    <3>4. QED  BY <2>2, <3>1, <3>2, <3>3 DEF Accepted
  <2>3. QED  BY <1>s, <2>1, <2>2
<1>5. ASSUME NEW k \in 1 .. g
      PROVE  \E i \in 1 .. l : Waits(v, i) /\ Opened(v, i) = k /\ v[i].n = y[k]
  <2>1. CASE k <= h
    <3>1. k \in 1 .. h /\ y[k] = x[k]  BY <2>1
    <3>2. PICK i \in 1 .. Len(u) : Waits(u, i) /\ Opened(u, i) = k /\ u[i].n = x[k]
      BY <3>1 DEF Accepted
    <3>3. Opened(u, i) <= Opened(v, Len(u) + 1)  BY <1>2, <3>2 DEF l
    <3>4. Waits(v, i) /\ Opened(v, i) = k  BY <3>2, <3>3, LongerKeeps
    <3>5. i \in 1 .. l /\ v[i].n = y[k]  BY <1>1, <3>1, <3>2 DEF l
    <3>6. QED  BY <3>4, <3>5
  <2>2. CASE ~ (k <= h)
    <3>1. k = g /\ tok.t = "open"  BY <2>2 DEF Change
    <3>2. \A m \in l .. Len(v) : m = l  BY <1>1
    <3>3. Waits(v, l)  BY <1>1, <1>2, <3>1, <3>2 DEF Waits
    <3>4. QED  BY <1>1, <1>2, <1>t, <3>1, <3>3
  <2>3. QED  BY <2>1, <2>2
<1>6. QED  BY <1>1, <1>2, <1>3, <1>4, <1>5 DEF Accepted

\* What a text must be, in the words of the definitions above.
Grammar(u) ==
    /\ Opened(u, Len(u)) = 0
    /\ \A i \in 1 .. Len(u) : TokenOK(u, i) /\ (u[i].t = "open" => Ended(u, i))

LEMMA WellFormedIs == ASSUME NEW ts PROVE WellFormed(ts) <=> ts # <<>> /\ Grammar(Counted(ts))
BY DEF WellFormed, Grammar, TokenOK, Ended

LEMMA AllCounted ==
  ASSUME NEW u, \A i \in 1 .. Len(u) : Opened(u, i) \in Int /\ Opened(u, i) >= 0 PROVE Counted(u) = u
<1>1. Stray(u) = {}  BY DEF Stray
<1>2. QED  BY <1>1 DEF Counted

LEMMA AcceptedCounted ==
  ASSUME NEW u, Len(u) \in Nat, NEW h \in Nat, NEW x, Accepted(u, h, x) PROVE Counted(u) = u
<1>1. \A i \in 1 .. Len(u) : Opened(u, i) \in Int /\ Opened(u, i) >= 0  BY OpenedIs DEF Accepted
<1>2. QED  BY <1>1, AllCounted

\* At the end of a text nothing may be open.
LEMMA AcceptedEnd ==
  ASSUME NEW u, Len(u) \in Nat, NEW h \in Nat, NEW x, Accepted(u, h, x)
  PROVE  Grammar(u) <=> h = 0
<1>1. ASSUME h = 0, NEW i \in 1 .. Len(u), u[i].t = "open" PROVE Ended(u, i)
  <2>1. ASSUME Waits(u, i) PROVE FALSE
    <3>1. Len(u) \in i .. Len(u)  OBVIOUS
    <3>2. 0 >= Opened(u, i)  BY <1>1, <2>1, <3>1 DEF Waits, Accepted
    <3>3. i - 1 \in Nat /\ (i - 1) + 1 = i  OBVIOUS
    <3>4. Opened(u, i - 1) \in Int /\ Opened(u, 0) = 0 /\ Opened(u, (i - 1) + 1) = Opened(u, i - 1) + Change(u[(i - 1) + 1].t)
      BY <3>3, OpenedIs
    <3>5. Opened(u, i - 1) >= 0
      <4>1. CASE i = 1  BY <3>4, <4>1
      <4>2. CASE i # 1
        <5>1. i - 1 \in 1 .. Len(u)  BY <4>2
        <5>2. QED  BY <5>1 DEF Accepted
      <4>3. QED  BY <4>1, <4>2
    <3>6. Opened(u, i) = Opened(u, i - 1) + 1  BY <1>1, <3>3, <3>4 DEF Change
    <3>7. QED  BY <3>2, <3>4, <3>5, <3>6
  <2>2. QED  BY <1>1, <2>1 DEF Accepted
<1>2. QED  BY <1>1 DEF Accepted, Grammar

\* A token that does not fit.
Misfit(u, h, x, tok) ==
    /\ h + Change(tok.t) >= 0
    /\ \/ tok.t = "broken" \/ Duplicate(tok.as)
       \/ tok.t = "declaration" /\ ~ OnlyDecl(u)
       \/ h + Change(tok.t) >= MaxDepth - 1
       \/ tok.t = "close" /\ tok.n # x[h]

LEMMA RejectToken ==
  ASSUME NEW u, NEW v, NEW tok, Longer(u, v, tok), NEW h \in Nat, NEW x, Accepted(u, h, x),
         Misfit(u, h, x, tok)
  PROVE  ~ WellFormed(v)
<1> DEFINE l == Len(u) + 1
<1>1. Len(u) \in Nat /\ l \in Nat /\ Len(v) = l /\ v[l] = tok /\ Opened(u, Len(u)) = h
      /\ \A i \in 1 .. Len(u) : v[i] = u[i]
  BY DEF Longer, Accepted
<1>2. Opened(v, l) = h + Change(tok.t)  BY <1>1, LongerOpened
<1>s. \A i \in 1 .. l : i \in 1 .. Len(u) \/ i = l  BY <1>1
<1>t. l \in 1 .. l  BY <1>1
<1>u. l = Len(u) + 1  OBVIOUS
<1> HIDE DEF l
<1>3. Counted(v) = v
  <2>1. ASSUME NEW i \in 1 .. l PROVE Opened(v, i) \in Int /\ Opened(v, i) >= 0
    <3>1. CASE i \in 1 .. Len(u)  BY <3>1, LongerKeeps DEF Accepted
    <3>2. CASE i = l  BY <1>1, <1>2, <3>2, OpenedIs DEF Misfit
    <3>3. QED  BY <1>s, <3>1, <3>2
  <2>2. QED  BY <1>1, <2>1, AllCounted
<1>4. SUFFICES ASSUME Grammar(v) PROVE FALSE  BY <1>3, WellFormedIs
<1>5. TokenOK(v, l)  BY <1>1, <1>4, <1>t DEF Grammar
<1>6. tok.t # "broken" /\ ~ Duplicate(tok.as)  BY <1>1, <1>5 DEF TokenOK
<1>7. ~ (h + Change(tok.t) >= MaxDepth - 1)
  BY <1>2, <1>5, NodesAssumption DEF TokenOK, Change
<1>8. tok.t = "declaration" => OnlyDecl(u)
  <2>1. \A j \in 1 .. Len(u) : j \in 1 .. l  BY <1>1, <1>u
  <2>2. QED  BY <1>1, <1>5, <2>1 DEF TokenOK, OnlyDecl
<1>9. tok.t = "close" /\ tok.n # x[h]  BY <1>6, <1>7, <1>8 DEF Misfit
<1>10. h \in 1 .. h  BY <1>9 DEF Misfit, Change
<1>11. PICK i \in 1 .. Len(u) : Waits(u, i) /\ Opened(u, i) = h /\ u[i].n = x[h]  BY <1>10 DEF Accepted
<1>12. v[i] = u[i] /\ i \in 1 .. l /\ Opened(v, i) = h  BY <1>1, <1>11, <1>u, LongerKeeps
<1>13. Ended(v, i)  BY <1>1, <1>4, <1>11, <1>12 DEF Grammar, Waits
<1>14. PICK j \in i + 1 .. Len(v) : v[j].t = "close" /\ v[j].n = v[i].n /\ Opened(v, j) = Opened(v, i) - 1
  BY <1>13 DEF Ended
<1>15. CASE j = l  BY <1>1, <1>9, <1>11, <1>12, <1>14, <1>15
<1>16. CASE j # l
  <2>1. j \in i .. Len(u) /\ j \in 1 .. Len(u)  BY <1>1, <1>16, <1>u
  <2>2. Opened(u, j) >= h /\ Opened(v, j) = Opened(u, j)  BY <1>11, <2>1, LongerKeeps DEF Waits
  <2>3. QED  BY <1>12, <1>14, <2>2
<1>17. QED  BY <1>15, <1>16

\* An end tag that ends nothing is the end of the text.
LEMMA StrayEnd ==
  ASSUME NEW S, NEW u \in Seq(S), NEW tok \in S, tok.t = "close", NEW x, Accepted(u, 0, x)
  PROVE  WellFormed(Append(u, tok))
<1> DEFINE v == Append(u, tok)
           l == Len(u) + 1
<1>1. Longer(u, v, tok) /\ v \in Seq(S)  BY AppendLonger
<1>2. Len(u) \in Nat /\ Len(v) = l /\ v # <<>> /\ SubSeq(v, 1, Len(u)) = u  OBVIOUS
<1> HIDE DEF v
<1>3. Opened(u, Len(u)) = 0  BY DEF Accepted
<1>4. Opened(v, l) = -1  BY <1>1, <1>3, LongerOpened DEF Change
<1>5. \A i \in 1 .. Len(u) : Opened(v, i) >= 0  BY <1>1, LongerKeeps DEF Accepted
<1>6. Stray(v) = {l}
  <2>1. \A i \in 1 .. l : i = l \/ i \in 1 .. Len(u)  BY <1>2
  <2>2. l \in 1 .. l  BY <1>2
  <2>3. \A i \in 1 .. Len(u) : Opened(v, i) \in Int  BY <1>2, OpenedIs
  <2> HIDE DEF l
  <2>4. \A i \in 1 .. l : Opened(v, i) < 0 <=> i = l  BY <1>4, <1>5, <2>1, <2>3
  <2>5. QED  BY <1>2, <2>2, <2>4 DEF Stray
<1>7. Counted(v) = u
  <2>1. (CHOOSE i \in Stray(v) : \A j \in Stray(v) : i <= j) = l  BY <1>2, <1>6
  <2>2. Counted(v) = SubSeq(v, 1, l - 1)  BY <1>6, <2>1 DEF Counted
  <2>3. l - 1 = Len(u)  BY <1>2
  <2>4. QED  BY <1>2, <2>2, <2>3
<1>8. Grammar(u)  BY <1>2, AcceptedEnd
<1>9. QED  BY <1>2, <1>7, <1>8, WellFormedIs DEF v

-----------------------------------------------------------------------------
(***************************************************************************)
(* What the methods of the parser do to the names and kinds.               *)
(***************************************************************************)
SameNames(c, d) == \A m \in Live(c) : d.name[m] = c.name[m] /\ d.kind[m] = c.kind[m]

LEMMA CreateNames ==
  ASSUME NEW d, DomType(d), Free(d) # {}, NEW k \in Kinds, NEW x \in Names \cup {"none"}
  PROVE  LET e == Create(d, k, x)
             n == NextFree(d) IN
         SameNames(d, e) /\ e.name[n] = x /\ e.kind[n] = k
<1> DEFINE n == NextFree(d)
<1>1. n \in Nodes /\ n \notin Live(d)  BY DEF NextFree, Free
<1>2. Create(d, k, x) = [d EXCEPT !.kind[n] = k, !.name[n] = x, !.allocs[Pool(k)] = @ + 1,
                                  !.unlinked = Append(@, n)]
  BY DEF Create
<1> HIDE DEF n
<1>3. /\ Create(d, k, x).kind = [d.kind EXCEPT ![n] = k]
      /\ Create(d, k, x).name = [d.name EXCEPT ![n] = x]
  BY <1>2 DEF DomType
<1>4. \A m \in Live(d) : m \in Nodes /\ m # n  BY <1>1 DEF Live
<1>5. QED  BY <1>1, <1>3, <1>4 DEF DomType, SameNames, n

LEMMA AttributesNames ==
  ASSUME NEW d, DomType(d), NEW n, NEW al
  PROVE  WithAttributes(d, n, al).name = d.name /\ WithAttributes(d, n, al).kind = d.kind
BY DEF WithAttributes, DomType

LEMMA DestroyNames ==
  ASSUME NEW d, DomType(d), NEW n \in Nodes, NEW m \in Nodes, m # n
  PROVE  LET e == Destroy(d, n) IN e.name[m] = d.name[m] /\ e.kind[m] = d.kind[m]
<1> DEFINE e == Destroy(d, n)
<1>1. e.name = [d.name EXCEPT ![n] = "none"] /\ e.kind = [d.kind EXCEPT ![n] = "free"]
  BY DEF Destroy, DomType
<1> HIDE DEF e
<1>2. QED  BY <1>1 DEF DomType, e

LEMMA DropNames ==
  ASSUME NEW c, NEW d, NEW n, Fresh(c, d, n), SameNames(c, d)
  PROVE  SameNames(c, DeleteLeaf(d, n))
<1> DEFINE b == MarkInUse(d, n)
<1>1. DomType(d) /\ n \in Nodes /\ \A m \in Live(c) : m \in Nodes /\ m # n  BY DEF Fresh, Live
<1>2. DomType(b) /\ SameStock(d, b) /\ DeleteLeaf(d, n) = Destroy(b, n)
  BY <1>1, MarkInUseType DEF DeleteLeaf
<1> HIDE DEF b
<1>3. \A m \in Live(c) : Destroy(b, n).name[m] = b.name[m] /\ Destroy(b, n).kind[m] = b.kind[m]
  BY <1>1, <1>2, DestroyNames
<1>4. QED  BY <1>2, <1>3 DEF SameNames, SameStock

LEMMA IdentifyNames ==
  ASSUME IInv, NEW tok, Token(tok), NEW k \in Kinds, NEW x \in Names \cup {"none"}
  PROVE  LET d == Create(dom, k, x)
             n == NextFree(dom) IN
         /\ SameNames(dom, d) /\ d.name[n] = x /\ d.kind[n] = k
         /\ \A al : LET w == WithAttributes(d, n, al) IN
              SameNames(dom, w) /\ w.name[n] = x /\ w.kind[n] = k
<1> DEFINE d == Create(dom, k, x)
           n == NextFree(dom)
<1>1. DomType(dom) /\ Free(dom) # {}  BY TokenFrom DEF Reading
<1>2. DomType(d)  BY <1>1, CreateIs
<1>3. SameNames(dom, d) /\ d.name[n] = x /\ d.kind[n] = k  BY <1>1, CreateNames
<1> HIDE DEF d, n
<1>4. \A al : WithAttributes(d, n, al).name = d.name /\ WithAttributes(d, n, al).kind = d.kind
  BY <1>2, AttributesNames
<1>5. QED  BY <1>3, <1>4 DEF d, n, SameNames

-----------------------------------------------------------------------------
(***************************************************************************)
(* A token keeps the invariant.                                            *)
(***************************************************************************)
LEMMA TokenStart ==
  ASSUME IInv, VerdictInv, NEW tok \in Tokens, Token(tok)
  PROVE  /\ OpenInv /\ toks \in Seq(Tokens) /\ toks' \in Seq(Tokens) /\ toks' = Append(toks, tok)
         /\ Longer(toks, toks', tok) /\ Len(stk) \in Nat
         /\ Accepted(toks, Len(stk), OpenNames)
         /\ keep' = Nil /\ clearing' = FALSE /\ cl' = <<>>
<1>1. Reading /\ phase = "parse"  BY TokenFrom
<1>2. NoCall /\ stk \in Seq(Nodes)  BY <1>1 DEF Reading
<1>3. OpenInv /\ toks \in Seq(Tokens)  BY <1>1, <1>2 DEF VerdictInv, NoCall
<1>4. toks' = Append(toks, tok) /\ UNCHANGED <<keep, clearing, cl>>  BY DEF Token
<1>5. QED  BY <1>2, <1>3, <1>4, AppendLonger, LenNat DEF OpenInv, NoCall

LEMMA AcceptedDepth ==
  ASSUME NEW u, Len(u) \in Nat, NEW h \in Nat, NEW x, Accepted(u, h, x) PROVE h < MaxDepth - 1
<1>1. CASE Len(u) = 0
  <2>1. Opened(u, 0) = 0  BY OpenedIs
  <2>2. h = 0  BY <1>1, <2>1 DEF Accepted
  <2>3. QED  BY <2>2, NodesAssumption
<1>2. CASE Len(u) # 0
  <2>1. Len(u) \in 1 .. Len(u)  BY <1>2
  <2>2. QED  BY <2>1 DEF Accepted, TokenOK
<1>3. QED  BY <1>1, <1>2

LEMMA TokenFails ==
  ASSUME IInv, VerdictInv, NEW tok \in Tokens, Token(tok), phase' = "fail", dom'.err # "none",
         Misfit(toks, Len(stk), OpenNames, tok)
  PROVE  VerdictInv'
<1> DEFINE h == Len(stk)
           x == OpenNames
<1>1. /\ toks' \in Seq(Tokens) /\ Longer(toks, toks', tok) /\ h \in Nat /\ Accepted(toks, h, x)
  BY TokenStart
<1>2. ~ WellFormed(toks')
  <2>1. Misfit(toks, h, x, tok)  OBVIOUS
  <2> HIDE DEF h, x
  <2>2. QED  BY <1>1, <2>1, RejectToken
<1>3. QED  BY <1>1, <1>2 DEF VerdictInv, Finished

LEMMA TokenGoesOn ==
  ASSUME IInv, VerdictInv, NEW tok \in Tokens, Token(tok), phase' = "parse", del' = del,
         NEW g \in Nat, g = Len(stk) + Change(tok.t), Len(stk') = g,
         tok.t # "broken", ~ Duplicate(tok.as), tok.t = "declaration" => OnlyDecl(toks),
         g < MaxDepth - 1,
         \A k \in 1 .. Len(stk) : k <= g => dom'.name[stk'[k]] = dom.name[stk[k]],
         tok.t = "open" => dom'.name[stk'[g]] = tok.n,
         tok.t = "close" => tok.n = dom.name[stk[Len(stk)]],
         \A k \in 1 .. g : dom'.kind[stk'[k]] = "element",
         WellLocated(dom)' <=> OnlyDecl(toks) /\ tok.t = "declaration"
  PROVE  VerdictInv'
<1> DEFINE h == Len(stk)
           x == OpenNames
           y == OpenNames'
<1>1. /\ toks' \in Seq(Tokens) /\ Longer(toks, toks', tok) /\ h \in Nat /\ Accepted(toks, h, x)
      /\ keep' = Nil /\ clearing' = FALSE /\ del = <<>>
  BY TokenStart DEF OpenInv
<1>2. /\ g = h + Change(tok.t)
      /\ \A k \in 1 .. h : k <= g => y[k] = x[k]
      /\ tok.t = "open" => y[g] = tok.n
      /\ tok.t = "close" => tok.n = x[h]
  <2>1. y = [k \in 1 .. g |-> dom'.name[stk'[k]]] /\ x = [k \in 1 .. h |-> dom.name[stk[k]]]
    BY DEF OpenNames
  <2>2. g = h + Change(tok.t)  OBVIOUS
  <2>3. ASSUME NEW k \in 1 .. h, k <= g PROVE y[k] = x[k]
    <3>1. k \in 1 .. g  BY <1>1, <2>3
    <3>2. dom'.name[stk'[k]] = dom.name[stk[k]]  BY <2>3
    <3> HIDE DEF x, y, h
    <3>3. QED  BY <2>1, <3>1, <3>2
  <2>4. ASSUME tok.t = "open" PROVE y[g] = tok.n
    <3>1. g \in 1 .. g  BY <1>1, <2>2, <2>4 DEF Change
    <3>2. dom'.name[stk'[g]] = tok.n  BY <2>4
    <3> HIDE DEF x, y, h
    <3>3. QED  BY <2>1, <3>1, <3>2
  <2>5. ASSUME tok.t = "close" PROVE tok.n = x[h]
    <3>1. h \in 1 .. h
      <4> HIDE DEF h
      <4>1. QED  BY <1>1, <2>2, <2>5 DEF Change
    <3>2. tok.n = dom.name[stk[h]]  BY <2>5
    <3> HIDE DEF x, y, h
    <3>3. QED  BY <2>1, <3>1, <3>2
  <2>6. QED  BY <2>2, <2>3, <2>4, <2>5
<1>3. OnlyDecl(toks)' <=> OnlyDecl(toks) /\ tok.t = "declaration"
  <2> DEFINE u == toks
             v == toks'
  <2>1. Len(u) \in Nat /\ Len(v) = Len(u) + 1 /\ v[Len(u) + 1] = tok /\ \A i \in 1 .. Len(u) : v[i] = u[i]
    BY <1>1 DEF Longer
  <2> SUFFICES OnlyDecl(v) <=> OnlyDecl(u) /\ tok.t = "declaration"  BY DEF OnlyDecl
  <2> HIDE DEF u, v
  <2>2. QED  BY <2>1 DEF OnlyDecl
<1>4. Accepted(toks', g, y)
  <2> HIDE DEF h, x, y
  <2>1. QED  BY <1>1, <1>2, AcceptMore
<1>5. Accepted(toks, Len(stk), OpenNames)'  BY <1>4 DEF Accepted, Ended, Waits, TokenOK
<1>6. OpenInv'  BY <1>1, <1>3, <1>5 DEF OpenInv
<1>7. QED  BY <1>1, <1>6 DEF VerdictInv, Finished

\* The nodes of the stack keep their names and kinds.
LEMMA StackNames ==
  ASSUME IInv, NEW tok, Token(tok), NEW d, SameNames(dom, d), NEW k \in 1 .. Len(stk)
  PROVE  /\ stk[k] \in ToSet(stk) /\ stk[k] \in Live(dom)
         /\ d.name[stk[k]] = dom.name[stk[k]] /\ d.kind[stk[k]] = dom.kind[stk[k]]
<1>1. stk \in Seq(Nodes) /\ \A m \in ToSet(stk) : m \in Live(dom)  BY TokenFrom
<1>2. stk[k] \in ToSet(stk)  BY <1>1, ToSetIn
<1>3. QED  BY <1>1, <1>2 DEF SameNames

\* Only nodes in use have a parent.
LEMMA ChildLive ==
  ASSUME NEW d, NEW R, Good(d, R), NEW m \in Nodes, d.par[m] # Nil PROVE m \in Live(d)
BY DEF Good, Shape, FreeClean, Live

\* A complete node that has no end tag becomes the last child of the innermost
\* open element.
LEMMA AttachVerdict ==
  ASSUME IInv, VerdictInv, NEW tok \in Tokens, Token(tok), NEW d, NEW n, Fresh(dom, d, n),
         SameNames(dom, d), dom' = InsertEndChild(d, Top, n), UNCHANGED <<phase, stk, del>>,
         Change(tok.t) = 0, tok.t # "open", tok.t # "close", tok.t # "broken", ~ Duplicate(tok.as),
         tok.t = "declaration" => OnlyDecl(toks),
         tok.t = "declaration" <=> d.kind[n] = "declaration"
  PROVE  VerdictInv'
<1> DEFINE f == InsertEndChild(d, Top, n)
           R == <<>>
           g == Len(stk)
<1>1. Reading /\ phase = "parse" /\ Good(dom, <<>>)  BY TokenFrom DEF Reading
<1>2. Top \in Live(dom) \cup {Doc}  BY <1>1, TopIs
<1>3. /\ DomType(d) /\ Good(d, R) /\ n \in Live(d) /\ n \notin ToSet(R) /\ R \in Seq(Nodes)
      /\ Top \in Live(d) \cup {Doc} /\ Top # n /\ d.first[n] = Nil
  BY <1>2, Empty, NodeNumbers DEF Fresh
<1> HIDE DEF R
<1>4. Moved(d, R, f, Top, n)  BY <1>3, InsertNewGood
<1> HIDE DEF f
<1>5. f.kind = d.kind /\ f.name = d.name /\ \A m \in Nodes : f.par[m] = IF m = n THEN Top ELSE d.par[m]
  BY <1>4 DEF Moved, SameStock
<1>6. /\ OpenInv /\ toks \in Seq(Tokens) /\ g \in Nat /\ Accepted(toks, g, OpenNames)  BY TokenStart
<1>7. g < MaxDepth - 1  BY <1>6, AcceptedDepth, LenNat
<1>8. dom' = f /\ phase' = "parse" /\ del' = del /\ stk' = stk  BY <1>1 DEF f
<1>9. SameNames(dom, f)  BY <1>5 DEF SameNames
<1>10. \A k \in 1 .. g : f.name[stk'[k]] = dom.name[stk[k]] /\ f.kind[stk'[k]] = "element"
  BY <1>6, <1>8, <1>9, StackNames DEF OpenInv
<1>11. WellLocated(dom)' <=> OnlyDecl(toks) /\ tok.t = "declaration"
  <2>1. OnlyDecl(toks) <=> WellLocated(dom)  BY <1>6 DEF OpenInv
  <2>2. CASE stk # <<>>  BY <1>8, <2>1, <2>2 DEF WellLocated
  <2>3. CASE stk = <<>>
    <3>1. Top = Doc  BY <2>3 DEF Top
    <3>2. n \in Nodes /\ f.par[n] = Doc /\ n \notin Live(dom)  BY <1>5, <3>1 DEF Fresh
    <3>3. \A m \in Nodes : m # n => f.par[m] = dom.par[m]  BY <1>5 DEF Fresh
    <3>4. \A m \in Nodes : dom.par[m] = Doc => m \in Live(dom) /\ m # n /\ f.kind[m] = dom.kind[m]
      BY <1>1, <1>9, <3>2, ChildLive, NodeNumbers DEF SameNames
    <3>5. OnlyDeclarations(f) <=> OnlyDeclarations(dom) /\ d.kind[n] = "declaration"
      BY <1>5, <3>2, <3>3, <3>4 DEF OnlyDeclarations
    <3>6. QED  BY <1>8, <2>1, <2>3, <3>5 DEF WellLocated, OnlyDeclarations
  <2>4. QED  BY <2>2, <2>3
<1>12. g = Len(stk) + Change(tok.t) /\ Len(stk') = g  BY <1>6, <1>8
<1>13. \A k \in 1 .. Len(stk) : k <= g => dom'.name[stk'[k]] = dom.name[stk[k]]  BY <1>8, <1>10
<1>14. \A k \in 1 .. g : dom'.kind[stk'[k]] = "element"  BY <1>8, <1>10
<1> HIDE DEF g
<1>15. QED  BY <1>6, <1>7, <1>8, <1>11, <1>12, <1>13, <1>14, TokenGoesOn

LEMMA FailError ==
  ASSUME NEW c, NEW d, NEW n, Fresh(c, d, n), NEW err \in Errors \ {"none"}, Fail(d, n, err)
  PROVE  phase' = "fail" /\ dom'.err # "none"
<1>1. dom' = DeleteLeaf(SetError(d, err), n) /\ phase' = "fail"  BY DEF Fail
<1>2. DeleteLeaf(SetError(d, err), n).err = err  BY FreshError
<1>3. QED  BY <1>1, <1>2

LEMMA RealErrors ==
  {"PARSING", "PARSING_DECLARATION", "PARSING_ATTRIBUTE", "DEPTH_EXCEEDED", "MISMATCHED_ELEMENT",
   "EMPTY_DOCUMENT"} \subseteq Errors \ {"none"}
BY DEF Errors

LEMMA NoDuplicate == ~ Duplicate(<<>>)
<1>1. Len(<<>>) = 0  OBVIOUS
<1>2. QED  BY <1>1 DEF Duplicate

LEMMA ParseLeafVerdict ==
  ASSUME IInv, VerdictInv, NEW k \in Leaves, ParseLeaf(k) PROVE VerdictInv'
<1> DEFINE tok == Leaf(k)
           x == "none"
           d == Create(dom, k, x)
           n == NextFree(dom)
<1>1. k \in Kinds /\ x \in Names \cup {"none"} /\ Token(tok)  BY DEF Kinds, ParseLeaf
<1>2. IF k = "declaration" /\ ~ WellLocated(dom) THEN Fail(d, n, "PARSING_DECLARATION")
      ELSE dom' = InsertEndChild(d, Top, n) /\ UNCHANGED <<phase, stk, del>>
  BY DEF ParseLeaf
<1>3. tok \in Tokens /\ tok.t = k /\ tok.as = <<>>  BY <1>1 DEF Tokens, Leaf, Tag
<1>4. Change(tok.t) = 0 /\ tok.t # "open" /\ tok.t # "close" /\ tok.t # "broken" /\ ~ Duplicate(tok.as)
  BY <1>3, NoDuplicate DEF Leaves, Change
<1> HIDE DEF tok, x
<1>5. Fresh(dom, d, n) /\ SameNames(dom, d) /\ d.kind[n] = k  BY <1>1, IdentifyFresh, IdentifyNames
<1>6. OpenInv /\ Len(stk) \in Nat  BY <1>1, <1>3, TokenStart
<1> HIDE DEF d, n
<1>7. OnlyDecl(toks) <=> WellLocated(dom)  BY <1>6 DEF OpenInv
<1>8. CASE k = "declaration" /\ ~ WellLocated(dom)
  <2>1. phase' = "fail" /\ dom'.err # "none"  BY <1>2, <1>5, <1>8, FailError, RealErrors
  <2>2. Misfit(toks, Len(stk), OpenNames, tok)  BY <1>3, <1>4, <1>6, <1>7, <1>8 DEF Misfit
  <2>3. QED  BY <1>1, <1>3, <2>1, <2>2, TokenFails
<1>9. CASE ~ (k = "declaration" /\ ~ WellLocated(dom))
  <2>1. dom' = InsertEndChild(d, Top, n) /\ UNCHANGED <<phase, stk, del>>  BY <1>2, <1>9
  <2>2. QED  BY <1>1, <1>3, <1>4, <1>5, <1>7, <1>9, <2>1, AttachVerdict
<1>10. QED  BY <1>8, <1>9

LEMMA ParseBrokenVerdict ==
  ASSUME IInv, VerdictInv, NEW k \in Kinds, ParseBroken(k) PROVE VerdictInv'
<1> DEFINE tok == Tag("broken", "none", <<>>)
           x == "none"
           d == Create(dom, k, x)
           n == NextFree(dom)
<1>1. x \in Names \cup {"none"} /\ Token(tok) /\ Fail(d, n, "PARSING")  BY DEF ParseBroken
<1>2. tok \in Tokens /\ tok.t = "broken" /\ Change(tok.t) = 0  BY DEF Tokens, Tag, Change
<1> HIDE DEF tok, x
<1>3. Fresh(dom, d, n)  BY <1>1, IdentifyFresh
<1> HIDE DEF d, n
<1>4. phase' = "fail" /\ dom'.err # "none"  BY <1>1, <1>3, FailError, RealErrors
<1>5. Len(stk) + Change(tok.t) >= 0  BY <1>1, <1>2, TokenStart
<1>6. Misfit(toks, Len(stk), OpenNames, tok)  BY <1>2, <1>5 DEF Misfit
<1>7. QED  BY <1>1, <1>2, <1>4, <1>6, TokenFails

LEMMA ParseEmptyVerdict ==
  ASSUME IInv, VerdictInv, NEW x \in Names, NEW al \in Seq(Names), ParseEmpty(x, al) PROVE VerdictInv'
<1> DEFINE tok == Tag("empty", x, al)
           k == "element"
           d == Create(dom, k, x)
           n == NextFree(dom)
           w == WithAttributes(d, n, al)
<1>1. k \in Kinds /\ x \in Names \cup {"none"} /\ Token(tok)  BY DEF Kinds, ParseEmpty
<1>2. IF Duplicate(al) THEN Fail(d, n, "PARSING_ATTRIBUTE")
      ELSE dom' = InsertEndChild(w, Top, n) /\ UNCHANGED <<phase, stk, del>>
  BY DEF ParseEmpty
<1>3. tok \in Tokens /\ tok.t = "empty" /\ tok.as = al /\ Change(tok.t) = 0  BY DEF Tokens, Tag, Change
<1>k. k # "declaration"  OBVIOUS
<1> HIDE DEF tok, k
<1>4. Fresh(dom, d, n) /\ Fresh(dom, w, n) /\ SameNames(dom, w) /\ w.kind[n] = k
  BY <1>1, IdentifyFresh, IdentifyNames
<1>5. Len(stk) + Change(tok.t) >= 0  BY <1>1, <1>3, TokenStart
<1> HIDE DEF d, n, w
<1>6. CASE Duplicate(al)
  <2>1. phase' = "fail" /\ dom'.err # "none"  BY <1>2, <1>4, <1>6, FailError, RealErrors
  <2>2. Misfit(toks, Len(stk), OpenNames, tok)  BY <1>3, <1>5, <1>6 DEF Misfit
  <2>3. QED  BY <1>1, <1>3, <2>1, <2>2, TokenFails
<1>7. CASE ~ Duplicate(al)
  <2>1. dom' = InsertEndChild(w, Top, n) /\ UNCHANGED <<phase, stk, del>>  BY <1>2, <1>7
  <2>2. QED  BY <1>1, <1>3, <1>4, <1>7, <1>k, <2>1, AttachVerdict
<1>8. QED  BY <1>6, <1>7

LEMMA ParseOpenVerdict ==
  ASSUME IInv, VerdictInv, NEW x \in Names, NEW al \in Seq(Names), ParseOpen(x, al) PROVE VerdictInv'
<1> DEFINE tok == Tag("open", x, al)
           k == "element"
           d == Create(dom, k, x)
           n == NextFree(dom)
           w == WithAttributes(d, n, al)
           g == Len(stk) + 1
<1>1. k \in Kinds /\ x \in Names \cup {"none"} /\ Token(tok)  BY DEF Kinds, ParseOpen
<1>2. /\ Duplicate(al) => Fail(d, n, "PARSING_ATTRIBUTE")
      /\ ~ Duplicate(al) /\ TooDeep => Fail(w, n, "DEPTH_EXCEEDED")
      /\ ~ Duplicate(al) /\ ~ TooDeep => dom' = w /\ stk' = Append(stk, n) /\ UNCHANGED <<phase, del>>
  BY DEF ParseOpen
<1>3. tok \in Tokens /\ tok.t = "open" /\ tok.n = x /\ tok.as = al /\ Change(tok.t) = 1
  BY DEF Tokens, Tag, Change
<1>k. k = "element"  OBVIOUS
<1> HIDE DEF tok, k
<1>4. /\ Fresh(dom, d, n) /\ Fresh(dom, w, n) /\ SameNames(dom, w) /\ w.kind[n] = k
      /\ w.name[n] = x
  BY <1>1, IdentifyFresh, IdentifyNames
<1>5. OpenInv /\ Len(stk) \in Nat  BY <1>1, <1>3, TokenStart
<1>6. phase = "parse" /\ stk \in Seq(Nodes) /\ n \in Nodes  BY <1>1, <1>4, TokenFrom DEF Fresh
<1> HIDE DEF d, n, w
<1>7. CASE Duplicate(al)
  <2>1. Fail(d, n, "PARSING_ATTRIBUTE")  BY <1>2, <1>7
  <2>2. phase' = "fail" /\ dom'.err # "none"  BY <1>4, <2>1, FailError, RealErrors
  <2>3. Misfit(toks, Len(stk), OpenNames, tok)  BY <1>3, <1>5, <1>7 DEF Misfit
  <2>4. QED  BY <1>1, <1>3, <2>2, <2>3, TokenFails
<1>8. CASE ~ Duplicate(al) /\ TooDeep
  <2>1. Fail(w, n, "DEPTH_EXCEEDED")  BY <1>2, <1>8
  <2>2. phase' = "fail" /\ dom'.err # "none"  BY <1>4, <2>1, FailError, RealErrors
  <2>3. Misfit(toks, Len(stk), OpenNames, tok)
    BY <1>3, <1>5, <1>8, NodesAssumption DEF TooDeep, Misfit
  <2>4. QED  BY <1>1, <1>3, <2>2, <2>3, TokenFails
<1>9. CASE ~ Duplicate(al) /\ ~ TooDeep
  <2>1. dom' = w /\ stk' = Append(stk, n) /\ phase' = "parse" /\ del' = del  BY <1>2, <1>6, <1>9
  <2>2. Len(stk') = g /\ stk'[g] = n /\ \A j \in 1 .. Len(stk) : stk'[j] = stk[j]
    BY <1>6, <2>1
  <2>3. g \in Nat /\ g = Len(stk) + Change(tok.t) /\ g < MaxDepth - 1
    BY <1>3, <1>5, <1>9, NodesAssumption DEF TooDeep
  <2>4. \A j \in 1 .. Len(stk) : w.name[stk[j]] = dom.name[stk[j]] /\ w.kind[stk[j]] = "element"
    BY <1>1, <1>4, <1>5, StackNames DEF OpenInv
  <2>5. \A j \in 1 .. Len(stk) : j <= g => dom'.name[stk'[j]] = dom.name[stk[j]]
    BY <2>1, <2>2, <2>4
  <2>6. \A j \in 1 .. g : dom'.kind[stk'[j]] = "element"
    <3>1. \A j \in 1 .. g : j = g \/ j \in 1 .. Len(stk)  BY <1>5
    <3>2. QED  BY <1>4, <1>k, <2>1, <2>2, <2>4, <3>1
  <2>7. dom'.name[stk'[g]] = tok.n  BY <1>3, <1>4, <2>1, <2>2
  <2>8. ~ WellLocated(dom)'
    <3>1. stk' # <<>>  BY <1>6, <2>1
    <3>2. QED  BY <3>1 DEF WellLocated
  <2>9. /\ tok.t # "broken" /\ ~ Duplicate(tok.as) /\ tok.t # "declaration" /\ tok.t # "close"
        /\ tok.t = "open"
    BY <1>3, <1>9
  <2> HIDE DEF g
  <2>10. QED  BY <1>1, <1>3, <2>1, <2>2, <2>3, <2>5, <2>6, <2>7, <2>8, <2>9, TokenGoesOn
<1>10. QED  BY <1>7, <1>8, <1>9

LEMMA ParseCloseVerdict ==
  ASSUME IInv, VerdictInv, NEW x \in Names, ParseClose(x) PROVE VerdictInv'
<1> DEFINE tok == Tag("close", x, <<>>)
           k == "element"
           c == Create(dom, k, x)
           m == NextFree(dom)
           d == DeleteLeaf(c, m)
           e == Last(stk)
           up == Front(stk)
           p == IF up = <<>> THEN Doc ELSE Last(up)
           b == SetError(d, "MISMATCHED_ELEMENT")
           g == Len(stk) - 1
<1>1. k \in Kinds /\ x \in Names \cup {"none"} /\ Token(tok)  BY DEF Kinds, ParseClose
<1>2. IF stk = <<>> THEN dom' = d /\ phase' = "idle" /\ UNCHANGED <<stk, del>>
      ELSE /\ stk' = up
           /\ IF dom.name[e] = x THEN dom' = InsertEndChild(d, p, e) /\ UNCHANGED <<phase, del>>
              ELSE dom' = DeleteNode(b, e) /\ del' = <<e>> /\ phase' = "fail"
  BY DEF ParseClose
<1>3. tok \in Tokens /\ tok.t = "close" /\ tok.n = x /\ tok.as = <<>> /\ Change(tok.t) = -1
  BY DEF Tokens, Tag, Change
<1> HIDE DEF tok, k
<1>4. Fresh(dom, c, m) /\ SameNames(dom, c)  BY <1>1, IdentifyFresh, IdentifyNames
<1> HIDE DEF c, m
<1>5. /\ DomType(d) /\ Good(d, <<>>) /\ Live(d) = Live(dom) /\ d.err = c.err /\ d.par = dom.par
      /\ SameNames(dom, d)
  BY <1>4, DropFresh, DropNames
<1> HIDE DEF d
<1>6. /\ stk \in Seq(Nodes) /\ Once(stk) /\ dom.err = "none" /\ phase = "parse"
      /\ \A n \in ToSet(stk) : n \in Live(dom) /\ dom.par[n] = Nil
  BY <1>1, TokenFrom
<1>7. d.err = "none"  BY <1>4, <1>5, <1>6 DEF Fresh
<1>8. /\ OpenInv /\ toks \in Seq(Tokens) /\ toks' \in Seq(Tokens) /\ toks' = Append(toks, tok)
      /\ Len(stk) \in Nat /\ Accepted(toks, Len(stk), OpenNames)
  BY <1>1, <1>3, TokenStart
<1>9. CASE stk = <<>>
  <2> DEFINE y == OpenNames
  <2>1. dom' = d /\ phase' = "idle"  BY <1>2, <1>9
  <2>2. Accepted(toks, 0, y)  BY <1>8, <1>9
  <2> HIDE DEF y
  <2>3. WellFormed(toks')  BY <1>3, <1>8, <2>2, StrayEnd
  <2>4. QED  BY <1>7, <1>8, <2>1, <2>3 DEF VerdictInv
<1>10. ASSUME stk # <<>>
       PROVE  /\ up \in Seq(Nodes) /\ e \in ToSet(stk) /\ ToSet(up) = ToSet(stk) \ {e}
              /\ e = stk[Len(stk)] /\ Len(stk) > 0 /\ Len(up) = g /\ g \in Nat /\ g = Len(stk) + Change(tok.t)
              /\ \A j \in 1 .. g : up[j] = stk[j]
  <2>1. up \in Seq(Nodes) /\ e \in ToSet(stk) /\ ToSet(up) = ToSet(stk) \ {e} /\ stk = Append(up, e)
    BY <1>6, <1>10, FrontSet
  <2> HIDE DEF up, e
  <2>2. Len(up) \in Nat /\ Len(stk) = Len(up) + 1 /\ \A j \in 1 .. Len(up) : stk[j] = up[j]  BY <2>1
  <2>3. stk[Len(up) + 1] = e  BY <2>1
  <2>4. QED  BY <1>3, <2>1, <2>2, <2>3
<1>11. CASE stk # <<>> /\ dom.name[e] # x
  <2>1. DomType(b) /\ b.err = "MISMATCHED_ELEMENT" /\ Live(b) = Live(d) /\ Good(b, <<>>)
    BY <1>5, SetErrorGood, ErrorNames
  <2>2. dom' = DeleteNode(b, e) /\ phase' = "fail"  BY <1>2, <1>11
  <2> DEFINE R == <<>>
  <2>3. e \in Live(b) /\ R \in Seq(Nodes) /\ e \notin ToSet(R) /\ Good(b, R)
    BY <1>5, <1>6, <1>10, <1>11, <2>1, Empty
  <2> HIDE DEF R, b, e, g
  <2>4. DeleteNode(b, e).err = b.err  BY <2>1, <2>3, DeleteNodeGood
  <2>5. dom'.err # "none"  BY <2>1, <2>2, <2>4
  <2>6. Len(stk) + Change(tok.t) >= 0  BY <1>10, <1>11
  <2>7. tok.n # OpenNames[Len(stk)]
    <3>1. Len(stk) \in 1 .. Len(stk)  BY <1>8, <1>10, <1>11
    <3>2. OpenNames[Len(stk)] = dom.name[stk[Len(stk)]]  BY <3>1 DEF OpenNames
    <3>3. QED  BY <1>3, <1>10, <1>11, <3>2
  <2>8. Misfit(toks, Len(stk), OpenNames, tok)  BY <1>3, <2>6, <2>7 DEF Misfit
  <2>9. QED  BY <1>1, <1>3, <2>2, <2>5, <2>8, TokenFails
<1>12. CASE stk # <<>> /\ dom.name[e] = x
  <2> DEFINE f == InsertEndChild(d, p, e)
             R == <<>>
  <2>1. /\ up \in Seq(Nodes) /\ e \in ToSet(stk) /\ ToSet(up) = ToSet(stk) \ {e} /\ e = stk[Len(stk)]
        /\ Len(stk) > 0 /\ Len(up) = g /\ g \in Nat /\ g = Len(stk) + Change(tok.t)
        /\ \A j \in 1 .. g : up[j] = stk[j]
    BY <1>10, <1>12
  <2>2. (up = <<>> => p = Doc) /\ (up # <<>> => p \in ToSet(up))
    <3>1. ASSUME up # <<>> PROVE Last(up) \in ToSet(up)
      <4> HIDE DEF up
      <4>1. Last(up) = up[Len(up)] /\ Len(up) \in 1 .. Len(up)  BY <2>1, <3>1 DEF Last
      <4>2. QED  BY <2>1, <4>1, ToSetIn
    <3>2. QED  BY <3>1
  <2>3. dom' = f /\ stk' = up /\ del' = del /\ phase' = "parse"  BY <1>2, <1>6, <1>12
  <2>4. Doc \notin Live(d)  BY NodeNumbers DEF Live
  <2> HIDE DEF up, e, p
  <2>5. /\ e \in Live(d) /\ p \in Live(d) \cup {Doc} /\ p # e /\ (p # Doc => d.par[p] = Nil)
        /\ R \in Seq(Nodes) /\ e \notin ToSet(R) /\ Good(d, R) /\ e \in Nodes
    BY <1>5, <1>6, <2>1, <2>2, <2>4, Empty DEF Live
  <2> HIDE DEF R
  <2>6. Moved(d, R, f, p, e)  BY <1>5, <2>5, InsertAloneGood
  <2> HIDE DEF f
  <2>7. f.name = d.name /\ f.kind = d.kind /\ \A n \in Nodes : f.par[n] = IF n = e THEN p ELSE d.par[n]
    BY <2>6 DEF Moved, SameStock
  <2>8. \A j \in 1 .. Len(stk) : d.name[stk[j]] = dom.name[stk[j]] /\ d.kind[stk[j]] = "element"
    BY <1>1, <1>5, <1>8, StackNames DEF OpenInv
  <2>9. \A j \in 1 .. Len(stk) : j <= g => dom'.name[stk'[j]] = dom.name[stk[j]]
    <3>1. \A j \in 1 .. Len(stk) : j <= g => j \in 1 .. g  BY <2>1
    <3>2. QED  BY <2>1, <2>3, <2>7, <2>8, <3>1
  <2>10. \A j \in 1 .. g : dom'.kind[stk'[j]] = "element"
    <3>1. \A j \in 1 .. g : j \in 1 .. Len(stk)  BY <1>8, <2>1
    <3>2. QED  BY <2>1, <2>3, <2>7, <2>8, <3>1
  <2>11. ~ WellLocated(dom)'
    <3>1. ASSUME up = <<>> PROVE ~ OnlyDeclarations(f)
      <4>1. f.par[e] = Doc  BY <2>2, <2>5, <2>7, <3>1
      <4>2. f.kind[e] = "element"
        <5>1. Len(stk) \in 1 .. Len(stk)  BY <1>8, <2>1
        <5>2. QED  BY <2>1, <2>7, <2>8, <5>1
      <4>3. QED  BY <2>5, <4>1, <4>2 DEF OnlyDeclarations
    <3>2. QED  BY <2>3, <3>1 DEF WellLocated, OnlyDeclarations
  <2>12. g < MaxDepth - 1
    <3>1. Len(stk) < MaxDepth - 1  BY <1>8, AcceptedDepth, LenNat
    <3>2. QED  BY <1>8, <3>1, NodesAssumption
  <2>13. /\ tok.t # "broken" /\ ~ Duplicate(tok.as) /\ tok.t # "declaration" /\ tok.t # "open"
         /\ tok.n = dom.name[stk[Len(stk)]]
    BY <1>3, <1>12, <2>1, NoDuplicate
  <2>14. Len(stk') = g  BY <2>1, <2>3
  <2> HIDE DEF g
  <2>15. QED  BY <1>1, <1>3, <2>1, <2>3, <2>9, <2>10, <2>11, <2>12, <2>13, <2>14, TokenGoesOn
<1>13. QED  BY <1>9, <1>11, <1>12

-----------------------------------------------------------------------------
(***************************************************************************)
(* The other steps.                                                        *)
(***************************************************************************)
LEMMA DocEmpty ==
  ASSUME NEW d, DomType(d), NEW R, Good(d, R)
  PROVE  d.first[Doc] = Nil <=> \A m \in Nodes : d.par[m] # Doc
<1>1. PtrType(d) /\ Links(d) /\ OneList(d)  BY DomPtr DEF Good, Shape
<1>2. ASSUME d.first[Doc] # Nil PROVE \E m \in Nodes : d.par[m] = Doc
  <2>1. Ends(d, Doc)  BY <1>1, LinksParts
  <2>2. d.first[Doc] \in Nodes  BY <1>1, <1>2 DEF PtrType, Ptr
  <2>3. QED  BY <1>2, <2>1, <2>2 DEF Ends
<1>3. QED  BY <1>1, <1>2, HasFirst

LEMMA ParseEofVerdict == ASSUME IInv, VerdictInv, ParseEof PROVE VerdictInv'
<1> DEFINE h == Len(stk)
           x == OpenNames
<1>1. phase = "parse" /\ ~ Busy /\ toks' = toks  BY DEF ParseEof
<1>2. Reading  BY <1>1, ReadingIs
<1>3. NoCall /\ stk \in Seq(Nodes) /\ dom.err = "none" /\ DomType(dom)  BY <1>1, <1>2 DEF Reading
<1>4. OpenInv /\ toks \in Seq(Tokens)  BY <1>1, <1>3 DEF VerdictInv, NoCall
<1>5. h \in Nat /\ Accepted(toks, h, x) /\ Len(toks) \in Nat  BY <1>3, <1>4, LenNat DEF OpenInv
<1>6. WellFormed(toks) <=> toks # <<>> /\ h = 0
  <2> HIDE DEF h, x
  <2>1. QED  BY <1>5, AcceptedCounted, AcceptedEnd, WellFormedIs
<1>7. CASE stk = <<>> /\ toks # <<>>
  <2>1. phase' = "idle" /\ dom' = dom  BY <1>7 DEF ParseEof
  <2>2. WellFormed(toks)  BY <1>6, <1>7
  <2>3. QED  BY <1>1, <1>3, <1>4, <2>1, <2>2 DEF VerdictInv
<1>8. CASE ~ (stk = <<>> /\ toks # <<>>)
  <2>1. ~ WellFormed(toks)  BY <1>3, <1>6, <1>8
  <2>2. PICK err \in Errors \ {"none"} : phase' = "fail" /\ dom' = SetError(dom, err)
    BY <1>8, RealErrors DEF ParseEof
  <2>3. dom'.err # "none"  BY <1>3, <2>2, SetErrorGood
  <2>4. QED  BY <1>1, <1>4, <2>1, <2>2, <2>3 DEF VerdictInv, Finished
<1>9. QED  BY <1>7, <1>8

LEMMA UnwindVerdict == ASSUME IInv, VerdictInv, Unwind PROVE VerdictInv'
<1>1. phase = "fail" /\ ~ Busy /\ toks' = toks  BY DEF Unwind
<1>2. Reading  BY <1>1, ReadingIs
<1>3. dom.err # "none" /\ ~ WellFormed(toks) /\ toks \in Seq(Tokens)  BY <1>1 DEF VerdictInv
<1>4. phase' \in {"fail", "drop", "idle"}  BY <1>1 DEF Unwind
<1>5. dom'.err = dom.err
  <2>1. CASE stk = <<>>  BY <2>1 DEF Unwind
  <2>2. CASE stk # <<>>
    <3> DEFINE e == Last(stk)
               R == <<>>
    <3>1. dom' = DeleteNode(dom, e)  BY <2>2 DEF Unwind
    <3>2. stk \in Seq(Nodes) /\ Once(stk) /\ \A m \in ToSet(stk) : m \in Live(dom)
      BY <1>2, AloneSet DEF Reading
    <3>3. e \in Live(dom)  BY <2>2, <3>2, FrontSet
    <3>4. R \in Seq(Nodes) /\ e \notin ToSet(R) /\ Good(dom, R) /\ DomType(dom)
      BY <1>2, Empty DEF Reading
    <3> HIDE DEF R, e
    <3>5. QED  BY <3>1, <3>3, <3>4, DeleteNodeGood
  <2>3. QED  BY <2>1, <2>2
<1>6. QED  BY <1>1, <1>3, <1>4, <1>5 DEF VerdictInv

LEMMA DropTextVerdict == ASSUME IInv, VerdictInv, DropText PROVE VerdictInv'
<1>1. phase = "drop" /\ phase' = "idle" /\ toks' = toks /\ dom' = ClearPools(dom)  BY DEF DropText
<1>2. dom.err # "none" /\ ~ WellFormed(toks) /\ toks \in Seq(Tokens)  BY <1>1 DEF VerdictInv
<1>3. dom'.err = dom.err  BY <1>1 DEF ClearPools, IInv, DomType
<1>4. QED  BY <1>1, <1>2, <1>3 DEF VerdictInv

\* A step of a deletion, in the middle of Clear if a parse is under way.
LEMMA DeletionVerdict ==
  ASSUME IInv, VerdictInv, IInv', Deleting, UNCHANGED <<phase, stk, toks>>, dom'.err = dom.err,
         phase = "parse" => clearing' /\ keep' = keep,
         \A m \in Nodes : dom'.par[m] \in {Nil, dom.par[m]}
  PROVE  VerdictInv'
<1>1. Destroying  BY DestroyingIs
<1>2. phase = "idle" => toks = <<>>  BY <1>1 DEF Destroying, CleanInv, Busy
<1>3. ASSUME phase = "parse" PROVE toks' = <<>> /\ clearing' /\ (keep' = Doc \/ dom'.first[Doc] = Nil)
  <2>1. clearing
    <3>1. ASSUME ~ clearing PROVE FALSE
      <4>1. del = <<>> /\ keep = Nil  BY <1>3, <3>1 DEF VerdictInv, OpenInv
      <4>2. QED  BY <3>1, <4>1 DEF Deleting, Emptied
    <3>2. QED  BY <3>1
  <2>2. toks = <<>> /\ (keep = Doc \/ dom.first[Doc] = Nil)  BY <1>3, <2>1 DEF VerdictInv
  <2>3. ASSUME dom.first[Doc] = Nil PROVE dom'.first[Doc] = Nil
    <3> DEFINE e == dom'
               R == del'
    <3>1. DomType(dom) /\ Good(dom, del)  BY <1>1 DEF Destroying
    <3>2. DomType(e) /\ Good(e, R)  BY <1>3 DEF IInv
    <3>3. \A m \in Nodes : dom.par[m] # Doc  BY <2>3, <3>1, DocEmpty
    <3>4. \A m \in Nodes : e.par[m] # Doc  BY <3>3, NodeNumbers
    <3> HIDE DEF e, R
    <3>5. e.first[Doc] = Nil  BY <3>2, <3>4, DocEmpty
    <3>6. QED  BY <3>5 DEF e
  <2>4. QED  BY <1>3, <2>2, <2>3
<1>4. QED  BY <1>2, <1>3 DEF VerdictInv, Finished

LEMMA DeleteFirstVerdict == ASSUME IInv, VerdictInv, DeleteFirst PROVE VerdictInv'
<1> DEFINE p == Emptied
           n == dom.first[p]
           e == DeleteNode(dom, n)
<1>1. IInv'  BY DeleteFirstKeeps
<1>2. p # Nil /\ n # Nil /\ Deleting  BY DEF DeleteFirst, Deleting
<1>3. dom' = DeleteChild(dom, n) /\ UNCHANGED <<phase, stk, toks, keep, clearing>>  BY DEF DeleteFirst
<1>4. DomType(dom) /\ Good(dom, del) /\ del \in Seq(Nodes) /\ keep \in Ptr \cup {Doc}
  BY <1>2, StackFacts
<1>5. p \in Nodes \cup {Doc}
  <2>1. CASE del = <<>>  BY <1>2, <1>4, <2>1 DEF Emptied, Ptr
  <2>2. CASE del # <<>>
    <3>1. Last(del) \in Nodes  BY <1>4, <2>2 DEF Last
    <3>2. QED  BY <2>2, <3>1 DEF Emptied
  <2>3. QED  BY <2>1, <2>2
<1>c. phase = "parse" => clearing
  <2>1. ASSUME phase = "parse", ~ clearing PROVE FALSE
    <3>1. del = <<>> /\ keep = Nil  BY <2>1 DEF VerdictInv, OpenInv
    <3>2. QED  BY <1>2, <3>1 DEF Emptied
  <2>2. QED  BY <2>1
<1> HIDE DEF p
<1>6. n \in Nodes /\ dom.par[n] = p
  <2>1. Ends(dom, p)  BY <1>4, <1>5, LinksParts DEF Good, Shape
  <2>2. n \in Ptr  BY <1>4, <1>5 DEF DomType
  <2>3. QED  BY <1>2, <2>1, <2>2 DEF Ends, Ptr
<1> HIDE DEF n
<1>7. n \in Live(dom)  BY <1>2, <1>4, <1>6, ChildLive
<1>8. n \notin ToSet(del)  BY <1>2, <1>4, <1>6, <1>7 DEF Good, OneOwner
<1>9. dom' = e  BY <1>2, <1>3, <1>6 DEF DeleteNode
<1>10. e.err = dom.err /\ \A m \in Nodes : e.par[m] = IF m = n THEN Nil ELSE dom.par[m]
  BY <1>4, <1>7, <1>8, DeleteNodeGood
<1> HIDE DEF e
<1>11. QED  BY <1>1, <1>2, <1>3, <1>9, <1>10, <1>c, DeletionVerdict

LEMMA EndDeleteVerdict == ASSUME IInv, VerdictInv, EndDelete PROVE VerdictInv'
<1>1. IInv'  BY EndDeleteKeeps
<1>2. Emptied # Nil /\ Deleting /\ UNCHANGED <<phase, stk, toks, clearing>> /\ dom.first[Emptied] = Nil
  BY DEF EndDelete, Deleting
<1>3. DomType(dom) /\ Good(dom, del) /\ del \in Seq(Nodes)  BY <1>2, StackFacts
<1>c. phase = "parse" => clearing
  <2>1. ASSUME phase = "parse", ~ clearing PROVE FALSE
    <3>1. del = <<>> /\ keep = Nil  BY <2>1 DEF VerdictInv, OpenInv
    <3>2. QED  BY <1>2, <3>1 DEF Emptied
  <2>2. QED  BY <2>1
<1>4. CASE del = <<>>
  <2>1. keep' = Nil /\ dom' = dom /\ Emptied = keep  BY <1>4 DEF EndDelete, Emptied
  <2>2. phase = "idle" => toks = <<>>  BY <1>2, DestroyingIs DEF Destroying, CleanInv, Busy
  <2>3. phase = "parse" => toks = <<>> /\ dom.first[Doc] = Nil  BY <1>2, <1>c, <2>1 DEF VerdictInv
  <2>4. QED  BY <1>2, <1>c, <2>1, <2>2, <2>3 DEF VerdictInv, Finished
<1>5. CASE del # <<>>
  <2> DEFINE n == Last(del)
             e == Destroy(dom, n)
  <2>1. dom' = e /\ keep' = keep  BY <1>5 DEF EndDelete
  <2>2. Once(del)  BY <1>3 DEF Good, OneOwner
  <2>3. n \in ToSet(del)  BY <1>3, <1>5, <2>2, FrontSet
  <2>4. n \in Live(dom)  BY <1>3, <2>3 DEF Good, OneOwner
  <2> HIDE DEF n
  <2>5. SamePtrs(dom, e) /\ e.err = dom.err  BY <1>3, <2>4, DestroyIs
  <2> HIDE DEF e
  <2>6. e.par = dom.par  BY <2>5 DEF SamePtrs
  <2>7. QED  BY <1>1, <1>2, <1>c, <2>1, <2>5, <2>6, DeletionVerdict
<1>6. QED  BY <1>4, <1>5

LEMMA NothingAccepted == ASSUME NEW x PROVE Accepted(<<>>, 0, x) /\ OnlyDecl(<<>>)
<1> DEFINE u == <<>>
<1>1. Len(u) = 0  OBVIOUS
<1> SUFFICES Accepted(u, 0, x) /\ OnlyDecl(u)  OBVIOUS
<1> HIDE DEF u
<1>2. Opened(u, 0) = 0  BY OpenedIs
<1>3. QED  BY <1>1, <1>2 DEF Accepted, OnlyDecl

LEMMA DeleteUnlinkedVerdict == ASSUME IInv, VerdictInv, DeleteUnlinked PROVE VerdictInv'
<1>1. IInv'  BY DeleteUnlinkedKeeps
<1>2. clearing /\ Emptied = Nil /\ Deleting /\ UNCHANGED <<phase, stk, toks, keep>>
  BY DEF DeleteUnlinked, Deleting
<1>3. DomType(dom) /\ Good(dom, del) /\ del \in Seq(Nodes) /\ stk = <<>>  BY <1>2, StackFacts
<1>4. del = <<>>
  <2>1. ASSUME del # <<>> PROVE FALSE
    <3>1. Last(del) \in Nodes  BY <1>3, <2>1 DEF Last
    <3>2. QED  BY <1>2, <2>1, <3>1, NodeNumbers DEF Emptied
  <2>2. QED  BY <2>1
<1>5. CASE dom.unlinked = <<>>
  <2>1. clearing' = FALSE /\ dom' = dom /\ del' = del  BY <1>5 DEF DeleteUnlinked
  <2>2. keep = Nil  BY <1>2, <1>4 DEF Emptied
  <2>3. phase = "idle" => toks = <<>>  BY <1>2, DestroyingIs DEF Destroying, CleanInv, Busy
  <2>4. ASSUME phase = "parse" PROVE OpenInv'
    <3>1. toks = <<>> /\ dom.first[Doc] = Nil  BY <1>2, <2>2, <2>4, NodeNumbers DEF VerdictInv
    <3>2. \A m \in Nodes : dom.par[m] # Doc  BY <1>3, <3>1, DocEmpty
    <3>3. WellLocated(dom)'  BY <1>2, <1>3, <2>1, <3>2 DEF WellLocated, OnlyDeclarations
    <3>4. toks' = <<>> /\ stk' = <<>> /\ Len(stk') = 0 /\ keep' = Nil /\ del' = <<>>
      BY <1>2, <1>3, <1>4, <2>1, <2>2, <3>1
    <3>5. Accepted(toks', Len(stk'), OpenNames') /\ OnlyDecl(toks')  BY <3>4, NothingAccepted
    <3>6. Accepted(toks, Len(stk), OpenNames)' /\ OnlyDecl(toks)'
      BY <3>5 DEF Accepted, OnlyDecl, TokenOK, Waits, Ended
    <3>7. QED  BY <3>3, <3>4, <3>6 DEF OpenInv
  <2>5. QED  BY <1>2, <2>1, <2>3, <2>4 DEF VerdictInv, Finished
<1>6. CASE dom.unlinked # <<>>
  <2> DEFINE n == dom.unlinked[1]
             e == DeleteNode(dom, n)
             R == <<>>
  <2>1. dom' = e /\ clearing' = clearing  BY <1>6 DEF DeleteUnlinked
  <2>2. n \in ToSet(dom.unlinked)
    <3> DEFINE u == dom.unlinked
    <3>1. u \in Seq(Nodes) /\ u # <<>>  BY <1>3, <1>6 DEF DomType
    <3> HIDE DEF u
    <3>2. ToSet(u) = {u[i] : i \in 1 .. Len(u)} /\ 1 \in 1 .. Len(u)  BY <3>1, ToSetIn
    <3>3. QED  BY <3>2 DEF u
  <2> HIDE DEF n
  <2>3. n \in Live(dom) /\ n \notin ToSet(R) /\ R \in Seq(Nodes) /\ Good(dom, R)
    BY <1>3, <1>4, <2>2, Empty DEF Good, OneOwner
  <2> HIDE DEF R
  <2>4. e.err = dom.err /\ \A m \in Nodes : e.par[m] = IF m = n THEN Nil ELSE dom.par[m]
    BY <1>3, <2>3, DeleteNodeGood
  <2> HIDE DEF e
  <2>5. QED  BY <1>1, <1>2, <2>1, <2>4, DeletionVerdict
<1>7. QED  BY <1>5, <1>6

\* A call that is not a parse.
LEMMA OtherVerdict == ASSUME phase' = "idle", toks' = <<>> PROVE VerdictInv'
<1>1. toks' \in Seq(Tokens)  OBVIOUS
<1>2. QED  BY <1>1 DEF VerdictInv, Finished

LEMMA StartParseVerdict == ASSUME NEW f, StartParse(f) PROVE VerdictInv'
<1>1. phase' = "parse" /\ clearing' = TRUE /\ keep' = Doc /\ toks' = <<>>  BY DEF StartParse, Clear
<1>2. toks' \in Seq(Tokens)  BY <1>1
<1>3. QED  BY <1>1, <1>2 DEF VerdictInv, Finished

LEMMA CloneVerdict == ASSUME IInv, CloneChild \/ EndClone PROVE VerdictInv'
<1>1. cl # <<>> /\ UNCHANGED <<phase, toks>>  BY DEF CloneChild, EndClone
<1>2. phase = "idle" /\ toks = <<>>  BY <1>1 DEF IInv, ParserInv, CleanInv, Busy
<1>3. QED  BY <1>1, <1>2, OtherVerdict

LEMMA CallVerdict == ASSUME ACall PROVE VerdictInv'
BY OtherVerdict DEF ACall, MayEdit

LEMMA VerdictKeeps == ASSUME IInv, VerdictInv, [Next]_vars PROVE VerdictInv'
<1>1. CASE UNCHANGED vars
  <2>1. OpenInv' = OpenInv /\ Finished' = Finished /\ WellFormed(toks)' = WellFormed(toks)
    BY <1>1 DEF vars, OpenInv, OpenNames, WellLocated, OnlyDeclarations, Finished, Busy, Deleting, Emptied,
       WellFormed, Counted, Stray, Opened, Accepted, OnlyDecl, TokenOK, Waits, Ended
  <2>2. QED  BY <1>1, <2>1 DEF vars, VerdictInv
<1>2. CASE \/ \E f \in BOOLEAN : StartParse(f)
           \/ \E e \in {"FILE_NOT_FOUND", "FILE_READ_ERROR"} : LoadFails(e)
  <2>1. ASSUME NEW e, LoadFails(e) PROVE VerdictInv'  BY <2>1, OtherVerdict DEF LoadFails
  <2>2. QED  BY <1>2, <2>1, StartParseVerdict
<1>3. CASE \/ \E k \in Leaves : ParseLeaf(k)
           \/ \E k \in Kinds : ParseBroken(k)
           \/ \E x \in Names : ParseClose(x)
  BY <1>3, ParseLeafVerdict, ParseBrokenVerdict, ParseCloseVerdict
<1>4. CASE \/ \E x \in Names : \E al \in AttrLists(x) : ParseOpen(x, al)
           \/ \E x \in Names : \E al \in AttrLists(x) : ParseEmpty(x, al)
  BY <1>4, AttrListsAre, ParseOpenVerdict, ParseEmptyVerdict
<1>5. CASE ParseEof \/ Unwind \/ DropText  BY <1>5, ParseEofVerdict, UnwindVerdict, DropTextVerdict
<1>6. CASE DeleteFirst \/ EndDelete \/ DeleteUnlinked
  BY <1>6, DeleteFirstVerdict, EndDeleteVerdict, DeleteUnlinkedVerdict
<1>7. CASE CloneChild \/ EndClone  BY <1>7, CloneVerdict
<1>8. CASE \/ \E x \in Names : NewNode("element", x)
           \/ \E k \in Leaves : NewNode(k, "none")
           \/ \E p \in Elements \cup {Doc}, n \in Live(dom) : InsertEnd(p, n)
           \/ \E p \in Elements \cup {Doc}, n \in Live(dom) : InsertFirst(p, n)
           \/ \E a, n \in Live(dom) : InsertAfter(a, n)
           \/ \E n \in Elements : EditText(n)
           \/ \E n \in Elements, x \in Names : SetAttribute(n, x)
           \/ \E n \in Elements, x \in Names : RemoveAttribute(n, x)
  <2>1. ACall
    BY <1>8 DEF NewNode, InsertEnd, InsertFirst, InsertAfter, EditText, SetAttribute, RemoveAttribute, Op
  <2>2. QED  BY <2>1, CallVerdict
<1>9. CASE \/ \E n \in Live(dom) : Delete(n)
           \/ \E p \in Elements \cup {Doc} : DeleteChildren(p)
           \/ ClearDoc
           \/ \E n \in Live(dom) : DeepClone(n)
  <2>1. ACall  BY <1>9 DEF Delete, DeleteChildren, ClearDoc, DeepClone
  <2>2. QED  BY <2>1, CallVerdict
<1>10. QED  BY <1>1, <1>2, <1>3, <1>4, <1>5, <1>6, <1>7, <1>8, <1>9 DEF Next

\* Parse and LoadFile report an error for exactly the texts that are not well
\* formed, by the grammar of WellFormed, which counts tags and has no stack: for
\* every text, every depth limit and whatever the document held before.
THEOREM ParseVerdictTheorem == Spec => []ParseVerdict
<1>1. Init => VerdictInv
  <2> SUFFICES ASSUME Init PROVE VerdictInv  OBVIOUS
  <2>1. phase = "idle" /\ toks = <<>> /\ toks \in Seq(Tokens)  BY DEF Init
  <2>2. QED  BY <2>1 DEF VerdictInv, Finished
<1>2. IInv /\ VerdictInv /\ [Next]_vars => VerdictInv'  BY VerdictKeeps
<1>3. IInv /\ VerdictInv => ParseVerdict
  <2>1. WellFormed(toks) \in BOOLEAN  BY DEF WellFormed
  <2>2. QED  BY <2>1 DEF VerdictInv, IInv, CleanInv, ParseVerdict
<1>4. QED  BY <1>1, <1>2, <1>3, Invariant, PTL DEF Spec

=============================================================================
