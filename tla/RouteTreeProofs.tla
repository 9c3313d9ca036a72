-------------------------- MODULE RouteTreeProofs --------------------------
(***************************************************************************)
(* Proofs about RouteTree: registration never writes a published node or   *)
(* slice, whatever the patterns, the methods and the order of the calls.   *)
(***************************************************************************)
EXTENDS RouteTree, TLAPS, FiniteSetTheorems, SequenceTheorems

IInv == TypeOK /\ PublishedClosed /\ WalkIsPrivate /\ ChildrenInRange

-----------------------------------------------------------------------------
(* The helpers.                                                            *)

\* The elements of 1..k that satisfy a condition number at most k.
LEMMA CountBound ==
    ASSUME NEW k \in Nat, NEW T, T \subseteq 1..k
    PROVE  Cardinality(T) \in 0..k
<1>1. IsFiniteSet(1..k) /\ Cardinality(1..k) = k
  BY FS_Interval
<1>2. IsFiniteSet(T) /\ Cardinality(T) <= k
  BY <1>1, FS_Subset
<1> QED  BY <1>2, FS_CardinalityType

\* longestCommonPrefix returns a length of both its arguments' prefixes.
LEMMA CommonType ==
    ASSUME NEW a \in Seq(Symbols), NEW b \in Seq(Symbols)
    PROVE  longestCommonPrefix(a, b) \in 0..Len(a) /\ longestCommonPrefix(a, b) <= Len(b)
<1> DEFINE small == Smaller(Len(a), Len(b))
           T == {k \in 1..small : \A j \in 1..k : a[j] = b[j]}
<1>1. small \in Nat /\ small <= Len(a) /\ small <= Len(b)
  BY DEF Smaller
<1>2. T \subseteq 1..small
  OBVIOUS
<1> HIDE DEF T, small
<1>3. Cardinality(T) \in 0..small
  BY <1>1, <1>2, CountBound
<1>4. longestCommonPrefix(a, b) = Cardinality(T)
  BY DEF longestCommonPrefix, T, small
<1> QED  BY <1>1, <1>3, <1>4

\* The literal prefix is no longer than the pattern.
LEMMA LiteralType ==
    ASSUME NEW p \in Seq(Symbols)
    PROVE  LiteralLen(p) \in 0..Len(p)
<1> DEFINE T == {k \in 1..Len(p) : \A j \in 1..k : p[j] \notin Wildcards}
<1>1. T \subseteq 1..Len(p) /\ Len(p) \in Nat
  OBVIOUS
<1> HIDE DEF T
<1>2. Cardinality(T) \in 0..Len(p)
  BY <1>1, CountBound
<1> QED  BY <1>2 DEF LiteralLen, T

\* Moving an element keeps a sequence's length and its elements.
LEMMA MoveLeftType ==
    ASSUME NEW E, NEW s \in Seq(E), NEW pos \in 1..Len(s), NEW to \in 1..pos
    PROVE  MoveLeft(s, pos, to) \in Seq(E) /\ Len(MoveLeft(s, pos, to)) = Len(s)
<1>1. \A k \in 1..Len(s) : (IF k = to THEN s[pos]
                            ELSE IF to < k /\ k <= pos THEN s[k - 1] ELSE s[k]) \in E
  OBVIOUS
<1> QED  BY <1>1 DEF MoveLeft

\* A piece of a pattern is a pattern.
LEMMA PieceType ==
    ASSUME NEW E, NEW p \in Seq(E), NEW k \in 1..(Len(p) + 1), NEW l \in 0..Len(p)
    PROVE  From(p, k) \in Seq(E) /\ Upto(p, l) \in Seq(E)
           /\ Len(Upto(p, l)) = l /\ Len(From(p, k)) = Len(p) - k + 1
           /\ \A j \in 1..l : Upto(p, l)[j] = p[j]
<1>1. \A i \in k..Len(p) : p[i] \in E
  OBVIOUS
<1>2. \A i \in 1..l : p[i] \in E
  OBVIOUS
<1> QED  BY <1>1, <1>2, SubSeqProperties DEF From, Upto

\* Allocation and assignment in a heap, cell by cell.
LEMMA Alloc ==
    ASSUME NEW E, NEW h \in Seq(E), NEW x \in E
    PROVE  /\ Append(h, x) \in Seq(E) /\ Len(Append(h, x)) = Len(h) + 1
           /\ \A k \in 1..(Len(h) + 1) : Append(h, x)[k] = IF k <= Len(h) THEN h[k] ELSE x
  OBVIOUS

\* Assignment to one cell leaves the others.
LEMMA Assign ==
    ASSUME NEW E, NEW h \in Seq(E), NEW i \in 1..Len(h), NEW x \in E
    PROVE  /\ [h EXCEPT ![i] = x] \in Seq(E) /\ Len([h EXCEPT ![i] = x]) = Len(h)
           /\ \A k \in 1..Len(h) : [h EXCEPT ![i] = x][k] = IF k = i THEN x ELSE h[k]
  BY ExceptSeq

-----------------------------------------------------------------------------
(* A pair of heaps that a registration may have built from the current     *)
(* ones: what is published is still there, every other node has a slice of *)
(* its own, and no pointer or index is out of range.                       *)

PrivateSlice(ss, nd) ==
    nd.children = 0 \/ nd.children \in (mark.slices + 1)..Len(ss)

Frozen(ns, ss) ==
    /\ mark.nodes \in 0..Len(ns) /\ mark.slices \in 0..Len(ss)
    /\ \A id \in 1..mark.nodes : ns[id] = nodes[id]
    /\ \A k \in 1..mark.slices : ss[k] = slices[k]

Built(ns, ss) ==
    /\ ns \in Seq(Node) /\ ss \in Seq(Seq(Nat))
    /\ Frozen(ns, ss)
    /\ \A id \in (mark.nodes + 1)..Len(ns) : PrivateSlice(ss, ns[id])
    /\ \A k \in 1..Len(ss) : \A j \in 1..Len(ss[k]) : ss[k][j] \in 1..Len(ns)
    /\ \A id \in 1..Len(ns) : ns[id].children <= Len(ss) /\ InRange(ss, ns[id])

\* A node's fields.
LEMMA NodeFields ==
    ASSUME NEW nd \in Node
    PROVE  /\ nd.path \in Seq(Symbols) /\ nd.indices \in Seq(Symbols)
           /\ nd.children \in Nat /\ nd.priority \in Nat /\ nd.maxParams \in Nat
           /\ nd.wildChild \in BOOLEAN /\ nd.nType \in NodeTypes
           /\ nd.handler \in Patterns /\ nd.pattern \in Patterns
  BY DEF Node

\* A node a registration may write: private slice, children in range.
Sound(ss, nd) == nd \in Node /\ PrivateSlice(ss, nd) /\ InRange(ss, nd)

\* The four ways a step changes the heaps.
LEMMA AllocNode ==
    ASSUME NEW ns, NEW ss, Built(ns, ss), NEW x, Sound(ss, x)
    PROVE  Built(Append(ns, x), ss)
<1> DEFINE hs == Append(ns, x)
<1>1. /\ hs \in Seq(Node) /\ Len(hs) = Len(ns) + 1 /\ Len(ns) \in Nat
      /\ \A k \in 1..(Len(ns) + 1) : hs[k] = IF k <= Len(ns) THEN ns[k] ELSE x
  BY Alloc DEF Built, Sound
<1>2. x.children \in Nat /\ x.children <= Len(ss)
  BY NodeFields DEF Sound, PrivateSlice, Built
<1> HIDE DEF hs
<1>f. Frozen(ns, ss)
  BY DEF Built
<1>3. Frozen(hs, ss)
  BY <1>1, <1>f DEF Frozen
<1>p. \A id \in (mark.nodes + 1)..Len(ns) : PrivateSlice(ss, ns[id])
  BY DEF Built
<1>4. \A id \in (mark.nodes + 1)..Len(hs) : PrivateSlice(ss, hs[id])
  BY <1>1, <1>f, <1>p DEF Frozen, Sound
<1>5. \A k \in 1..Len(ss) : \A j \in 1..Len(ss[k]) : ss[k][j] \in 1..Len(hs)
  BY <1>1 DEF Built
<1>6. \A id \in 1..Len(hs) : hs[id].children <= Len(ss) /\ InRange(ss, hs[id])
  <2> TAKE id \in 1..Len(hs)
  <2>1. CASE id <= Len(ns)
    <3>1. id \in 1..Len(ns) /\ hs[id] = ns[id]
      BY <1>1, <2>1
    <3> QED  BY <3>1 DEF Built
  <2>2. CASE ~ (id <= Len(ns))
    <3>1. hs[id] = x
      BY <1>1, <2>2
    <3> QED  BY <1>2, <3>1 DEF Sound
  <2> QED  BY <2>1, <2>2
<1>7. Built(hs, ss)
  BY <1>1, <1>3, <1>4, <1>5, <1>6 DEF Built
<1> QED  BY <1>7 DEF hs

\* A write of a private node keeps the heaps sound.
LEMMA WriteNode ==
    ASSUME NEW ns, NEW ss, Built(ns, ss), NEW x, Sound(ss, x),
           NEW i \in (mark.nodes + 1)..Len(ns)
    PROVE  Built([ns EXCEPT ![i] = x], ss)
<1> DEFINE hs == [ns EXCEPT ![i] = x]
<1>0. ns \in Seq(Node) /\ x \in Node /\ i \in 1..Len(ns)
  BY DEF Built, Sound, Frozen
<1>1. /\ hs \in Seq(Node) /\ Len(hs) = Len(ns) /\ Len(ns) \in Nat
      /\ \A k \in 1..Len(ns) : hs[k] = IF k = i THEN x ELSE ns[k]
  BY <1>0, Assign
<1>2. x.children \in Nat /\ x.children <= Len(ss)
  BY NodeFields DEF Sound, PrivateSlice, Built
<1> HIDE DEF hs
<1>f. Frozen(ns, ss)
  BY DEF Built
<1>3. Frozen(hs, ss)
  BY <1>1, <1>f DEF Frozen
<1>p. \A id \in (mark.nodes + 1)..Len(ns) : PrivateSlice(ss, ns[id])
  BY DEF Built
<1>4. \A id \in (mark.nodes + 1)..Len(hs) : PrivateSlice(ss, hs[id])
  BY <1>1, <1>f, <1>p DEF Frozen, Sound
<1>5. \A k \in 1..Len(ss) : \A j \in 1..Len(ss[k]) : ss[k][j] \in 1..Len(hs)
  BY <1>1 DEF Built
<1>6. \A id \in 1..Len(hs) : hs[id].children <= Len(ss) /\ InRange(ss, hs[id])
  BY <1>1, <1>2 DEF Built, Sound
<1>7. Built(hs, ss)
  BY <1>1, <1>3, <1>4, <1>5, <1>6 DEF Built
<1> QED  BY <1>7 DEF hs

\* A list of children of the heap ns.
KidsOf(ns, kids) == kids \in Seq(Nat) /\ \A j \in 1..Len(kids) : kids[j] \in 1..Len(ns)

\* A fresh children slice keeps the heaps sound.
LEMMA AllocSlice ==
    ASSUME NEW ns, NEW ss, Built(ns, ss), NEW kids, KidsOf(ns, kids)
    PROVE  Built(ns, Append(ss, kids))
<1> DEFINE hs == Append(ss, kids)
<1>0. hs \in Seq(Seq(Nat)) /\ Len(hs) = Len(ss) + 1 /\ Len(ss) \in Nat
  BY Alloc DEF Built, KidsOf
<1>1. /\ Len(hs) = Len(ss) + 1 /\ Len(ss) \in Nat
      /\ \A k \in 1..Len(ss) : hs[k] = ss[k]
      /\ hs[Len(ss) + 1] = kids
  BY Alloc DEF Built, KidsOf
<1> HIDE DEF hs
<1>f. Frozen(ns, ss)
  BY DEF Built
<1>2. Frozen(ns, hs)
  BY <1>1, <1>f DEF Frozen
<1>3. \A id \in (mark.nodes + 1)..Len(ns) : PrivateSlice(hs, ns[id])
  BY <1>1 DEF Built, Frozen, PrivateSlice
<1>k. \A k \in 1..Len(ss) : \A j \in 1..Len(ss[k]) : ss[k][j] \in 1..Len(ns)
  BY DEF Built
<1>4. \A k \in 1..Len(hs) : \A j \in 1..Len(hs[k]) : hs[k][j] \in 1..Len(ns)
  <2> TAKE k \in 1..Len(hs)
  <2>1. CASE k <= Len(ss)
    BY <1>1, <1>k, <2>1
  <2>2. CASE k = Len(ss) + 1
    BY <1>1, <2>2 DEF KidsOf
  <2> QED  BY <1>1, <2>1, <2>2
<1>5. \A id \in 1..Len(ns) : ns[id].children <= Len(hs) /\ InRange(hs, ns[id])
  <2> TAKE id \in 1..Len(ns)
  <2>1. ns[id].children \in Nat /\ ns[id].children <= Len(ss) /\ InRange(ss, ns[id])
    BY NodeFields DEF Built
  <2>2. Children(hs, ns[id]) = Children(ss, ns[id])
    BY <1>1, <2>1 DEF Children
  <2> QED  BY <1>1, <2>1, <2>2 DEF InRange
<1>6. Built(ns, hs)
  BY <1>0, <1>2, <1>3, <1>4, <1>5 DEF Built
<1> QED  BY <1>6 DEF hs

\* A write of a private children slice keeps the heaps sound.
LEMMA WriteSlice ==
    ASSUME NEW ns, NEW ss, Built(ns, ss), NEW kids, KidsOf(ns, kids),
           NEW i \in (mark.slices + 1)..Len(ss), Len(kids) >= Len(ss[i])
    PROVE  Built(ns, [ss EXCEPT ![i] = kids])
<1> DEFINE hs == [ss EXCEPT ![i] = kids]
<1>0. ss \in Seq(Seq(Nat)) /\ kids \in Seq(Nat) /\ i \in 1..Len(ss)
  BY DEF Built, KidsOf, Frozen
<1>1. /\ hs \in Seq(Seq(Nat)) /\ Len(hs) = Len(ss) /\ Len(ss) \in Nat
      /\ \A k \in 1..Len(ss) : hs[k] = IF k = i THEN kids ELSE ss[k]
  BY <1>0, Assign
<1> HIDE DEF hs
<1>f. Frozen(ns, ss)
  BY DEF Built
<1>2. Frozen(ns, hs)
  <2>1. mark.slices \in 0..Len(ss) /\ mark.nodes \in 0..Len(ns)
    BY <1>f DEF Frozen
  <2>2. \A k \in 1..mark.slices : hs[k] = slices[k]
    <3> TAKE k \in 1..mark.slices
    <3>0. mark.slices \in Nat /\ mark.slices <= Len(ss) /\ Len(ss) \in Nat /\ i > mark.slices
      BY <1>1, <2>1
    <3>1. k \in 1..Len(ss) /\ k # i
      BY ONLY <3>0, k \in 1..mark.slices, i \in (mark.slices + 1)..Len(ss)
    <3>2. ss[k] = slices[k]
      BY <1>f DEF Frozen
    <3> QED  BY <1>1, <3>1, <3>2
  <2>3. \A id \in 1..mark.nodes : ns[id] = nodes[id]
    BY <1>f DEF Frozen
  <2> QED  BY <1>1, <2>1, <2>2, <2>3 DEF Frozen
<1>3. \A id \in (mark.nodes + 1)..Len(ns) : PrivateSlice(hs, ns[id])
  BY <1>1 DEF Built, Frozen, PrivateSlice
<1>k. \A k \in 1..Len(ss) : \A j \in 1..Len(ss[k]) : ss[k][j] \in 1..Len(ns)
  BY DEF Built
<1>4. \A k \in 1..Len(hs) : \A j \in 1..Len(hs[k]) : hs[k][j] \in 1..Len(ns)
  BY <1>1, <1>k DEF KidsOf
<1>5. \A id \in 1..Len(ns) : ns[id].children <= Len(hs) /\ InRange(hs, ns[id])
  <2> TAKE id \in 1..Len(ns)
  <2>1. ns[id].children \in Nat /\ ns[id].children <= Len(ss) /\ InRange(ss, ns[id])
        /\ ns[id].indices \in Seq(Symbols)
    BY NodeFields DEF Built
  <2>2. Len(Children(hs, ns[id])) >= Len(Children(ss, ns[id]))
        /\ Children(ss, ns[id]) \in Seq(Nat) /\ Children(hs, ns[id]) \in Seq(Nat)
    <3>1. CASE ns[id].children = 0
      BY <3>1, EmptySeq DEF Children
    <3>2. CASE ns[id].children # 0
      <4> DEFINE k == ns[id].children
      <4>1. k \in 1..Len(ss)
        BY <1>1, <2>1, <3>2
      <4> HIDE DEF k
      <4>2. ss[k] \in Seq(Nat)
        BY <1>0, <4>1
      <4>3. Len(ss[k]) \in Nat /\ hs[k] = IF k = i THEN kids ELSE ss[k]
        BY <1>1, <4>1, <4>2
      <4>4. hs[k] \in Seq(Nat) /\ Len(hs[k]) >= Len(ss[k])
        BY <1>0, <4>2, <4>3
      <4> QED  BY <3>2, <4>2, <4>4 DEF Children, k
    <3> QED  BY <3>1, <3>2
  <2>3. Len(ns[id].indices) <= Len(Children(hs, ns[id]))
    BY <2>1, <2>2 DEF InRange
  <2>4. ns[id].wildChild => Children(hs, ns[id]) # <<>>
    BY <2>1, <2>2, EmptySeq DEF InRange
  <2> QED  BY <1>1, <2>1, <2>3, <2>4 DEF InRange
<1>6. Built(ns, hs)
  BY <1>1, <1>2, <1>3, <1>4, <1>5 DEF Built
<1> QED  BY <1>6 DEF hs

-----------------------------------------------------------------------------
(* Between the invariant and Built.                                        *)

\* Between the steps of a registration the heaps are sound.
LEMMA NowBuilt ==
    ASSUME IInv
    PROVE  Built(nodes, slices)
<1>1. /\ nodes \in Seq(Node) /\ slices \in Seq(Seq(Nat))
      /\ mark.nodes \in Nat /\ mark.slices \in Nat
      /\ Len(nodes) \in Nat /\ Len(slices) \in Nat
  BY DEF IInv, TypeOK
<1>2. Frozen(nodes, slices)
  BY <1>1 DEF IInv, PublishedClosed, Frozen
<1>3. \A id \in 1..Len(nodes) :
         nodes[id].children \in Nat /\ nodes[id].children <= Len(slices)
  BY <1>1, NodeFields DEF IInv, PublishedClosed
<1>4. \A id \in (mark.nodes + 1)..Len(nodes) : PrivateSlice(slices, nodes[id])
  BY <1>1, <1>3 DEF IInv, WalkIsPrivate, PrivateSlice
<1>5. \A k \in 1..Len(slices) : \A j \in 1..Len(slices[k]) : slices[k][j] \in 1..Len(nodes)
  BY DEF IInv, PublishedClosed
<1> QED  BY <1>1, <1>2, <1>3, <1>4, <1>5 DEF Built, IInv, ChildrenInRange

\* The part of the invariant that is about the heaps.
HeapInv ==
    /\ nodes \in Seq(Node) /\ slices \in Seq(Seq(Nat))
    /\ PublishedClosed /\ ChildrenInRange
    /\ \A id \in (mark.nodes + 1)..Len(nodes) :
          nodes[id].children = 0 \/ nodes[id].children > mark.slices

\* And sound heaps after a step give the invariant's heap part.
LEMMA ThenBuilt ==
    ASSUME IInv, Built(nodes', slices'), trees' = trees, mark' = mark
    PROVE  HeapInv' /\ FrozenStep
<1>1. /\ nodes' \in Seq(Node) /\ slices' \in Seq(Seq(Nat))
      /\ mark.nodes \in Nat /\ mark.slices \in Nat
      /\ Len(nodes') \in Nat /\ Len(slices') \in Nat
  BY DEF IInv, TypeOK, Built
<1>2. Frozen(nodes', slices')
  BY DEF Built
<1>3. FrozenStep
  BY <1>2 DEF Frozen, FrozenStep
<1>4. \A id \in 1..Len(nodes') : nodes'[id].children <= Len(slices')
  BY DEF Built
<1>5. \A id \in 1..mark.nodes : nodes'[id].children <= mark.slices
  BY <1>3 DEF IInv, PublishedClosed, FrozenStep
<1>6. \A k \in 1..mark.slices : \A j \in 1..Len(slices'[k]) : slices'[k][j] \in 1..mark.nodes
  BY <1>3 DEF IInv, PublishedClosed, FrozenStep
<1>7. \A k \in 1..Len(slices') : \A j \in 1..Len(slices'[k]) : slices'[k][j] \in 1..Len(nodes')
  BY DEF Built
<1>8. \A m \in Method : trees[m] <= mark.nodes
  BY DEF IInv, PublishedClosed
<1>9. PublishedClosed'
  BY <1>1, <1>2, <1>4, <1>5, <1>6, <1>7, <1>8 DEF PublishedClosed, Frozen
<1>10. ChildrenInRange'
  BY DEF Built, ChildrenInRange, InRange, Children
<1>11. \A id \in (mark.nodes + 1)..Len(nodes') :
          nodes'[id].children = 0 \/ nodes'[id].children > mark.slices
  <2>1. \A id \in (mark.nodes + 1)..Len(nodes') : PrivateSlice(slices', nodes'[id])
    BY DEF Built
  <2> QED  BY <1>1, <2>1 DEF PrivateSlice
<1> QED  BY <1>1, <1>3, <1>9, <1>10, <1>11 DEF HeapInv

\* The node the walk stands on, and its children.
LEMMA Here ==
    ASSUME IInv, pc \in {"walk", "insert"}
    PROVE  /\ n \in (mark.nodes + 1)..Len(nodes) /\ n \in 1..Len(nodes)
           /\ nodes[n] \in Node /\ Sound(slices, nodes[n])
           /\ cs \in Seq(Nat) /\ KidsOf(nodes, cs)
           /\ nodes[n].children # 0 =>
                 nodes[n].children \in (mark.slices + 1)..Len(slices)
                 /\ cs = slices[nodes[n].children]
<1>1. Built(nodes, slices)
  BY NowBuilt
<1>2. n \in (mark.nodes + 1)..Len(nodes) /\ mark.nodes \in Nat /\ Len(nodes) \in Nat
  BY DEF IInv, WalkIsPrivate, TypeOK
<1>3. n \in 1..Len(nodes)
  BY <1>2
<1>4. nodes[n] \in Node
  BY <1>3 DEF IInv, TypeOK
<1>5. Sound(slices, nodes[n])
  BY <1>1, <1>2, <1>3, <1>4 DEF Built, Sound
<1>6. nodes[n].children # 0 =>
         nodes[n].children \in (mark.slices + 1)..Len(slices)
         /\ cs = slices[nodes[n].children]
  BY <1>5 DEF Sound, PrivateSlice, cs, Children
<1>m. mark.slices \in Nat /\ Len(slices) \in Nat
  BY DEF IInv, TypeOK
<1>7. nodes[n].children # 0 => nodes[n].children \in 1..Len(slices)
  BY ONLY <1>6, <1>m
<1>8. cs \in Seq(Nat) /\ KidsOf(nodes, cs)
  <2>1. CASE nodes[n].children = 0
    BY <2>1, EmptySeq DEF cs, Children, KidsOf
  <2>2. CASE nodes[n].children # 0
    <3>1. cs = slices[nodes[n].children] /\ nodes[n].children \in 1..Len(slices)
      BY <1>6, <1>7, <2>2
    <3> HIDE DEF cs
    <3> QED  BY <1>1, <3>1 DEF Built, KidsOf
  <2> QED  BY <2>1, <2>2
<1> QED  BY <1>2, <1>3, <1>4, <1>5, <1>6, <1>8

-----------------------------------------------------------------------------
(* The steps that go down the tree.                                        *)

\* copyNode gives a node a slice of its own, with the same children.
LEMMA CopySound ==
    ASSUME NEW ns, NEW ss, Built(ns, ss), NEW id \in 1..Len(ns), NEW v \in Nat
    PROVE  /\ Built(ns, CopySlice(ss, ns[id]))
           /\ Sound(CopySlice(ss, ns[id]), [CopyNode(ss, ns[id]) EXCEPT !.priority = v])
           /\ Len(CopySlice(ss, ns[id])) >= Len(ss)
           /\ \A k \in 1..Len(ss) : CopySlice(ss, ns[id])[k] = ss[k]
<1> DEFINE nd == ns[id]
           hs == CopySlice(ss, nd)
           x == [CopyNode(ss, nd) EXCEPT !.priority = v]
<1>1. nd \in Node /\ InRange(ss, nd) /\ nd.children <= Len(ss)
  BY DEF Built
<1>2. nd.children \in Nat /\ ss \in Seq(Seq(Nat)) /\ Len(ss) \in Nat /\ mark.slices \in 0..Len(ss)
  BY <1>1, NodeFields DEF Built, Frozen
<1> HIDE DEF nd
<1>3. CASE nd.children = 0
  <2>1. hs = ss /\ x = [nd EXCEPT !.children = 0, !.priority = v]
    BY <1>1, <1>3 DEF CopySlice, CopyNode, Node
  <2> HIDE DEF x
  <2>2. x \in Node /\ x.children = 0 /\ x.indices = nd.indices
    BY <1>1, <2>1 DEF Node
  <2>a. x.wildChild = nd.wildChild
    BY <1>1, <2>1 DEF Node
  <2>3. Sound(ss, x)
    BY <1>1, <1>3, <2>2, <2>a DEF Sound, PrivateSlice, InRange, Children
  <2> QED  BY <1>2, <2>1, <2>3 DEF nd, x
<1>4. CASE nd.children # 0
  <2>1. nd.children \in 1..Len(ss)
    BY <1>1, <1>2, <1>4
  <2>2. KidsOf(ns, ss[nd.children])
    BY <1>2, <2>1 DEF Built, KidsOf
  <2>3. hs = Append(ss, ss[nd.children])
    BY <1>4 DEF CopySlice
  <2>4. Built(ns, hs)
    BY <2>2, <2>3, AllocSlice
  <2>5. Len(hs) = Len(ss) + 1 /\ hs[Len(ss) + 1] = ss[nd.children]
        /\ \A k \in 1..Len(ss) : hs[k] = ss[k]
    BY <1>2, <2>1, <2>3, Alloc
  <2>a. x = [nd EXCEPT !.children = Len(ss) + 1, !.priority = v]
    BY <1>1, <1>4 DEF Node, CopyNode
  <2> HIDE DEF hs, x
  <2>6. x \in Node /\ x.children = Len(ss) + 1 /\ x.indices = nd.indices
    <3>1. Len(ss) + 1 \in Nat
      BY <1>2
    <3> QED  BY <1>1, <2>a, <3>1 DEF Node
  <2>b. x.wildChild = nd.wildChild
    BY <1>1, <2>a DEF Node
  <2>7. Children(hs, x) = Children(ss, nd)
    BY <1>2, <1>4, <2>5, <2>6 DEF Children
  <2>8. InRange(hs, x)
    BY <1>1, <2>6, <2>7, <2>b DEF InRange
  <2>9. PrivateSlice(hs, x)
    BY <1>2, <2>5, <2>6 DEF PrivateSlice
  <2>10. Sound(hs, x)
    BY <2>6, <2>8, <2>9 DEF Sound
  <2> QED  BY <1>2, <2>4, <2>5, <2>10 DEF hs, x, nd
<1> QED  BY <1>3, <1>4

\* After a step down the walk stands on a private node of positive priority.
Arrived == n' \in (mark.nodes + 1)..Len(nodes') /\ nodes'[n'].priority > 0

\* Descend copies the child and writes only the walk's own slice.
LEMMA DescendBuilds ==
    ASSUME IInv, pc = "walk", NEW pos \in 1..Len(cs), Descend(pos)
    PROVE  Built(nodes', slices') /\ Arrived
<1> DEFINE child == nodes[cs[pos]]
           x == [CopyNode(slices, child) EXCEPT !.priority = @ + 1]
           hs == CopySlice(slices, child)
           kids == [cs EXCEPT ![pos] = Len(nodes) + 1]
           own == nodes[n].children
<1>1. Built(nodes, slices)
  BY NowBuilt
<1>2. cs \in Seq(Nat) /\ KidsOf(nodes, cs)
  BY Here
<1>3. cs[pos] \in 1..Len(nodes)
  BY <1>2 DEF KidsOf
<1>4. own # 0
  BY EmptySeq DEF cs, Children
<1>5. own \in (mark.slices + 1)..Len(slices) /\ cs = slices[own]
  BY <1>4, Here
<1>6. child \in Node /\ child.priority \in Nat
  BY <1>1, <1>3, NodeFields DEF Built
<1>7. x = [CopyNode(slices, child) EXCEPT !.priority = child.priority + 1]
  BY <1>6 DEF CopyNode, Node
<1> HIDE DEF x
<1>a. child.priority + 1 \in Nat
  BY <1>6
<1>8. Built(nodes, hs) /\ Sound(hs, x) /\ Len(hs) >= Len(slices)
      /\ \A k \in 1..Len(slices) : hs[k] = slices[k]
  BY <1>1, <1>3, <1>7, <1>a, CopySound
<1> HIDE DEF hs
<1>9. Built(Append(nodes, x), hs)
  BY <1>8, AllocNode
<1>10. Len(nodes) \in Nat /\ nodes \in Seq(Node) /\ x \in Node
  BY <1>1, <1>8 DEF Built, Sound
<1>11. Len(Append(nodes, x)) = Len(nodes) + 1 /\ Append(nodes, x)[Len(nodes) + 1] = x
  BY <1>10, Alloc
<1>12. kids \in Seq(Nat) /\ Len(kids) = Len(cs)
       /\ \A j \in 1..Len(cs) : kids[j] = IF j = pos THEN Len(nodes) + 1 ELSE cs[j]
  BY <1>2, <1>10, Assign
<1> HIDE DEF kids
<1>13. KidsOf(Append(nodes, x), kids)
  <2> SUFFICES ASSUME NEW j \in 1..Len(kids) PROVE kids[j] \in 1..Len(Append(nodes, x))
    BY <1>12 DEF KidsOf
  <2>1. cs[j] \in 1..Len(nodes)
    BY <1>2, <1>12 DEF KidsOf
  <2> QED  BY <1>10, <1>11, <1>12, <2>1
<1>14. own \in (mark.slices + 1)..Len(hs) /\ hs[own] = cs
  <2>1. mark.slices \in Nat /\ Len(slices) \in Nat /\ Len(hs) \in Nat
    BY <1>8 DEF IInv, TypeOK, Built
  <2>2. own \in 1..Len(slices)
    BY <1>5, <2>1
  <2> QED  BY <1>5, <1>8, <2>1, <2>2
<1>15. Len(kids) >= Len(hs[own])
  BY <1>2, <1>12, <1>14
<1>16. Built(Append(nodes, x), [hs EXCEPT ![own] = kids])
  BY <1>9, <1>13, <1>14, <1>15, WriteSlice
<1>17. nodes' = Append(nodes, x) /\ slices' = [hs EXCEPT ![own] = kids] /\ n' = Len(nodes) + 1
  BY DEF Descend, x, hs, kids
<1>18. x.priority > 0
  BY <1>6, <1>7 DEF CopyNode, Node
<1>19. mark.nodes \in 0..Len(nodes)
  BY <1>1 DEF Built, Frozen
<1> QED  BY <1>10, <1>11, <1>16, <1>17, <1>18, <1>19 DEF Arrived

\* incrementChildPrio does too, and reorders children with their index bytes.
LEMMA IncrementBuilds ==
    ASSUME IInv, NEW ns, NEW ss, Built(ns, ss), n \in (mark.nodes + 1)..Len(ns),
           NEW pos \in 1..Len(ns[n].indices), IncrementChildPrio(ns, ss, pos)
    PROVE  Built(nodes', slices') /\ Arrived /\ Len(nodes') = Len(ns) + 1
<1> DEFINE own == ns[n].children
           kids == ss[own]
           child == ns[kids[pos]]
           prio == child.priority + 1
           x == [CopyNode(ss, child) EXCEPT !.priority = prio]
           hs == CopySlice(ss, child)
           new == Len(ns) + 1
           T == {k \in 1..(pos - 1) : \A j \in k..(pos - 1) : ns[kids[j]].priority < prio}
           to == pos - Cardinality(T)
           put == [kids EXCEPT ![pos] = new]
           moved == MoveLeft(put, pos, to)
           gs == Append(ns, x)
           ts == [hs EXCEPT ![own] = moved]
           y == [gs[n] EXCEPT !.indices = MoveLeft(@, pos, to)]
<1>1. /\ ns \in Seq(Node) /\ ss \in Seq(Seq(Nat)) /\ Len(ns) \in Nat /\ Len(ss) \in Nat
      /\ mark.nodes \in 0..Len(ns) /\ mark.slices \in 0..Len(ss)
  BY DEF Built, Frozen
<1>2. n \in 1..Len(ns) /\ ns[n] \in Node /\ InRange(ss, ns[n]) /\ PrivateSlice(ss, ns[n])
  BY <1>1 DEF Built
<1>3. ns[n].indices \in Seq(Symbols) /\ own \in Nat /\ Len(ns[n].indices) \in Nat /\ pos \in Nat
  BY <1>2, NodeFields
<1>4. own # 0
  BY <1>2, <1>3, EmptySeq DEF InRange, Children
<1>5. own \in (mark.slices + 1)..Len(ss) /\ own \in 1..Len(ss)
  BY <1>1, <1>2, <1>4 DEF PrivateSlice
<1>6. kids \in Seq(Nat) /\ KidsOf(ns, kids)
  <2>1. kids \in Seq(Nat)
    BY <1>1, <1>5
  <2>2. \A j \in 1..Len(kids) : kids[j] \in 1..Len(ns)
    BY <1>5 DEF Built
  <2> QED  BY <2>1, <2>2 DEF KidsOf
<1>7. pos \in 1..Len(kids)
  BY <1>2, <1>3, <1>4, <1>6 DEF InRange, Children
<1>8. kids[pos] \in 1..Len(ns)
  BY <1>6, <1>7 DEF KidsOf
<1>9. child \in Node
  BY ONLY <1>1, <1>8, ElementOfSeq DEF child, kids, own
<1>a. child.priority \in Nat
  BY <1>9, NodeFields
<1>10. prio \in Nat /\ prio > 0
  <2> HIDE DEF child
  <2> QED  BY <1>a
<1>11. x.priority = prio
  BY <1>9, <1>10 DEF CopyNode, Node
<1>12. Built(ns, hs) /\ Sound(hs, x) /\ Len(hs) >= Len(ss)
       /\ \A k \in 1..Len(ss) : hs[k] = ss[k]
  <2>1. Built(ns, ss) /\ kids[pos] \in 1..Len(ns) /\ prio \in Nat
    BY <1>8, <1>10
  <2> HIDE DEF prio, kids
  <2> QED  BY <2>1, CopySound
<1> HIDE DEF x, hs
<1>13. Built(gs, hs)
  BY <1>12, AllocNode
<1>14. Len(gs) = Len(ns) + 1 /\ gs[new] = x /\ gs[n] = ns[n]
  BY <1>1, <1>2, <1>12, Alloc DEF Sound
<1> HIDE DEF gs
<1>15. T \subseteq 1..(pos - 1) /\ pos - 1 \in Nat
  BY <1>3
<1> HIDE DEF T
<1>16. Cardinality(T) \in 0..(pos - 1)
  BY <1>15, CountBound
<1>17. to \in 1..pos
  BY <1>3, <1>16
<1> HIDE DEF to
<1>18. put \in Seq(Nat) /\ Len(put) = Len(kids)
       /\ \A j \in 1..Len(kids) : put[j] = IF j = pos THEN new ELSE kids[j]
  <2>1. new \in Nat /\ kids \in Seq(Nat)
    BY <1>1, <1>6
  <2> HIDE DEF new, kids
  <2> QED  BY <1>7, <2>1, Assign
<1> HIDE DEF put
<1>19. put \in Seq(1..Len(gs))
  <2>1. Len(gs) \in Nat /\ new \in 1..Len(gs)
    BY <1>1, <1>14
  <2>2. \A j \in 1..Len(put) : put[j] \in 1..Len(gs)
    <3> TAKE j \in 1..Len(put)
    <3>1. kids[j] \in 1..Len(ns)
      BY <1>6, <1>18 DEF KidsOf
    <3>2. put[j] = IF j = pos THEN new ELSE kids[j]
      BY <1>18
    <3> HIDE DEF kids, new
    <3>3. Len(gs) >= Len(ns) /\ Len(ns) \in Nat
      BY <1>1, <1>14
    <3> QED  BY ONLY <2>1, <3>1, <3>2, <3>3
  <2>3. put \in Seq(Nat)
    BY <1>18
  <2> HIDE DEF kids
  <2> QED  BY ONLY <2>2, <2>3
<1>20. moved \in Seq(1..Len(gs)) /\ Len(moved) = Len(kids)
  BY <1>7, <1>17, <1>18, <1>19, MoveLeftType
<1> HIDE DEF moved
<1>21. KidsOf(gs, moved)
  <2>1. 1..Len(gs) \subseteq Nat
    BY <1>1, <1>14
  <2> QED  BY <1>20, <2>1, SeqMonotonic DEF KidsOf
<1>22. own \in (mark.slices + 1)..Len(hs) /\ hs[own] = kids
  <2>1. Len(hs) \in Nat
    BY <1>12 DEF Built
  <2>2. hs[own] = kids
    BY <1>5, <1>12
  <2>3. mark.slices \in Nat /\ Len(ss) <= Len(hs)
    BY <1>1, <1>12
  <2> HIDE DEF own
  <2>4. own \in (mark.slices + 1)..Len(hs)
    BY <1>1, <1>5, <2>1, <2>3
  <2> QED  BY <2>2, <2>4
<1>23. Len(moved) >= Len(hs[own])
  BY <1>6, <1>20, <1>22
<1>24. Built(gs, ts)
  BY <1>13, <1>21, <1>22, <1>23, WriteSlice
<1> HIDE DEF ts
<1>25. Sound(ts, y)
  <2>1. MoveLeft(ns[n].indices, pos, to) \in Seq(Symbols)
        /\ Len(MoveLeft(ns[n].indices, pos, to)) = Len(ns[n].indices)
    BY <1>3, <1>17, MoveLeftType
  <2>2. y = [ns[n] EXCEPT !.indices = MoveLeft(ns[n].indices, pos, to)]
    BY <1>2, <1>14 DEF Node
  <2> HIDE DEF y
  <2>3. y \in Node /\ y.children = own /\ Len(y.indices) = Len(ns[n].indices)
    BY <1>2, <2>1, <2>2 DEF Node
  <2>4. y.wildChild = ns[n].wildChild
    BY <1>2, <2>2 DEF Node
  <2>5. InRange(ts, ns[n]) /\ PrivateSlice(ts, ns[n])
    <3>1. n \in 1..Len(gs) /\ n \in (mark.nodes + 1)..Len(gs)
      BY <1>1, <1>2, <1>14
    <3> QED  BY <1>14, <1>24, <3>1 DEF Built
  <2>6. InRange(ts, y)
    BY <2>3, <2>4, <2>5 DEF InRange, Children
  <2>7. PrivateSlice(ts, y)
    BY <2>3, <2>5 DEF PrivateSlice
  <2> QED  BY <2>3, <2>6, <2>7 DEF Sound
<1>26. n \in (mark.nodes + 1)..Len(gs) /\ new # n
  BY <1>1, <1>2, <1>14
<1>27. Built([gs EXCEPT ![n] = y], ts)
  BY <1>24, <1>25, <1>26, WriteNode
<1>28. nodes' = [gs EXCEPT ![n] = y] /\ slices' = ts /\ n' = new
  BY DEF IncrementChildPrio, gs, ts, moved, put, to, T, x, hs
<1>29. Len(nodes') = Len(gs) /\ nodes'[new] = x
  <2>1. gs \in Seq(Node) /\ y \in Node /\ n \in 1..Len(gs) /\ new \in 1..Len(gs)
    BY <1>1, <1>2, <1>14, <1>24, <1>25 DEF Built, Sound
  <2> HIDE DEF y, new
  <2> QED  BY <1>14, <1>26, <1>28, <2>1, Assign
<1> HIDE DEF y, prio
<1>30. new \in (mark.nodes + 1)..Len(gs)
  BY <1>1, <1>14
<1>31. nodes'[n'].priority > 0
  BY <1>10, <1>11, <1>28, <1>29
<1> QED  BY <1>14, <1>27, <1>28, <1>29, <1>30, <1>31 DEF Arrived

-----------------------------------------------------------------------------
(* One step at a time.                                                     *)

\* The part of the invariant that is about the goroutine that holds mu.
LocalInv ==
    /\ trees \in [Method -> Nat]
    /\ mark \in [nodes: Nat, slices: Nat]
    /\ pc \in {"idle", "call", "walk", "insert", "return", "publish"}
    /\ job \in [method: Method, handler: Patterns, root: Nat,
                added: SUBSET (Patterns \X Patterns)]
    /\ todo \in Seq(Patterns)
    /\ n \in Nat /\ path \in Seq(Symbols) /\ fullPath \in Seq(Symbols)
    /\ routes \in [Method -> SUBSET (Patterns \X Patterns)]
    /\ pc # "idle" => job.root \in (mark.nodes + 1)..Len(nodes)
    /\ pc \in {"walk", "insert"} => n \in (mark.nodes + 1)..Len(nodes)
    /\ pc = "walk" => nodes[n].priority > 0
    /\ pc \in {"call", "walk", "insert", "return"} => todo # <<>>

\* The invariant is its heap part and its part on the locals.
LEMMA Parts == IInv <=> HeapInv /\ LocalInv
  BY DEF IInv, HeapInv, LocalInv, TypeOK, WalkIsPrivate

\* A step that keeps both parts, and moves no published memory, keeps the invariant.
LEMMA StepKeeps ==
    ASSUME IInv, Built(nodes', slices'), trees' = trees, mark' = mark, LocalInv'
    PROVE  IInv' /\ FrozenStep
<1>1. HeapInv' /\ FrozenStep
  BY ThenBuilt
<1>2. IInv'
  BY <1>1 DEF IInv, HeapInv, LocalInv, TypeOK, WalkIsPrivate
<1> QED  BY <1>1, <1>2

\* A step of the walk or of insertChild that stays inside addRouteInternal.
LEMMA WalkKeeps ==
    ASSUME IInv, pc \in {"walk", "insert"},
           Built(nodes', slices'), Len(nodes') >= Len(nodes),
           n' \in (mark.nodes + 1)..Len(nodes'),
           pc' \in {"walk", "insert", "return"},
           pc' = "walk" => nodes'[n'].priority > 0,
           path' \in Seq(Symbols),
           UNCHANGED <<trees, mark, job, todo, fullPath, routes>>
    PROVE  IInv' /\ FrozenStep
<1>1. LocalInv
  BY Parts
<1>2. mark.nodes \in Nat /\ Len(nodes) \in Nat /\ Len(nodes') \in Nat
  BY DEF IInv, TypeOK, Built
<1>3. n' \in Nat
  BY <1>2
<1>4. job.root \in (mark.nodes + 1)..Len(nodes')
  BY <1>1, <1>2 DEF LocalInv
<1>5. todo # <<>>
  BY <1>1 DEF LocalInv
<1>6. LocalInv'
  BY <1>1, <1>3, <1>4, <1>5 DEF LocalInv
<1> QED  BY <1>6, StepKeeps

\* The action Split keeps the invariant and writes no published memory.
LEMMA SplitStep ==
    ASSUME IInv, Split
    PROVE  IInv' /\ FrozenStep
<1> DEFINE nd == nodes[n]
           k == Common
           id == Len(nodes) + 1
           rest == SplitRest
           top == SplitTop
           ns == Append(nodes, rest)
           ss == Append(slices, <<id>>)
<1>1. /\ pc = "walk" /\ k < Len(nd.path) /\ nodes' = [ns EXCEPT ![n] = top]
      /\ slices' = ss /\ UNCHANGED <<trees, mark, pc, job, todo, n, path, fullPath, routes>>
  BY DEF Split, locals
<1>2. Built(nodes, slices)
  BY NowBuilt
<1>3. n \in (mark.nodes + 1)..Len(nodes) /\ n \in 1..Len(nodes)
      /\ nd \in Node /\ Sound(slices, nd)
  BY <1>1, Here
<1>4. path \in Seq(Symbols) /\ Len(nodes) \in Nat /\ Len(slices) \in Nat
      /\ nodes \in Seq(Node) /\ slices \in Seq(Seq(Nat)) /\ mark.nodes \in 0..Len(nodes)
      /\ mark.slices \in 0..Len(slices) /\ nd.priority > 0
  BY <1>1, <1>2 DEF IInv, TypeOK, Built, Frozen, WalkIsPrivate
<1>5. nd.path \in Seq(Symbols) /\ nd.indices \in Seq(Symbols) /\ nd.children \in Nat
      /\ nd.priority \in Nat /\ nd.wildChild \in BOOLEAN
      /\ nd.handler \in Patterns /\ nd.pattern \in Patterns
  BY <1>3, NodeFields
<1>6. k \in 0..Len(path) /\ k + 1 \in 1..Len(nd.path)
  <2>1. k \in 0..Len(path) /\ k <= Len(nd.path)
    BY <1>4, <1>5, CommonType DEF Common
  <2> HIDE DEF nd, k
  <2> QED  BY <1>1, <1>5, <2>1
<1> HIDE DEF nd, k
<1>7. From(nd.path, k + 1) \in Seq(Symbols) /\ Upto(path, k) \in Seq(Symbols)
  <2>1. k + 1 \in 1..(Len(nd.path) + 1) /\ 0 \in 0..Len(nd.path) /\ 1 \in 1..(Len(path) + 1)
    BY <1>4, <1>5, <1>6
  <2> QED  BY <1>4, <1>5, <1>6, <2>1, PieceType
<1>8. nd.priority - 1 \in Nat
  BY <1>4, <1>5
<1>9. rest \in Node /\ rest.children = nd.children /\ rest.indices = nd.indices
  BY <1>5, <1>7, <1>8 DEF SplitRest, EmptyNode, Node, NodeTypes, nd, k
<1>10. rest.wildChild = nd.wildChild
  BY DEF SplitRest, EmptyNode, nd
<1> HIDE DEF rest
<1>11. Sound(slices, rest)
  BY <1>3, <1>9, <1>10 DEF Sound, PrivateSlice, InRange, Children
<1>12. Built(ns, slices)
  BY <1>2, <1>11, AllocNode
<1>13. Len(ns) = id /\ ns[n] = nd
  BY <1>3, <1>4, <1>9, Alloc DEF nd
<1> HIDE DEF ns
<1>14. KidsOf(ns, <<id>>)
  BY <1>4, <1>13 DEF KidsOf
<1>15. Built(ns, ss)
  BY <1>12, <1>14, AllocSlice
<1>16. Len(ss) = Len(slices) + 1 /\ ss[Len(slices) + 1] = <<id>>
  BY <1>4
<1> HIDE DEF ss
<1>17. Sound(ss, top)
  <2>1. nd.path[k + 1] \in Symbols
    BY <1>5, <1>6
  <2>2. Len(slices) + 1 \in Nat /\ NoHandler \in Patterns /\ <<>> \in Patterns
        /\ <<nd.path[k + 1]>> \in Seq(Symbols)
    BY <1>4, <2>1 DEF NoHandler, Patterns
  <2>3. top \in Node /\ top.children = Len(slices) + 1 /\ Len(top.indices) = 1
    BY <1>3, <1>7, <2>2 DEF SplitTop, Node, nd, k
  <2>4. ~ top.wildChild
    BY <1>3 DEF SplitTop, Node, nd
  <2> HIDE DEF top
  <2>5. PrivateSlice(ss, top)
    BY <1>4, <1>16, <2>3 DEF PrivateSlice
  <2>6. Children(ss, top) = <<id>>
    BY <1>4, <1>16, <2>3 DEF Children
  <2>7. InRange(ss, top)
    BY <2>3, <2>4, <2>6 DEF InRange
  <2> QED  BY <2>3, <2>5, <2>7 DEF Sound
<1>18. n \in (mark.nodes + 1)..Len(ns)
  BY <1>3, <1>4, <1>13
<1>19. Built(nodes', slices')
  BY <1>1, <1>15, <1>17, <1>18, WriteNode
<1>20. top \in Node /\ top.priority = nd.priority
  BY <1>3, <1>17 DEF SplitTop, Sound, Node, nd
<1> HIDE DEF top
<1>21. Len(nodes') = Len(ns) /\ nodes'[n] = top
  <2>1. n \in 1..Len(ns) /\ ns \in Seq(Node)
    BY <1>3, <1>4, <1>13, <1>15 DEF Built
  <2> QED  BY <1>1, <1>20, <2>1, Assign
<1>22. n' \in (mark.nodes + 1)..Len(nodes') /\ nodes'[n'].priority > 0 /\ Len(nodes') >= Len(nodes)
  BY <1>1, <1>4, <1>13, <1>18, <1>20, <1>21
<1> QED  BY <1>1, <1>4, <1>19, <1>22, WalkKeeps

\* The path below a node whose own path is a prefix of it.
LEMMA BelowType ==
    ASSUME IInv, AtBelow
    PROVE  /\ pc = "walk" /\ Below \in Seq(Symbols) /\ c \in Symbols
           /\ Len(nodes[n].path) < Len(path)
<1>1. pc = "walk" /\ Common = Len(nodes[n].path) /\ Len(path) > Common
  BY DEF AtBelow
<1>2. path \in Seq(Symbols) /\ nodes[n].path \in Seq(Symbols)
  BY <1>1, Here, NodeFields DEF IInv, TypeOK
<1>3. Len(nodes[n].path) \in Nat /\ Len(path) \in Nat
  BY <1>2
<1> DEFINE k == Len(nodes[n].path)
<1>4. k + 1 \in 1..(Len(path) + 1) /\ k + 1 \in 1..Len(path) /\ 0 \in 0..Len(path)
  BY <1>1, <1>3
<1> HIDE DEF k
<1>5. From(path, k + 1) \in Seq(Symbols) /\ path[k + 1] \in Symbols
  BY <1>2, <1>4, PieceType
<1> QED  BY <1>1, <1>5 DEF Below, c, k

\* The action DescendParam keeps the invariant and writes no published memory.
LEMMA DescendParamStep ==
    ASSUME IInv, DescendParam
    PROVE  IInv' /\ FrozenStep
<1>1. AtBelow /\ Len(cs) = 1 /\ Descend(1) /\ path' = Below
      /\ UNCHANGED <<trees, mark, pc, job, todo, fullPath, routes>>
  BY DEF DescendParam, AtParamChild
<1>2. pc = "walk" /\ path' \in Seq(Symbols)
  BY <1>1, BelowType
<1>3. Built(nodes', slices') /\ Arrived
  BY <1>1, <1>2, DescendBuilds
<1>4. Len(nodes') >= Len(nodes)
  BY <1>1 DEF Descend, IInv, TypeOK
<1> QED  BY <1>1, <1>2, <1>3, <1>4, WalkKeeps DEF Arrived

\* The action DescendWild keeps the invariant and writes no published memory.
LEMMA DescendWildStep ==
    ASSUME IInv, DescendWild
    PROVE  IInv' /\ FrozenStep
<1>1. AtBelow /\ nodes[n].wildChild /\ Descend(Len(cs)) /\ path' = Below
      /\ UNCHANGED <<trees, mark, pc, job, todo, fullPath, routes>>
  BY DEF DescendWild, Unindexed
<1>2. pc = "walk" /\ path' \in Seq(Symbols)
  BY <1>1, BelowType
<1>3. cs \in Seq(Nat) /\ cs # <<>>
  BY <1>1, <1>2, Here DEF Sound, InRange, cs
<1>4. Len(cs) \in 1..Len(cs)
  BY <1>3
<1>5. Built(nodes', slices') /\ Arrived
  BY <1>1, <1>2, <1>4, DescendBuilds
<1>6. Len(nodes') >= Len(nodes)
  BY <1>1 DEF Descend, IInv, TypeOK
<1> QED  BY <1>1, <1>2, <1>5, <1>6, WalkKeeps DEF Arrived

\* The action DescendStatic keeps the invariant and writes no published memory.
LEMMA DescendStaticStep ==
    ASSUME IInv, DescendStatic
    PROVE  IInv' /\ FrozenStep
<1>1. AtBelow /\ path' = Below
      /\ UNCHANGED <<trees, mark, pc, job, todo, fullPath, routes>>
  BY DEF DescendStatic
<1>2. pc = "walk" /\ path' \in Seq(Symbols)
  BY <1>1, BelowType
<1>3. PICK j \in IndexOf(c) : IncrementChildPrio(nodes, slices, j)
  BY DEF DescendStatic
<1>4. j \in 1..Len(nodes[n].indices)
  BY DEF IndexOf
<1>5. n \in (mark.nodes + 1)..Len(nodes) /\ Built(nodes, slices)
  BY <1>2, Here, NowBuilt
<1>6. Built(nodes', slices') /\ Arrived /\ Len(nodes') = Len(nodes) + 1
  BY <1>3, <1>4, <1>5, IncrementBuilds
<1>7. Len(nodes) \in Nat
  BY DEF IInv, TypeOK
<1>8. Len(nodes') >= Len(nodes)
  BY <1>6, <1>7
<1> QED  BY <1>1, <1>2, <1>6, <1>8, WalkKeeps DEF Arrived

\* The action AddWild keeps the invariant and writes no published memory.
LEMMA AddWildStep ==
    ASSUME IInv, AddWild
    PROVE  IInv' /\ FrozenStep
<1>1. AtBelow /\ path' = Below /\ pc' = "insert"
      /\ UNCHANGED <<nodes, slices, trees, mark, job, todo, n, fullPath, routes>>
  BY DEF AddWild, Unindexed, heap
<1>2. pc = "walk" /\ path' \in Seq(Symbols)
  BY <1>1, BelowType
<1>3. n \in (mark.nodes + 1)..Len(nodes) /\ Built(nodes, slices) /\ Len(nodes) \in Nat
  BY <1>2, Here, NowBuilt DEF IInv, TypeOK
<1>4. Built(nodes', slices')
  BY <1>1, <1>3
<1> QED  BY <1>1, <1>2, <1>3, <1>4, WalkKeeps

\* Writing only the handler, the pattern or the literal path of a private node.
LEMMA LabelSound ==
    ASSUME NEW ss, NEW nd, Sound(ss, nd), NEW x \in Node,
           x.children = nd.children, x.indices = nd.indices, x.wildChild = nd.wildChild
    PROVE  Sound(ss, x)
  BY DEF Sound, PrivateSlice, InRange, Children

\* The handler and the pattern a node gets have their types.
LEMMA LabelTypes ==
    ASSUME IInv
    PROVE  /\ nodes \in Seq(Node) /\ path \in Seq(Symbols) /\ job.handler \in Patterns
           /\ fullPath \in Patterns /\ Len(nodes) \in Nat
<1>1. fullPath \in Seq(Symbols)
  BY DEF IInv, TypeOK
<1>2. fullPath \in Seq(Symbols \cup Optionals)
  BY <1>1
<1> QED  BY <1>2 DEF IInv, TypeOK, Patterns

\* The action SetHandler keeps the invariant and writes no published memory.
LEMMA SetHandlerStep ==
    ASSUME IInv, SetHandler
    PROVE  IInv' /\ FrozenStep
<1> DEFINE x == [nodes[n] EXCEPT !.handler = job.handler, !.pattern = fullPath]
<1>1. pc = "walk" /\ nodes' = [nodes EXCEPT ![n].handler = job.handler, ![n].pattern = fullPath]
      /\ pc' = "return" /\ UNCHANGED <<slices, trees, mark, job, todo, n, path, fullPath, routes>>
  BY DEF SetHandler, locals
<1>2. n \in (mark.nodes + 1)..Len(nodes) /\ n \in 1..Len(nodes)
      /\ nodes[n] \in Node /\ Sound(slices, nodes[n])
  BY <1>1, Here
<1>3. nodes \in Seq(Node) /\ path \in Seq(Symbols) /\ job.handler \in Patterns
      /\ fullPath \in Patterns /\ Len(nodes) \in Nat
  BY LabelTypes
<1>4. nodes' = [nodes EXCEPT ![n] = x]
  BY <1>1, <1>2, <1>3
<1>5. x \in Node /\ x.children = nodes[n].children /\ x.indices = nodes[n].indices
  BY <1>2, <1>3 DEF Node
<1>6. x.wildChild = nodes[n].wildChild
  BY <1>2 DEF Node
<1> HIDE DEF x
<1>7. Sound(slices, x)
  BY <1>2, <1>5, <1>6, LabelSound
<1>8. Built(nodes', slices')
  <2>1. Built(nodes, slices)
    BY NowBuilt
  <2>2. Built([nodes EXCEPT ![n] = x], slices)
    BY <1>2, <1>7, <2>1, WriteNode
  <2> QED  BY <1>1, <1>4, <2>2
<1>9. Len(nodes') = Len(nodes)
  BY <1>3, <1>4
<1> QED  BY <1>1, <1>2, <1>3, <1>8, <1>9, WalkKeeps

\* The action InsertStatic keeps the invariant and writes no published memory.
LEMMA InsertStaticStep ==
    ASSUME IInv, InsertStatic
    PROVE  IInv' /\ FrozenStep
<1> DEFINE x == [nodes[n] EXCEPT !.path = path, !.handler = job.handler, !.pattern = fullPath]
<1>1. pc = "insert" /\ nodes' = [nodes EXCEPT ![n].path = path, ![n].handler = job.handler,
                                             ![n].pattern = fullPath]
      /\ pc' = "return" /\ UNCHANGED <<slices, trees, mark, job, todo, n, path, fullPath, routes>>
  BY DEF InsertStatic, locals
<1>2. n \in (mark.nodes + 1)..Len(nodes) /\ n \in 1..Len(nodes)
      /\ nodes[n] \in Node /\ Sound(slices, nodes[n])
  BY <1>1, Here
<1>3. nodes \in Seq(Node) /\ path \in Seq(Symbols) /\ job.handler \in Patterns
      /\ fullPath \in Patterns /\ Len(nodes) \in Nat
  BY LabelTypes
<1>4. nodes' = [nodes EXCEPT ![n] = x]
  BY <1>1, <1>2, <1>3
<1>5. x \in Node /\ x.children = nodes[n].children /\ x.indices = nodes[n].indices
  BY <1>2, <1>3 DEF Node
<1>6. x.wildChild = nodes[n].wildChild
  BY <1>2 DEF Node
<1> HIDE DEF x
<1>7. Sound(slices, x)
  BY <1>2, <1>5, <1>6, LabelSound
<1>8. Built(nodes', slices')
  <2>1. Built(nodes, slices)
    BY NowBuilt
  <2>2. Built([nodes EXCEPT ![n] = x], slices)
    BY <1>2, <1>7, <2>1, WriteNode
  <2> QED  BY <1>1, <1>4, <2>2
<1>9. Len(nodes') = Len(nodes)
  BY <1>3, <1>4
<1> QED  BY <1>1, <1>2, <1>3, <1>8, <1>9, WalkKeeps

\* append(n.children, ...) writes n's own slice.
LEMMA OwnSliceBuilt ==
    ASSUME IInv, pc \in {"walk", "insert"}, NEW ns, Built(ns, slices),
           NEW kids, KidsOf(ns, kids), Len(kids) >= Len(cs)
    PROVE  /\ Built(ns, SlicesWith(kids))
           /\ OwnSlice \in (mark.slices + 1)..Len(SlicesWith(kids))
           /\ OwnSlice \in Nat /\ OwnSlice # 0
           /\ SlicesWith(kids)[OwnSlice] = kids
           /\ Len(SlicesWith(kids)) \in Nat
<1>1. slices \in Seq(Seq(Nat)) /\ Len(slices) \in Nat /\ mark.slices \in 0..Len(slices)
      /\ kids \in Seq(Nat)
  BY DEF Built, Frozen, KidsOf
<1>2. CASE nodes[n].children = 0
  <2>1. SlicesWith(kids) = Append(slices, kids) /\ OwnSlice = Len(slices) + 1
    BY <1>2 DEF SlicesWith, OwnSlice
  <2>2. Built(ns, Append(slices, kids))
    BY AllocSlice
  <2>3. Len(Append(slices, kids)) = Len(slices) + 1 /\ Append(slices, kids)[Len(slices) + 1] = kids
    BY <1>1
  <2> QED  BY <1>1, <2>1, <2>2, <2>3
<1>3. CASE nodes[n].children # 0
  <2>1. SlicesWith(kids) = [slices EXCEPT ![nodes[n].children] = kids]
        /\ OwnSlice = nodes[n].children
    BY <1>3 DEF SlicesWith, OwnSlice
  <2>2. nodes[n].children \in (mark.slices + 1)..Len(slices) /\ cs = slices[nodes[n].children]
    BY <1>3, Here
  <2> DEFINE i == nodes[n].children
  <2>3. i \in 1..Len(slices) /\ Len(kids) >= Len(slices[i]) /\ i \in (mark.slices + 1)..Len(slices)
    BY <1>1, <2>2
  <2> HIDE DEF i
  <2>4. Built(ns, [slices EXCEPT ![i] = kids])
    BY <2>3, WriteSlice
  <2>5. Len([slices EXCEPT ![i] = kids]) = Len(slices) /\ [slices EXCEPT ![i] = kids][i] = kids
    BY <1>1, <2>3, Assign
  <2> QED  BY <1>1, <2>1, <2>3, <2>4, <2>5 DEF i
<1> QED  BY <1>2, <1>3

\* A node without children.
LEMMA LeafSound ==
    ASSUME IInv, NEW ss, NEW x \in Node, x.children = 0, x.indices = <<>>, x.wildChild = FALSE
    PROVE  Sound(ss, x)
  BY DEF Sound, PrivateSlice, InRange, Children

\* &node{} is a node.
LEMMA EmptyNodeType == EmptyNode \in Node
<1>1. <<>> \in Seq(Symbols) /\ <<>> \in Patterns
  BY DEF Patterns
<1> QED  BY <1>1 DEF EmptyNode, Node, NodeTypes, NoHandler

\* The action AddStatic keeps the invariant and writes no published memory.
LEMMA AddStaticStep ==
    ASSUME IInv, AddStatic
    PROVE  IInv' /\ FrozenStep
<1> DEFINE nd == nodes[n]
           fresh == Len(nodes) + 1
           kids == IF nd.wildChild THEN Append([cs EXCEPT ![Len(cs)] = fresh], cs[Len(cs)])
                   ELSE Append(cs, fresh)
           pos == Len(nd.indices) + 1
           x == [nd EXCEPT !.indices = Append(nd.indices, c), !.children = OwnSlice]
           ms == Append(nodes, EmptyNode)
           ns == [ms EXCEPT ![n] = x]
           ss == SlicesWith(kids)
<1>1. AtBelow /\ path' = Below /\ pc' = "insert"
      /\ UNCHANGED <<trees, mark, job, todo, fullPath, routes>>
  BY DEF AddStatic, Unindexed
<1>2. pc = "walk" /\ path' \in Seq(Symbols) /\ c \in Symbols
  BY <1>1, BelowType
<1>3. n \in (mark.nodes + 1)..Len(nodes) /\ n \in 1..Len(nodes)
      /\ nd \in Node /\ Sound(slices, nd) /\ cs \in Seq(Nat) /\ KidsOf(nodes, cs)
  BY <1>2, Here
<1>4. nodes \in Seq(Node) /\ Len(nodes) \in Nat /\ Built(nodes, slices)
  BY NowBuilt DEF Built
<1>5. nd.indices \in Seq(Symbols) /\ nd.wildChild \in BOOLEAN
  BY <1>3, NodeFields
<1>6. Len(ms) = fresh /\ ms[n] = nd /\ ms \in Seq(Node)
  BY <1>3, <1>4, Alloc, EmptyNodeType
<1>7. Built(ms, slices)
  <2>1. Sound(slices, EmptyNode)
    BY EmptyNodeType, LeafSound DEF EmptyNode
  <2> QED  BY <1>4, <2>1, AllocNode
<1>8. nd.wildChild => Len(cs) \in 1..Len(cs)
  <2>1. nd.wildChild => cs # <<>>
    BY <1>3 DEF Sound, InRange, cs
  <2> QED  BY <1>3, <2>1
<1>9. Len(nd.indices) <= Len(cs)
  BY <1>3 DEF Sound, InRange, cs
<1>10. KidsOf(ms, kids) /\ Len(kids) = Len(cs) + 1
  <2>1. fresh \in 1..Len(ms) /\ fresh \in Nat
    BY <1>4, <1>6
  <2>2. \A j \in 1..Len(cs) : cs[j] \in 1..Len(ms)
    BY <1>3, <1>4, <1>6 DEF KidsOf
  <2> DEFINE E == 1..Len(ms)
  <2>3. cs \in Seq(E) /\ fresh \in E
    BY <1>3, <2>1, <2>2
  <2> HIDE DEF E, fresh
  <2>4. CASE nd.wildChild
    <3>1. [cs EXCEPT ![Len(cs)] = fresh] \in Seq(E) /\ Len([cs EXCEPT ![Len(cs)] = fresh]) = Len(cs)
      BY <1>8, <2>3, <2>4, Assign
    <3>2. cs[Len(cs)] \in E
      BY <1>8, <2>3, <2>4
    <3>3. kids \in Seq(E) /\ Len(kids) = Len(cs) + 1
      BY <2>4, <3>1, <3>2, Alloc
    <3> HIDE DEF kids
    <3>4. E \subseteq Nat
      BY <1>6, <2>1 DEF E
    <3> QED  BY <3>3, <3>4, SeqMonotonic DEF KidsOf, E
  <2>5. CASE ~ nd.wildChild
    <3>3. kids \in Seq(E) /\ Len(kids) = Len(cs) + 1
      BY <2>3, <2>5, Alloc
    <3> HIDE DEF kids
    <3>4. E \subseteq Nat
      BY <1>6, <2>1 DEF E
    <3> QED  BY <3>3, <3>4, SeqMonotonic DEF KidsOf, E
  <2> QED  BY <2>4, <2>5
<1> HIDE DEF kids
<1>11. Len(kids) >= Len(cs) /\ Len(kids) \in Nat /\ Len(cs) \in Nat
  BY <1>3, <1>10 DEF KidsOf
<1>12. Built(ms, ss) /\ OwnSlice \in (mark.slices + 1)..Len(ss) /\ OwnSlice \in Nat
       /\ OwnSlice # 0 /\ ss[OwnSlice] = kids
  BY <1>2, <1>7, <1>10, <1>11, OwnSliceBuilt
<1> HIDE DEF ss
<1>13. Append(nd.indices, c) \in Seq(Symbols) /\ Len(Append(nd.indices, c)) = pos
  BY <1>2, <1>5, Alloc
<1>14. x \in Node /\ x.children = OwnSlice /\ x.indices = Append(nd.indices, c)
  BY <1>3, <1>12, <1>13 DEF Node
<1> HIDE DEF x
<1>15. Sound(ss, x)
  <2>1. Children(ss, x) = kids
    BY <1>12, <1>14 DEF Children
  <2>2. Len(x.indices) <= Len(kids) /\ kids # <<>>
    BY <1>5, <1>9, <1>10, <1>11, <1>13, <1>14
  <2>3. PrivateSlice(ss, x)
    BY <1>12, <1>14 DEF PrivateSlice
  <2> QED  BY <1>14, <2>1, <2>2, <2>3 DEF Sound, InRange
<1>16. n \in (mark.nodes + 1)..Len(ms) /\ n \in 1..Len(ms)
  BY <1>3, <1>4, <1>6
<1>17. Built(ns, ss)
  BY <1>12, <1>15, <1>16, WriteNode
<1>18. Len(ns) = Len(ms) /\ ns[n] = x
  BY <1>6, <1>14, <1>16, Assign
<1>19. IncrementChildPrio(ns, ss, pos)
  <2>1. ns = [Append(nodes, EmptyNode) EXCEPT ![n].indices = Append(@, c), ![n].children = OwnSlice]
    BY <1>6, <1>16 DEF x
  <2> QED  BY <2>1 DEF AddStatic, kids, ss
<1> HIDE DEF ns
<1>20. n \in (mark.nodes + 1)..Len(ns)
  BY <1>16, <1>18
<1>21. pos \in 1..Len(ns[n].indices)
  BY <1>5, <1>13, <1>14, <1>18
<1>22. Built(nodes', slices') /\ Arrived /\ Len(nodes') = Len(ns) + 1
  BY <1>17, <1>19, <1>20, <1>21, IncrementBuilds
<1>23. Len(nodes') >= Len(nodes)
  BY <1>4, <1>6, <1>18, <1>22
<1> QED  BY <1>1, <1>2, <1>22, <1>23, WalkKeeps DEF Arrived

\* The wildcard token insertChild stands at.
LEMMA TokenType ==
    ASSUME IInv, pc = "insert", Literal < Len(path)
    PROVE  /\ Token \in Symbols /\ Literal \in 0..Len(path) /\ Literal + 1 \in 1..Len(path)
           /\ Len(path) \in Nat /\ path \in Seq(Symbols)
<1>1. path \in Seq(Symbols) /\ Len(path) \in Nat
  BY DEF IInv, TypeOK
<1>2. Literal \in 0..Len(path)
  BY <1>1, LiteralType DEF Literal
<1> HIDE DEF Literal
<1>3. Literal + 1 \in 1..Len(path)
  BY <1>1, <1>2
<1>4. Token \in Symbols
  BY <1>1, <1>3 DEF Token
<1> QED  BY <1>1, <1>2, <1>3, <1>4

\* insertChild's new parameter node is a node.
LEMMA WildNodeType ==
    ASSUME IInv, Token \in Symbols
    PROVE  /\ WildNode \in Node /\ WildNode.children = 0 /\ WildNode.indices = <<>>
           /\ WildNode.wildChild = FALSE
<1>1. <<Token>> \in Seq(Symbols) /\ <<>> \in Seq(Symbols) /\ <<>> \in Patterns
  BY DEF Patterns
<1> QED  BY <1>1 DEF WildNode, EmptyNode, Node, NodeTypes, NoHandler

\* n with one more, wildcard, child.
LEMMA WildParentSound ==
    ASSUME IInv, pc = "insert", Literal < Len(path), NEW ss, NEW kids,
           OwnSlice \in (mark.slices + 1)..Len(ss), OwnSlice \in Nat, OwnSlice # 0,
           ss[OwnSlice] = kids, kids \in Seq(Nat), Len(kids) = Len(cs) + 1
    PROVE  Sound(ss, WildParent)
<1>1. nodes[n] \in Node /\ Sound(slices, nodes[n]) /\ cs \in Seq(Nat)
  BY Here
<1>2. nodes[n].path \in Seq(Symbols) /\ nodes[n].indices \in Seq(Symbols)
  BY <1>1, NodeFields
<1>3. Upto(path, Literal) \in Seq(Symbols)
  <2>1. path \in Seq(Symbols) /\ Literal \in 0..Len(path) /\ 1 \in 1..(Len(path) + 1)
    BY TokenType
  <2> QED  BY <2>1, PieceType
<1>4. (IF Literal > 0 THEN Upto(path, Literal) ELSE nodes[n].path) \in Seq(Symbols)
  BY <1>2, <1>3
<1>5. WildParent \in Node /\ WildParent.children = OwnSlice /\ WildParent.indices = nodes[n].indices
  BY <1>1, <1>4 DEF WildParent, Node
<1> HIDE DEF WildParent, OwnSlice
<1>6. Len(nodes[n].indices) <= Len(cs)
  BY <1>1 DEF Sound, InRange, cs
<1>7. Children(ss, WildParent) = kids
  BY <1>5 DEF Children
<1>8. Len(WildParent.indices) <= Len(kids) /\ kids # <<>>
  BY <1>1, <1>2, <1>5, <1>6
<1>9. PrivateSlice(ss, WildParent)
  BY <1>5 DEF PrivateSlice
<1> QED  BY <1>5, <1>7, <1>8, <1>9 DEF Sound, InRange

\* The action InsertLastParam keeps the invariant and writes no published memory.
LEMMA InsertLastParamStep ==
    ASSUME IInv, InsertLastParam
    PROVE  IInv' /\ FrozenStep
<1> DEFINE id == Len(nodes) + 1
           child == [WildNode EXCEPT !.handler = job.handler, !.pattern = fullPath]
           kids == Append(cs, id)
           ms == Append(nodes, child)
           ss == SlicesWith(kids)
<1>1. pc = "insert" /\ Literal < Len(path) /\ nodes' = [ms EXCEPT ![n] = WildParent]
      /\ slices' = ss /\ n' = id /\ pc' = "return"
      /\ UNCHANGED <<trees, mark, job, todo, path, fullPath, routes>>
  BY DEF InsertLastParam, AtToken
<1>2. n \in (mark.nodes + 1)..Len(nodes) /\ cs \in Seq(Nat) /\ KidsOf(nodes, cs)
  BY <1>1, Here
<1>3. nodes \in Seq(Node) /\ Len(nodes) \in Nat /\ Built(nodes, slices)
      /\ mark.nodes \in 0..Len(nodes)
  BY NowBuilt DEF Built, Frozen
<1>4. Token \in Symbols /\ path \in Seq(Symbols)
  BY <1>1, TokenType
<1>5. child \in Node /\ child.children = 0 /\ child.indices = <<>>
  BY <1>4, WildNodeType, LabelTypes DEF Node
<1>6. child.wildChild = FALSE
  BY <1>4, WildNodeType DEF Node
<1> HIDE DEF child
<1>7. Built(ms, slices)
  BY <1>3, <1>5, <1>6, LeafSound, AllocNode
<1>8. Len(ms) = id /\ ms \in Seq(Node)
  BY <1>3, <1>5, Alloc
<1> HIDE DEF ms
<1>9. kids \in Seq(Nat) /\ Len(kids) = Len(cs) + 1 /\ KidsOf(ms, kids)
  <2>1. id \in Nat /\ id \in 1..Len(ms) /\ \A j \in 1..Len(cs) : cs[j] \in 1..Len(ms)
    BY <1>2, <1>3, <1>8 DEF KidsOf
  <2> HIDE DEF id
  <2> QED  BY <1>2, <2>1, Alloc DEF KidsOf
<1> HIDE DEF kids
<1>10. Len(kids) >= Len(cs)
  BY <1>2, <1>9
<1>11. Built(ms, ss) /\ OwnSlice \in (mark.slices + 1)..Len(ss) /\ OwnSlice \in Nat
       /\ OwnSlice # 0 /\ ss[OwnSlice] = kids
  BY <1>1, <1>7, <1>9, <1>10, OwnSliceBuilt
<1> HIDE DEF ss
<1>12. Sound(ss, WildParent)
  BY <1>1, <1>9, <1>11, WildParentSound
<1>13. n \in (mark.nodes + 1)..Len(ms) /\ id \in (mark.nodes + 1)..Len(ms)
  BY <1>2, <1>3, <1>8
<1>14. Built([ms EXCEPT ![n] = WildParent], ss)
  BY <1>11, <1>12, <1>13, WriteNode
<1>15. Len(nodes') = Len(ms)
  BY <1>1, <1>8
<1>16. Len(nodes') >= Len(nodes)
  BY <1>3, <1>8, <1>15
<1>17. Built(nodes', slices')
  BY <1>1, <1>14
<1> QED  BY <1>1, <1>4, <1>13, <1>15, <1>16, <1>17, WalkKeeps

\* Two nodes allocated together may be written in either order.
LEMMA AllocTwo ==
    ASSUME NEW E, NEW h \in Seq(E), NEW a \in E, NEW b \in E, NEW x \in E
    PROVE  /\ [Append(Append(h, a), b) EXCEPT ![Len(h) + 1] = x] = Append(Append(h, x), b)
           /\ Len(Append(Append(h, a), b)) = Len(h) + 2
           /\ \A k \in 1..Len(h) : Append(Append(h, a), b)[k] = h[k]
<1> DEFINE l == Append(Append(h, a), b)
           r == Append(Append(h, x), b)
           m == [l EXCEPT ![Len(h) + 1] = x]
<1>1. Len(h) \in Nat
  OBVIOUS
<1>2. l \in Seq(E) /\ Len(l) = Len(h) + 2
      /\ \A k \in 1..(Len(h) + 2) : l[k] = IF k <= Len(h) THEN h[k]
                                         ELSE IF k = Len(h) + 1 THEN a ELSE b
  OBVIOUS
<1>3. r \in Seq(E) /\ Len(r) = Len(h) + 2
      /\ \A k \in 1..(Len(h) + 2) : r[k] = IF k <= Len(h) THEN h[k]
                                         ELSE IF k = Len(h) + 1 THEN x ELSE b
  OBVIOUS
<1> HIDE DEF l, r
<1>4. Len(h) + 1 \in 1..Len(l)
  BY <1>1, <1>2
<1>5. m \in Seq(E) /\ Len(m) = Len(l)
      /\ \A k \in 1..Len(l) : m[k] = IF k = Len(h) + 1 THEN x ELSE l[k]
  BY <1>2, <1>4, Assign
<1> HIDE DEF m
<1>6. \A k \in 1..Len(m) : m[k] = r[k]
  <2> TAKE k \in 1..Len(m)
  <2>1. k \in 1..(Len(h) + 2) /\ k \in 1..Len(l)
    BY <1>2, <1>5
  <2>2. m[k] = IF k = Len(h) + 1 THEN x ELSE l[k]
    BY <2>1, <1>5
  <2>3. l[k] = IF k <= Len(h) THEN h[k] ELSE IF k = Len(h) + 1 THEN a ELSE b
    BY <2>1, <1>2
  <2>4. r[k] = IF k <= Len(h) THEN h[k] ELSE IF k = Len(h) + 1 THEN x ELSE b
    BY <2>1, <1>3
  <2> QED  BY ONLY <2>1, <2>2, <2>3, <2>4, <1>1
<1>7. m = r
  BY <1>2, <1>3, <1>5, <1>6, SeqEqual
<1> QED  BY <1>1, <1>2, <1>7 DEF m, r, l

\* A node whose only child is in a slice of its own.
LEMMA OnlyChildSound ==
    ASSUME NEW ss, NEW x \in Node, x.children \in (mark.slices + 1)..Len(ss),
           mark.slices \in Nat, NEW kid, ss[x.children] = <<kid>>, Len(x.indices) <= 1
    PROVE  Sound(ss, x)
<1>1. x.children # 0
  OBVIOUS
<1>2. Children(ss, x) = <<kid>>
  BY <1>1 DEF Children
<1> QED  BY <1>2 DEF Sound, PrivateSlice, InRange

\* The action InsertParam keeps the invariant and writes no published memory.
LEMMA InsertParamStep ==
    ASSUME IInv, InsertParam
    PROVE  IInv' /\ FrozenStep
<1> DEFINE id == Len(nodes) + 1
           next == [EmptyNode EXCEPT !.priority = 1]
           kids == Append(cs, id)
           ms == Append(Append(nodes, WildNode), next)
           ss == SlicesWith(kids)
           ts == Append(ss, <<id + 1>>)
           child == [WildNode EXCEPT !.children = Len(ss) + 1]
           ls == [ms EXCEPT ![id] = child]
<1>1. pc = "insert" /\ Literal < Len(path) /\ Len(path) > Literal + 1
      /\ nodes' = [Append(Append(nodes, child), next) EXCEPT ![n] = WildParent]
      /\ slices' = ts /\ n' = id + 1 /\ path' = From(path, Literal + 2)
      /\ UNCHANGED <<trees, mark, pc, job, todo, fullPath, routes>>
  BY DEF InsertParam, AtToken
<1>2. n \in (mark.nodes + 1)..Len(nodes) /\ cs \in Seq(Nat) /\ KidsOf(nodes, cs)
  BY <1>1, Here
<1>3. nodes \in Seq(Node) /\ Len(nodes) \in Nat /\ Built(nodes, slices)
      /\ mark.nodes \in 0..Len(nodes) /\ mark.slices \in Nat
  BY NowBuilt DEF Built, Frozen
<1>4. Token \in Symbols /\ path \in Seq(Symbols) /\ Literal \in 0..Len(path) /\ Len(path) \in Nat
  BY <1>1, TokenType
<1>5. path' \in Seq(Symbols)
  <2>1. Literal + 2 \in 1..(Len(path) + 1) /\ 0 \in 0..Len(path)
    BY <1>1, <1>4
  <2> QED  BY <1>1, <1>4, <2>1, PieceType
<1>6. WildNode \in Node /\ Sound(slices, WildNode)
  BY <1>4, WildNodeType, LeafSound
<1>7. next \in Node /\ Sound(slices, next)
  <2>1. next \in Node /\ next.children = 0 /\ next.indices = <<>>
    BY EmptyNodeType DEF EmptyNode, Node
  <2>2. next.wildChild = FALSE
    BY DEF EmptyNode
  <2> QED  BY <2>1, <2>2, LeafSound
<1> HIDE DEF next
<1>8. Built(ms, slices)
  BY <1>3, <1>6, <1>7, AllocNode
<1>9. Len(ms) = Len(nodes) + 2 /\ ms \in Seq(Node)
  BY <1>3, <1>6, <1>7, <1>8, AllocTwo DEF Built
<1>a. \A x \in Node : [ms EXCEPT ![id] = x] = Append(Append(nodes, x), next)
  BY <1>3, <1>6, <1>7, AllocTwo
<1> HIDE DEF ms
<1>10. kids \in Seq(Nat) /\ Len(kids) = Len(cs) + 1 /\ KidsOf(ms, kids)
  <2>1. id \in Nat /\ id \in 1..Len(ms) /\ \A j \in 1..Len(cs) : cs[j] \in 1..Len(ms)
    BY <1>2, <1>3, <1>9 DEF KidsOf
  <2> HIDE DEF id
  <2> QED  BY <1>2, <2>1, Alloc DEF KidsOf
<1> HIDE DEF kids
<1>11. Len(kids) >= Len(cs)
  BY <1>2, <1>10
<1>12. Built(ms, ss) /\ OwnSlice \in (mark.slices + 1)..Len(ss) /\ OwnSlice \in Nat
       /\ OwnSlice # 0 /\ ss[OwnSlice] = kids /\ Len(ss) \in Nat
  BY <1>1, <1>8, <1>10, <1>11, OwnSliceBuilt
<1>13. ss \in Seq(Seq(Nat)) /\ mark.slices \in 0..Len(ss)
  BY <1>12 DEF Built, Frozen
<1> HIDE DEF ss
<1>14. <<id + 1>> \in Seq(Nat) /\ KidsOf(ms, <<id + 1>>)
  BY <1>3, <1>9 DEF KidsOf
<1>15. Built(ms, ts)
  BY <1>12, <1>14, AllocSlice
<1>16. Len(ts) = Len(ss) + 1 /\ ts[Len(ss) + 1] = <<id + 1>>
       /\ \A k \in 1..Len(ss) : ts[k] = ss[k]
  BY <1>12, <1>13, <1>14, Alloc
<1> HIDE DEF ts
<1>17. Sound(ts, child)
  <2>1. Len(ss) + 1 \in Nat
    BY <1>12
  <2>2. child \in Node /\ child.children = Len(ss) + 1 /\ child.indices = <<>>
    BY <1>4, <2>1, WildNodeType DEF Node
  <2> HIDE DEF child
  <2>3. child.children \in (mark.slices + 1)..Len(ts) /\ Len(child.indices) <= 1
    BY <1>12, <1>13, <1>16, <2>2
  <2> QED  BY <1>3, <1>16, <2>2, <2>3, OnlyChildSound
<1> HIDE DEF child
<1>18. id \in (mark.nodes + 1)..Len(ms) /\ id \in 1..Len(ms)
  BY <1>3, <1>9
<1>19. Built(ls, ts) /\ Len(ls) = Len(ms) /\ ls \in Seq(Node)
  <2>1. Built(ls, ts)
    BY <1>15, <1>17, <1>18, WriteNode
  <2>2. child \in Node
    BY <1>17 DEF Sound
  <2> QED  BY <1>9, <1>18, <2>1, <2>2, Assign
<1>20. ls = Append(Append(nodes, child), next)
  BY <1>17, <1>a DEF Sound
<1> HIDE DEF ls
<1>21. Sound(ts, WildParent)
  <2>1. OwnSlice \in (mark.slices + 1)..Len(ts) /\ ts[OwnSlice] = kids
    BY <1>3, <1>12, <1>16
  <2> QED  BY <1>1, <1>10, <1>12, <2>1, WildParentSound
<1>22. n \in (mark.nodes + 1)..Len(ls) /\ n # id + 1
  BY <1>2, <1>3, <1>9, <1>19
<1>23. Built([ls EXCEPT ![n] = WildParent], ts)
  BY <1>19, <1>21, <1>22, WriteNode
<1>24. Built(nodes', slices')
  BY <1>1, <1>20, <1>23
<1>25. Len(nodes') = Len(nodes) + 2
  BY <1>1, <1>9, <1>19, <1>20
<1>26. Len(nodes') >= Len(nodes) /\ n' \in (mark.nodes + 1)..Len(nodes')
  BY <1>1, <1>3, <1>25
<1> QED  BY <1>1, <1>5, <1>24, <1>26, WalkKeeps

\* The action InsertCatchAll keeps the invariant and writes no published memory.
LEMMA InsertCatchAllStep ==
    ASSUME IInv, InsertCatchAll
    PROVE  IInv' /\ FrozenStep
<1> DEFINE id == Len(nodes) + 1
           wrapper == [EmptyNode EXCEPT !.wildChild = TRUE, !.priority = 1,
                                        !.children = Len(slices) + 2]
           leaf == [EmptyNode EXCEPT !.path = <<Slash, Token>>, !.nType = "wildcard",
                                     !.handler = job.handler, !.pattern = fullPath,
                                     !.priority = 1]
           ms == Append(Append(nodes, EmptyNode), leaf)
           ls == [ms EXCEPT ![id] = wrapper]
           ss == Append(slices, <<id>>)
           ts == Append(ss, <<id + 1>>)
           x == [nodes[n] EXCEPT !.path = Upto(path, Literal - 1), !.indices = <<Slash>>,
                                 !.children = Len(slices) + 1]
<1>1. pc = "insert" /\ Literal < Len(path) /\ Literal > 0
      /\ nodes' = [Append(Append(nodes, wrapper), leaf) EXCEPT
                      ![n].path = Upto(path, Literal - 1), ![n].indices = <<Slash>>,
                      ![n].children = Len(slices) + 1]
      /\ slices' = ts /\ n' = id /\ pc' = "return"
      /\ UNCHANGED <<trees, mark, job, todo, path, fullPath, routes>>
  BY DEF InsertCatchAll, AtToken, CatchAllAllowed
<1>2. n \in (mark.nodes + 1)..Len(nodes) /\ n \in 1..Len(nodes) /\ nodes[n] \in Node
  BY <1>1, Here
<1>3. nodes \in Seq(Node) /\ Len(nodes) \in Nat /\ Built(nodes, slices)
      /\ mark.nodes \in 0..Len(nodes)
  BY NowBuilt DEF Built, Frozen
<1>4. slices \in Seq(Seq(Nat)) /\ Len(slices) \in Nat /\ mark.slices \in 0..Len(slices)
      /\ mark.slices \in Nat
  BY <1>3 DEF Built, Frozen
<1>5. Token \in Symbols /\ path \in Seq(Symbols) /\ Literal \in 0..Len(path) /\ Len(path) \in Nat
  BY <1>1, TokenType
<1>6. Upto(path, Literal - 1) \in Seq(Symbols)
  <2>1. Literal - 1 \in 0..Len(path) /\ 1 \in 1..(Len(path) + 1)
    BY <1>1, <1>5
  <2> QED  BY <1>5, <2>1, PieceType
<1>7. leaf \in Node /\ Sound(slices, leaf)
  <2>1. <<Slash, Token>> \in Seq(Symbols)
    BY <1>5 DEF Symbols
  <2>2. leaf \in Node /\ leaf.children = 0 /\ leaf.indices = <<>>
    BY <2>1, EmptyNodeType, LabelTypes DEF EmptyNode, Node, NodeTypes
  <2>3. leaf.wildChild = FALSE
    BY DEF EmptyNode
  <2> QED  BY <2>2, <2>3, LeafSound
<1> HIDE DEF leaf
<1>8. Sound(slices, EmptyNode)
  BY EmptyNodeType, LeafSound DEF EmptyNode
<1>9. Built(ms, slices)
  BY <1>3, <1>7, <1>8, AllocNode
<1>10. Len(ms) = Len(nodes) + 2 /\ ms \in Seq(Node)
  BY <1>3, <1>7, <1>9, EmptyNodeType, AllocTwo DEF Built
<1>11. \A y \in Node : [ms EXCEPT ![id] = y] = Append(Append(nodes, y), leaf)
  BY <1>3, <1>7, EmptyNodeType, AllocTwo
<1>12. ms[n] = nodes[n]
  BY <1>2, <1>3, <1>7, EmptyNodeType, AllocTwo
<1> HIDE DEF ms
<1>13. KidsOf(ms, <<id>>) /\ KidsOf(ms, <<id + 1>>)
  BY <1>3, <1>10 DEF KidsOf
<1>14. Built(ms, ss)
  BY <1>9, <1>13, AllocSlice
<1>15. Built(ms, ts)
  BY <1>13, <1>14, AllocSlice
<1>16. Len(ts) = Len(slices) + 2 /\ ts[Len(slices) + 1] = <<id>> /\ ts[Len(slices) + 2] = <<id + 1>>
  <2>1. <<id>> \in Seq(Nat) /\ <<id + 1>> \in Seq(Nat)
    BY <1>3
  <2>2. ss \in Seq(Seq(Nat)) /\ Len(ss) = Len(slices) + 1 /\ ss[Len(slices) + 1] = <<id>>
    BY <1>4, <2>1, Alloc
  <2> HIDE DEF ss
  <2>3. Len(slices) + 1 \in 1..Len(ss)
    BY <1>4, <2>2
  <2> QED  BY <1>4, <2>1, <2>2, <2>3, Alloc
<1> HIDE DEF ts
<1>17. Sound(ts, wrapper)
  <2>1. Len(slices) + 2 \in Nat
    BY <1>4
  <2>2. wrapper \in Node /\ wrapper.children = Len(slices) + 2 /\ wrapper.indices = <<>>
    BY <2>1, EmptyNodeType DEF EmptyNode, Node
  <2> HIDE DEF wrapper
  <2>3. wrapper.children \in (mark.slices + 1)..Len(ts) /\ Len(wrapper.indices) <= 1
    BY <1>4, <1>16, <2>2
  <2> QED  BY <1>4, <1>16, <2>2, <2>3, OnlyChildSound
<1> HIDE DEF wrapper
<1>18. id \in (mark.nodes + 1)..Len(ms) /\ id \in 1..Len(ms) /\ n \in 1..Len(ms) /\ n # id
  BY <1>2, <1>3, <1>10
<1>19. Built(ls, ts) /\ Len(ls) = Len(ms) /\ ls \in Seq(Node) /\ ls[n] = nodes[n]
  <2>1. Built(ls, ts)
    BY <1>15, <1>17, <1>18, WriteNode
  <2>2. wrapper \in Node
    BY <1>17 DEF Sound
  <2> QED  BY <1>10, <1>12, <1>18, <2>1, <2>2, Assign
<1>20. ls = Append(Append(nodes, wrapper), leaf)
  BY <1>11, <1>17 DEF Sound
<1> HIDE DEF ls
<1>21. Sound(ts, x)
  <2>1. Len(slices) + 1 \in Nat /\ <<Slash>> \in Seq(Symbols)
    BY <1>4 DEF Symbols
  <2>2. x \in Node /\ x.children = Len(slices) + 1 /\ x.indices = <<Slash>>
    BY <1>2, <1>6, <2>1 DEF Node
  <2> HIDE DEF x
  <2>3. x.children \in (mark.slices + 1)..Len(ts) /\ Len(x.indices) <= 1
    BY <1>4, <1>16, <2>2
  <2> QED  BY <1>4, <1>16, <2>2, <2>3, OnlyChildSound
<1>22. n \in (mark.nodes + 1)..Len(ls) /\ n \in 1..Len(ls)
  BY <1>2, <1>3, <1>10, <1>19
<1>23. Built([ls EXCEPT ![n] = x], ts)
  BY <1>19, <1>21, <1>22, WriteNode
<1>24. nodes' = [ls EXCEPT ![n] = x]
  BY <1>1, <1>19, <1>20, <1>22
<1>25. Built(nodes', slices')
  BY <1>1, <1>23, <1>24
<1>26. Len(nodes') = Len(nodes) + 2
  BY <1>10, <1>19, <1>24
<1>27. Len(nodes') >= Len(nodes) /\ n' \in (mark.nodes + 1)..Len(nodes')
  BY <1>1, <1>3, <1>26
<1> QED  BY <1>1, <1>5, <1>25, <1>27, WalkKeeps

-----------------------------------------------------------------------------
(* The steps around the walk.                                              *)

\* The idle job has a job's type.
LEMMA NoJobType ==
    NoJob \in [method: Method, handler: Patterns, root: Nat, added: SUBSET (Patterns \X Patterns)]
<1>1. (CHOOSE m \in Method : TRUE) \in Method
  BY SymbolsAssumption
<1>2. <<>> \in Patterns
  BY DEF Patterns
<1> QED  BY <1>1, <1>2 DEF NoJob, NoHandler

\* The action Handle keeps the invariant and writes no published memory.
LEMMA HandleStep ==
    ASSUME IInv, NEW m \in Method, NEW p \in Requests, Handle(m, p)
    PROVE  IInv' /\ FrozenStep
<1>1. pc' = "call" /\ todo' = <<p>> /\ UNCHANGED <<trees, mark, n, path, fullPath, routes>>
      /\ job' = [method |-> m, handler |-> p, root |-> Len(nodes) + 1, added |-> {}]
  BY DEF Handle
<1>2. Built(nodes, slices)
  BY NowBuilt
<1>3. nodes \in Seq(Node) /\ Len(nodes) \in Nat /\ mark.nodes \in 0..Len(nodes)
      /\ trees[m] \in Nat /\ trees[m] <= mark.nodes
  BY <1>2 DEF Built, Frozen, IInv, TypeOK, PublishedClosed
<1>4. Built(nodes', slices') /\ Len(nodes') = Len(nodes) + 1
  <2>1. CASE trees[m] = 0
    <3>1. nodes' = Append(nodes, EmptyNode) /\ slices' = slices
      BY <2>1 DEF Handle
    <3>2. Sound(slices, EmptyNode)
      BY EmptyNodeType, LeafSound DEF EmptyNode
    <3>3. Built(Append(nodes, EmptyNode), slices)
      BY <1>2, <3>2, AllocNode
    <3> QED  BY <1>3, <3>1, <3>3
  <2>2. CASE trees[m] # 0
    <3> DEFINE nd == nodes[trees[m]]
               hs == CopySlice(slices, nd)
               x == [CopyNode(slices, nd) EXCEPT !.priority = nd.priority]
    <3>1. trees[m] \in 1..Len(nodes)
      BY <1>3, <2>2
    <3>2. nd \in Node /\ nd.priority \in Nat
      BY <1>3, <3>1, NodeFields
    <3>3. Built(nodes, hs) /\ Sound(hs, x)
      BY <1>2, <3>1, <3>2, CopySound
    <3>4. x = CopyNode(slices, nd)
      BY <3>2 DEF CopyNode, Node
    <3>5. nodes' = Append(nodes, x) /\ slices' = hs
      BY <2>2, <3>4 DEF Handle
    <3> HIDE DEF x, hs, nd
    <3>6. Built(Append(nodes, x), hs)
      BY <3>3, AllocNode
    <3> QED  BY <1>3, <3>5, <3>6
  <2> QED  BY <2>1, <2>2
<1>5. p \in Patterns
  BY RequestsAssumption
<1>6. Len(nodes) + 1 \in (mark.nodes + 1)..Len(nodes') /\ Len(nodes) + 1 \in Nat
  BY <1>3, <1>4
<1>7. LocalInv
  BY Parts
<1>8. job' \in [method: Method, handler: Patterns, root: Nat,
                added: SUBSET (Patterns \X Patterns)] /\ job'.root = Len(nodes) + 1
  BY <1>1, <1>5, <1>6
<1>9. todo' \in Seq(Patterns) /\ todo' # <<>>
  BY <1>1, <1>5
<1>10. LocalInv'
  BY <1>1, <1>6, <1>7, <1>8, <1>9 DEF LocalInv
<1> QED  BY <1>1, <1>4, <1>10, StepKeeps

\* A panic leaves exactly what was published.
LEMMA PanicStep ==
    ASSUME IInv, Panic
    PROVE  IInv' /\ FrozenStep
<1> DEFINE a == mark.nodes
           b == mark.slices
<1>1. /\ nodes' = Upto(nodes, a) /\ slices' = Upto(slices, b)
      /\ pc' = "idle" /\ job' = NoJob /\ todo' = <<>>
      /\ n' = 0 /\ path' = <<>> /\ fullPath' = <<>> /\ UNCHANGED <<trees, mark, routes>>
  BY DEF Panic
<1>2. /\ nodes \in Seq(Node) /\ slices \in Seq(Seq(Nat)) /\ a \in 0..Len(nodes)
      /\ b \in 0..Len(slices) /\ Len(nodes) \in Nat /\ Len(slices) \in Nat
  BY NowBuilt DEF Built, Frozen
<1>3. 1 \in 1..(Len(nodes) + 1) /\ 1 \in 1..(Len(slices) + 1)
  BY <1>2
<1> HIDE DEF a, b
<1>4. nodes' \in Seq(Node) /\ Len(nodes') = a /\ \A k \in 1..a : nodes'[k] = nodes[k]
  BY <1>1, <1>2, <1>3, PieceType
<1>5. slices' \in Seq(Seq(Nat)) /\ Len(slices') = b /\ \A k \in 1..b : slices'[k] = slices[k]
  BY <1>1, <1>2, <1>3, PieceType
<1>6. /\ \A id \in 1..a : nodes[id].children <= b
      /\ \A k \in 1..b : \A j \in 1..Len(slices[k]) : slices[k][j] \in 1..a
  BY DEF IInv, PublishedClosed, a, b
<1>7. \A id \in 1..a : InRange(slices', nodes[id])
  <2> TAKE id \in 1..a
  <2>1. id \in 1..Len(nodes)
    BY <1>2
  <2>2. nodes[id].children \in Nat /\ InRange(slices, nodes[id])
    BY <1>2, <2>1, NodeFields DEF IInv, ChildrenInRange
  <2>3. nodes[id].children # 0 => nodes[id].children \in 1..b
    BY <1>2, <1>6, <2>2
  <2>4. Children(slices', nodes[id]) = Children(slices, nodes[id])
    BY <1>5, <2>3 DEF Children
  <2> QED  BY <2>2, <2>4 DEF InRange
<1>8. Frozen(nodes', slices')
  BY <1>2, <1>4, <1>5 DEF Frozen, a, b
<1>9. \A id \in (mark.nodes + 1)..Len(nodes') : PrivateSlice(slices', nodes'[id])
  BY <1>2, <1>4 DEF a
<1>10. \A k \in 1..Len(slices') : \A j \in 1..Len(slices'[k]) : slices'[k][j] \in 1..Len(nodes')
  BY <1>4, <1>5, <1>6
<1>11. \A id \in 1..Len(nodes') : nodes'[id].children <= Len(slices') /\ InRange(slices', nodes'[id])
  BY <1>4, <1>5, <1>6, <1>7
<1>12. Built(nodes', slices')
  BY <1>4, <1>5, <1>8, <1>9, <1>10, <1>11 DEF Built
<1>13. LocalInv
  BY Parts
<1>14. LocalInv'
  BY <1>1, <1>13, NoJobType DEF LocalInv
<1> QED  BY <1>1, <1>12, <1>14, StepKeeps

\* Both patterns expandOptional returns are patterns.
LEMMA ExpansionType ==
    ASSUME NEW p \in Patterns, NEW k \in OptionalAt(p)
    PROVE  WithoutOptional(p, k) \in Patterns /\ WithOptional(p, k) \in Patterns
<1> DEFINE E == Symbols \cup Optionals
<1>1. p \in Seq(E) /\ Len(p) \in Nat /\ k \in 1..Len(p) /\ p[k] \in Optionals
  BY DEF Patterns, OptionalAt
<1>2. k - 1 \in 0..Len(p) /\ k + 1 \in 1..(Len(p) + 1)
  BY <1>1
<1>3. Slash \in E /\ OptionalToken[p[k]] \in E
  BY <1>1, SymbolsAssumption DEF Symbols, Wildcards
<1> HIDE DEF E
<1>4. Upto(p, k - 1) \in Seq(E) /\ From(p, k + 1) \in Seq(E)
  BY <1>1, <1>2, PieceType
<1>5. <<Slash>> \in Seq(E) /\ <<Slash, OptionalToken[p[k]]>> \in Seq(E)
  BY <1>3
<1>6. WithoutOptional(p, k) \in Seq(E)
  BY <1>4, <1>5 DEF WithoutOptional
<1>7. WithOptional(p, k) \in Seq(E)
  <2> DEFINE mid == <<Slash, OptionalToken[p[k]]>>
  <2>1. mid \in Seq(E)
    BY <1>5
  <2> HIDE DEF mid
  <2>2. Upto(p, k - 1) \o mid \o From(p, k + 1) \in Seq(E)
    BY <1>4, <2>1
  <2> QED  BY <2>2 DEF WithOptional, mid
<1> QED  BY <1>6, <1>7 DEF Patterns, E

\* At a call there is a pattern left to add.
LEMMA HeadType ==
    ASSUME IInv, pc \in {"call", "return"}
    PROVE  Head(todo) \in Patterns /\ Tail(todo) \in Seq(Patterns) /\ todo # <<>>
<1>1. todo \in Seq(Patterns) /\ todo # <<>>
  BY DEF IInv, TypeOK, WalkIsPrivate
<1> QED  BY <1>1

\* The action Expand keeps the invariant and writes no published memory.
LEMMA ExpandStep ==
    ASSUME IInv, Expand
    PROVE  IInv' /\ FrozenStep
<1>1. pc = "call" /\ UNCHANGED <<nodes, slices, trees, mark, pc, job, n, path, fullPath, routes>>
  BY DEF Expand, heap, locals
<1>2. Head(todo) \in Patterns /\ Tail(todo) \in Seq(Patterns)
  BY <1>1, HeadType
<1>3. PICK k \in OptionalAt(Head(todo)) :
         todo' = <<WithoutOptional(Head(todo), k), WithOptional(Head(todo), k)>> \o Tail(todo)
  BY DEF Expand
<1> DEFINE a == WithoutOptional(Head(todo), k)
           b == WithOptional(Head(todo), k)
<1>4. a \in Patterns /\ b \in Patterns
  BY <1>2, ExpansionType
<1>5. todo' = <<a, b>> \o Tail(todo)
  BY <1>3
<1> HIDE DEF a, b
<1>6. todo' \in Seq(Patterns) /\ todo' # <<>>
  BY <1>2, <1>4, <1>5
<1>7. LocalInv /\ Built(nodes, slices)
  BY Parts, NowBuilt
<1>8. LocalInv'
  BY <1>1, <1>6, <1>7 DEF LocalInv
<1>9. Built(nodes', slices')
  BY <1>1, <1>7
<1> QED  BY <1>1, <1>8, <1>9, StepKeeps

\* The private root of a running registration is there, typed and sound.
LEMMA RootHere ==
    ASSUME IInv, pc # "idle"
    PROVE  /\ job.root \in (mark.nodes + 1)..Len(nodes) /\ job.root \in 1..Len(nodes)
           /\ nodes[job.root] \in Node /\ Sound(slices, nodes[job.root])
           /\ nodes \in Seq(Node) /\ Len(nodes) \in Nat /\ mark.nodes \in Nat
<1>1. Built(nodes, slices)
  BY NowBuilt
<1>2. job.root \in (mark.nodes + 1)..Len(nodes) /\ mark.nodes \in Nat /\ Len(nodes) \in Nat
      /\ nodes \in Seq(Node)
  BY DEF IInv, WalkIsPrivate, TypeOK
<1>3. job.root \in 1..Len(nodes)
  BY <1>2
<1>4. nodes[job.root] \in Node
  BY <1>2, <1>3
<1>5. Sound(slices, nodes[job.root])
  BY <1>1, <1>2, <1>3, <1>4 DEF Built, Sound
<1> QED  BY <1>2, <1>3, <1>4, <1>5

\* The action Enter keeps the invariant and writes no published memory.
LEMMA EnterStep ==
    ASSUME IInv, Enter
    PROVE  IInv' /\ FrozenStep
<1> DEFINE r == job.root
           empty == nodes[r].path = <<>> /\ nodes[r].indices = <<>>
           nt == IF empty THEN "root" ELSE nodes[r].nType
           x == [nodes[r] EXCEPT !.priority = nodes[r].priority + 1, !.nType = nt]
<1>1. /\ pc = "call" /\ OptionalAt(Head(todo)) = {}
      /\ n' = r /\ path' = Head(todo) /\ fullPath' = Head(todo)
      /\ nodes' = [nodes EXCEPT ![r].priority = @ + 1, ![r].nType = IF empty THEN "root" ELSE @]
      /\ pc' \in {"insert", "walk"} /\ UNCHANGED <<slices, trees, mark, job, todo, routes>>
  BY DEF Enter
<1>2. /\ r \in (mark.nodes + 1)..Len(nodes) /\ r \in 1..Len(nodes) /\ nodes[r] \in Node
      /\ Sound(slices, nodes[r]) /\ nodes \in Seq(Node) /\ Len(nodes) \in Nat
      /\ mark.nodes \in Nat
  BY <1>1, RootHere
<1>3. Head(todo) \in Seq(Symbols)
  <2>1. Head(todo) \in Seq(Symbols \cup Optionals)
    BY <1>1, HeadType DEF Patterns
  <2>2. \A j \in 1..Len(Head(todo)) : Head(todo)[j] \notin Optionals
    BY <1>1 DEF OptionalAt
  <2> QED  BY <2>1, <2>2
<1>4. nodes[r].priority \in Nat /\ nodes[r].nType \in NodeTypes
  BY <1>2, NodeFields
<1>5. nt \in NodeTypes /\ nodes[r].priority + 1 \in Nat /\ nodes[r].priority + 1 > 0
  BY <1>4 DEF NodeTypes
<1>6. nodes' = [nodes EXCEPT ![r] = x]
  BY <1>1, <1>2
<1> HIDE DEF nt, r
<1>7. x \in Node /\ x.children = nodes[r].children /\ x.indices = nodes[r].indices
      /\ x.priority = nodes[r].priority + 1
  BY <1>2, <1>5 DEF Node
<1>8. x.wildChild = nodes[r].wildChild
  BY <1>2 DEF Node
<1> HIDE DEF x
<1>9. Sound(slices, x)
  BY <1>2, <1>7, <1>8, LabelSound
<1>10. Built(nodes, slices)
  BY NowBuilt
<1>11. Built([nodes EXCEPT ![r] = x], slices)
  BY <1>2, <1>9, <1>10, WriteNode
<1>12. Built(nodes', slices')
  BY <1>1, <1>6, <1>11
<1>13. Len(nodes') = Len(nodes) /\ nodes'[r] = x
  BY <1>2, <1>6, <1>7, Assign
<1>14. LocalInv /\ todo # <<>>
  BY <1>1, Parts, HeadType
<1>15. nodes'[n'].priority > 0 /\ n' \in (mark.nodes + 1)..Len(nodes') /\ n' \in Nat
  BY <1>1, <1>2, <1>5, <1>7, <1>13
<1>16. LocalInv'
  BY <1>1, <1>2, <1>3, <1>13, <1>14, <1>15 DEF LocalInv, r
<1> QED  BY <1>1, <1>12, <1>16, StepKeeps

\* The action Return keeps the invariant and writes no published memory.
LEMMA ReturnStep ==
    ASSUME IInv, Return
    PROVE  IInv' /\ FrozenStep
<1> DEFINE r == job.root
           count == countPatternParams(fullPath)
           v == IF count > nodes[r].maxParams THEN Smaller(count, MaxUint8)
                ELSE nodes[r].maxParams
           x == [nodes[r] EXCEPT !.maxParams = v]
<1>1. /\ pc = "return" /\ todo' = Tail(todo)
      /\ nodes' = [nodes EXCEPT ![r].maxParams =
                      IF count > @ THEN Smaller(count, MaxUint8) ELSE @]
      /\ job' = [job EXCEPT !.added = @ \cup {<<fullPath, job.handler>>}]
      /\ pc' = IF Len(todo) = 1 THEN "publish" ELSE "call"
      /\ UNCHANGED <<slices, trees, mark, n, path, fullPath, routes>>
  BY DEF Return, locals
<1>2. /\ r \in (mark.nodes + 1)..Len(nodes) /\ r \in 1..Len(nodes) /\ nodes[r] \in Node
      /\ Sound(slices, nodes[r]) /\ nodes \in Seq(Node) /\ Len(nodes) \in Nat
  BY <1>1, RootHere
<1>3. v \in Nat
  <2>1. nodes[r].maxParams \in Nat
    BY <1>2, NodeFields
  <2>2. count \in Nat
    <3> DEFINE T == {k \in 1..Len(fullPath) : fullPath[k] \in Wildcards}
    <3>1. Len(fullPath) \in Nat /\ T \subseteq 1..Len(fullPath)
      BY DEF IInv, TypeOK
    <3> HIDE DEF T
    <3>2. Cardinality(T) \in 0..Len(fullPath)
      BY <3>1, CountBound
    <3> QED  BY <3>1, <3>2 DEF countPatternParams, T
  <2> HIDE DEF count
  <2> QED  BY <2>1, <2>2 DEF Smaller, MaxUint8
<1>4. nodes' = [nodes EXCEPT ![r] = x]
  BY <1>1, <1>2
<1> HIDE DEF v, r
<1>5. x \in Node /\ x.children = nodes[r].children /\ x.indices = nodes[r].indices
  BY <1>2, <1>3 DEF Node
<1>6. x.wildChild = nodes[r].wildChild
  BY <1>2 DEF Node
<1> HIDE DEF x
<1>7. Sound(slices, x) /\ Built(nodes, slices)
  BY <1>2, <1>5, <1>6, LabelSound, NowBuilt
<1>8. Built([nodes EXCEPT ![r] = x], slices)
  BY <1>2, <1>7, WriteNode
<1>9. Built(nodes', slices')
  BY <1>1, <1>4, <1>8
<1>10. Len(nodes') = Len(nodes)
  BY <1>2, <1>4
<1>11. LocalInv /\ fullPath \in Patterns /\ job.handler \in Patterns
  BY Parts, LabelTypes
<1>12. job' \in [method: Method, handler: Patterns, root: Nat,
                 added: SUBSET (Patterns \X Patterns)] /\ job'.root = job.root
  <2> DEFINE more == job.added \cup {<<fullPath, job.handler>>}
  <2>1. job \in [method: Method, handler: Patterns, root: Nat,
                 added: SUBSET (Patterns \X Patterns)]
    BY <1>11 DEF LocalInv
  <2>2. more \in SUBSET (Patterns \X Patterns)
    BY <1>11, <2>1
  <2>3. job' = [job EXCEPT !.added = more]
    BY <1>1, <2>1
  <2> HIDE DEF more
  <2> QED  BY <2>1, <2>2, <2>3
<1>13. todo' \in Seq(Patterns) /\ (pc' = "call" => todo' # <<>>)
  <2>1. todo \in Seq(Patterns) /\ todo # <<>>
    BY <1>1, HeadType DEF IInv, TypeOK
  <2>2. Tail(todo) \in Seq(Patterns) /\ (Len(todo) # 1 => Len(Tail(todo)) > 0)
    BY <2>1
  <2>3. Len(todo) # 1 => Tail(todo) # <<>>
    BY <2>2
  <2>4. todo' = Tail(todo) /\ (pc' = "call" => Len(todo) # 1)
    BY <1>1
  <2> QED  BY <2>2, <2>3, <2>4
<1>14. LocalInv'
  BY <1>1, <1>2, <1>10, <1>11, <1>12, <1>13 DEF LocalInv, r
<1> QED  BY <1>1, <1>9, <1>14, StepKeeps

\* Publishing freezes what has been built.
LEMMA PublishStep ==
    ASSUME IInv, Publish
    PROVE  IInv' /\ FrozenStep
<1>1. /\ pc = "publish" /\ trees' = [trees EXCEPT ![job.method] = job.root]
      /\ mark' = [nodes |-> Len(nodes), slices |-> Len(slices)]
      /\ routes' = [routes EXCEPT ![job.method] = @ \cup job.added]
      /\ pc' = "idle" /\ job' = NoJob
      /\ n' = 0 /\ path' = <<>> /\ fullPath' = <<>> /\ UNCHANGED <<nodes, slices, todo>>
  BY DEF Publish, heap
<1>2. LocalInv /\ HeapInv
  BY Parts
<1>3. FrozenStep
  BY <1>1 DEF FrozenStep
<1>4. /\ nodes \in Seq(Node) /\ slices \in Seq(Seq(Nat)) /\ Len(nodes) \in Nat
      /\ Len(slices) \in Nat /\ job.root \in (mark.nodes + 1)..Len(nodes)
      /\ mark.nodes \in Nat /\ mark.nodes <= Len(nodes) /\ job.root \in Nat /\ job.method \in Method
  BY <1>1, <1>2 DEF LocalInv, HeapInv, PublishedClosed
<1>5. mark' \in [nodes: Nat, slices: Nat] /\ mark'.nodes = Len(nodes) /\ mark'.slices = Len(slices)
  BY <1>1, <1>4
<1>6. trees' \in [Method -> Nat] /\ \A m \in Method : trees'[m] <= Len(nodes)
  BY <1>1, <1>2, <1>4 DEF LocalInv, HeapInv, PublishedClosed
<1>7. routes' \in [Method -> SUBSET (Patterns \X Patterns)]
  BY <1>1, <1>2 DEF LocalInv
<1>8. LocalInv'
  BY <1>1, <1>2, <1>5, <1>6, <1>7, NoJobType DEF LocalInv
<1>9. PublishedClosed'
  BY <1>1, <1>2, <1>4, <1>5, <1>6 DEF HeapInv, PublishedClosed
<1>10. HeapInv'
  BY <1>1, <1>2, <1>4, <1>5, <1>9 DEF HeapInv, ChildrenInRange, InRange, Children
<1>11. IInv'
  BY <1>8, <1>10 DEF IInv, HeapInv, LocalInv, TypeOK, WalkIsPrivate
<1> QED  BY <1>3, <1>11

-----------------------------------------------------------------------------
(* The theorems.                                                           *)

\* A new Mux satisfies the invariant.
LEMMA InitHolds == Init => IInv
<1> SUFFICES ASSUME Init PROVE IInv
  OBVIOUS
<1>1. /\ nodes = <<>> /\ slices = <<>> /\ trees = [m \in Method |-> 0]
      /\ mark = [nodes |-> 0, slices |-> 0] /\ pc = "idle" /\ job = NoJob /\ todo = <<>>
      /\ n = 0 /\ path = <<>> /\ fullPath = <<>> /\ routes = [m \in Method |-> {}]
  BY DEF Init
<1>2. TypeOK
  BY <1>1, NoJobType DEF TypeOK
<1>3. PublishedClosed /\ WalkIsPrivate /\ ChildrenInRange
  BY <1>1 DEF PublishedClosed, WalkIsPrivate, ChildrenInRange
<1> QED  BY <1>2, <1>3 DEF IInv

\* Every step keeps the invariant and writes no published memory.
LEMMA StepHolds == IInv /\ [Next]_vars => IInv' /\ [FrozenStep]_vars
<1> SUFFICES ASSUME IInv, [Next]_vars PROVE IInv' /\ [FrozenStep]_vars
  OBVIOUS
<1>1. CASE UNCHANGED vars
  BY <1>1 DEF vars, IInv, TypeOK, PublishedClosed, WalkIsPrivate, ChildrenInRange, InRange, Children
<1>2. ASSUME NEW m \in Method, NEW p \in Requests, Handle(m, p) PROVE IInv' /\ FrozenStep
  BY <1>2, HandleStep
<1>3. CASE AddRoute
  <2>1. CASE Expand
    BY <2>1, ExpandStep
  <2>2. CASE ExpandPanics
    BY <2>2, PanicStep DEF ExpandPanics
  <2>3. CASE Enter
    BY <2>3, EnterStep
  <2>4. CASE Split
    BY <2>4, SplitStep
  <2>5. CASE DescendParam
    BY <2>5, DescendParamStep
  <2>6. CASE DescendStatic
    BY <2>6, DescendStaticStep
  <2>7. CASE AddStatic
    BY <2>7, AddStaticStep
  <2>8. CASE AddStaticPanics
    BY <2>8, PanicStep DEF AddStaticPanics
  <2>9. CASE DescendWild
    BY <2>9, DescendWildStep
  <2>10. CASE DescendWildPanics
    BY <2>10, PanicStep DEF DescendWildPanics
  <2>11. CASE AddWild
    BY <2>11, AddWildStep
  <2>12. CASE SetHandler
    BY <2>12, SetHandlerStep
  <2>13. CASE SetHandlerPanics
    BY <2>13, PanicStep DEF SetHandlerPanics
  <2>14. CASE InsertStatic
    BY <2>14, InsertStaticStep
  <2>15. CASE InsertLastParam
    BY <2>15, InsertLastParamStep
  <2>16. CASE InsertParam
    BY <2>16, InsertParamStep
  <2>17. CASE InsertCatchAll
    BY <2>17, InsertCatchAllStep
  <2>18. CASE InsertPanics
    BY <2>18, PanicStep DEF InsertPanics
  <2>19. CASE Return
    BY <2>19, ReturnStep
  <2> QED  BY <1>3, <2>1, <2>2, <2>3, <2>4, <2>5, <2>6, <2>7, <2>8, <2>9, <2>10, <2>11,
              <2>12, <2>13, <2>14, <2>15, <2>16, <2>17, <2>18, <2>19 DEF AddRoute
<1>4. CASE Publish
  BY <1>4, PublishStep
<1> QED  BY <1>1, <1>2, <1>3, <1>4 DEF Next

\* IInv is inductive, and so always holds.
LEMMA Inductive == Spec => []IInv
<1>1. Init => IInv
  BY InitHolds
<1>2. IInv /\ [Next]_vars => IInv'
  BY StepHolds
<1> QED  BY <1>1, <1>2, PTL DEF Spec

\* Whatever is registered, in whatever order and whichever calls panic, every
\* variable of the registration keeps its type.
THEOREM TypeCorrect == Spec => []TypeOK
<1>1. IInv => TypeOK
  BY DEF IInv
<1> QED  BY <1>1, Inductive, PTL

\* The trees treesPtr publishes are closed: no root, node or slice in them leads
\* to memory a registration is building or that a panic has thrown away.
THEOREM PublishedTreesClosed == Spec => []PublishedClosed
<1>1. IInv => PublishedClosed
  BY DEF IInv
<1> QED  BY <1>1, Inductive, PTL

\* Every node a registration may still write owns its children slice, so what
\* copyNode and append do to it cannot be seen through a published node.
THEOREM WalkStaysPrivate == Spec => []WalkIsPrivate
<1>1. IInv => WalkIsPrivate
  BY DEF IInv
<1> QED  BY <1>1, Inductive, PTL

\* No index byte is without its child and no wildcard flag without its last
\* child, so neither addRoute nor getValue indexes children out of range.
THEOREM NoIndexOutOfRange == Spec => []ChildrenInRange
<1>1. IInv => ChildrenInRange
  BY DEF IInv
<1> QED  BY <1>1, Inductive, PTL

\* Registration is memory-safe: PublishedClosed, WalkIsPrivate and ChildrenInRange hold
\* throughout, for every set of patterns (Handle, addRouteInternal, insertChild).
THEOREM RegistrationIsMemorySafe == Spec => []MemorySafe
<1>1. IInv => MemorySafe
  BY DEF IInv, MemorySafe
<1> QED  BY <1>1, Inductive, PTL

\* No step of a registration writes a node or a slice that requests may be
\* reading: the lock-free readers of treesPtr see trees that never change.
THEOREM ReadersSeeFrozenTrees == Spec => PublishedFrozen
<1>1. Init => IInv
  BY InitHolds
<1>2. IInv /\ [Next]_vars => IInv'
  BY StepHolds
<1>3. IInv /\ [Next]_vars => [FrozenStep]_vars
  BY StepHolds
<1> QED  BY <1>1, <1>2, <1>3, PTL DEF Spec, PublishedFrozen
=============================================================================
