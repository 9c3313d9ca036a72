---------------------------- MODULE PooledProofs ----------------------------
(***************************************************************************)
(* What requests take from pools and give back.                            *)
(*                                                                         *)
(* Bundles: recycled bundles and slices are nobody's, and every handler    *)
(* reads its own parameters, for any number of requests, routes,           *)
(* parameters and pooled cells, and any depth of mounts.                   *)
(*                                                                         *)
(* Writers: the wrappers of the ResponseWriter are transparent, a panic is *)
(* answered, and the status logged is the one sent, for any chain of them, *)
(* any buffer and body sizes and any number of calls and requests.         *)
(***************************************************************************)
EXTENDS Bundles, Writers, SequenceTheorems, WellFoundedInduction, TLAPS

\* What the frame of a dispatch has, and the states it goes through.
Fields  == {"route", "own", "kind", "ctx", "want", "slice", "state"}
States  == {"matched", "run", "forwarded", "cleared"}

\* Contexts chain to contexts.
HeapOK(h) == DOMAIN h = Cells /\ \A c \in Cells : h[c].parent \in Contexts

\* A dispatch under way of a Mux with the configuration cfg, another inside it or not.
FrameOK(cfg, f, outer) ==
    /\ DOMAIN f = Fields /\ f.route \in Routes /\ f.own \in Contexts /\ f.ctx \in Contexts
    /\ f.kind \in Kinds \cup {"none"} /\ f.state \in States
    /\ outer => f.route.mount /\ f.state = "run"
    /\ f.state \in {"matched", "forwarded"} => f.route.mount
    /\ f.kind # "none" => /\ f.own # Root /\ ~ f.route.mount
                          /\ IF f.route.fast THEN cfg.poolFastParams ELSE cfg.poolRequestBundle
    /\ f.state = "cleared" => f.kind # "none"

\* What a goroutine that outlives its handler reads.
KeptOK(k) == /\ DOMAIN k = {"ctx", "want", "values", "slice"}
             /\ k.ctx \in Contexts /\ k.slice \in Contexts

\* The stack s is a sequence.
StackOK(s) == s \in Seq({s[i] : i \in 1..Len(s)})

\* Every variable has its type, and all dispatches of a request but the last are mounts.
Typed ==
    /\ HeapOK(heap)
    /\ pool \in [Kinds -> SUBSET Cells]
    /\ DOMAIN stack = Requests
    /\ \A g \in Requests :
          /\ StackOK(stack[g]) /\ Len(stack[g]) \in 0..MaxDepth
          /\ \A i \in 1..Len(stack[g]) : FrameOK(conf[i], stack[g][i], i < Len(stack[g]))
    /\ \A k \in kept : KeptOK(k)

-----------------------------------------------------------------------------
(* Who may reach what.                                                     *)

\* The contexts a lookup from c reaches in the memory h.
Reach(h, c) == {Asked(h, c)[k] : k \in 0..Longest} \ {Root}

\* The context x of the memory h answers w itself, or the one behind it does.
Direct(h, x, w) == /\ x # Root /\ ~ h[x].zero /\ h[x].pattern # ""
                   /\ w = [pattern |-> h[x].pattern, params |-> h[x].params]
Says(h, x, w) == \/ x = Root /\ w = NoInfo
                 \/ Direct(h, x, w)
                 \/ x # Root /\ ~ h[x].zero /\ h[x].pattern = "" /\ Direct(h, h[x].parent, w)

\* The cells that are pooled or will be.
Recycled == {c \in Cells : \/ \E k \in Kinds : c \in pool[k]
                           \/ \E g \in Requests : \E i \in 1..Depth(g) :
                                 stack[g][i].kind # "none" /\ stack[g][i].own = c}

\* In the memory h, with the cells P recycled, a dispatch reaches none of them but its own
\* bundle, and its handler reads what it should.
FrameSafe(h, P, f) ==
    /\ P \cap (Reach(h, f.ctx) \ {f.ctx}) = {}
    /\ f.ctx \in P => f.ctx = f.own /\ f.kind # "none"
    /\ f.own \in P => f.kind # "none"
    /\ f.state = "matched" => f.ctx = f.own /\ Direct(h, f.own, f.want)
    /\ f.state = "cleared" => h[f.own] = Zero
    /\ f.state # "cleared" => /\ Says(h, f.ctx, f.want)
                              /\ f.route.fast /\ f.own # Root => h[f.own].params = f.slice

\* A frame is as safe from fewer of them.
LEMMA FewerRecycled ==
    ASSUME NEW h, NEW P, NEW Q, NEW f, Q \subseteq P, FrameSafe(h, P, f)
    PROVE  FrameSafe(h, Q, f)
<1>1. Q \cap (Reach(h, f.ctx) \ {f.ctx}) = {}
  BY DEF FrameSafe
<1>2. /\ f.ctx \in Q => f.ctx = f.own /\ f.kind # "none"
      /\ f.own \in Q => f.kind # "none"
  BY DEF FrameSafe
<1> QED
  BY <1>1, <1>2 DEF FrameSafe

\* A goroutine that outlives its handler reaches none of them.
KeptSafe(h, P, k) ==
    /\ P \cap Reach(h, k.ctx) = {} /\ k.slice \notin P /\ Says(h, k.ctx, k.want)
    /\ k.slice # Root => h[k.slice].params = k.values

\* What is pooled is clear and in one pool, no two dispatches own one cell, and nobody
\* reaches a recycled cell but the dispatch that owns it.
Owned ==
    /\ \A k \in Kinds : \A c \in pool[k] : heap[c] = Zero
    /\ \A k, l \in Kinds : k # l => pool[k] \cap pool[l] = {}
    /\ \A g, h \in Requests : \A i \in 1..Depth(g), j \in 1..Depth(h) :
          stack[g][i].own = stack[h][j].own /\ <<g, i>> # <<h, j>> => stack[g][i].own = Root
    /\ \A g \in Requests : \A i \in 1..Depth(g) : \A k \in Kinds : stack[g][i].own \notin pool[k]
    /\ \A g \in Requests : \A i \in 1..Depth(g) : FrameSafe(heap, Recycled, stack[g][i])
    /\ \A k \in kept : KeptSafe(heap, Recycled, k)
-----------------------------------------------------------------------------
(* Lookups.                                                                *)

\* A set of numbers has a least one.
LEMMA Least ==
    ASSUME NEW S, S \subseteq Nat, S # {}
    PROVE  \E i \in S : \A j \in S : i <= j
<1>1. PICK i \in S : \A j \in S : ~ (<<j, i>> \in OpToRel(<, Nat))
  BY NatLessThanWellFounded, WFMin
<1>2. ASSUME NEW j \in S PROVE i <= j
  <2>1. <<j, i>> \in Nat \X Nat
    OBVIOUS
  <2>2. ~ (j < i)
    BY <1>1, <2>1, Zenon DEF OpToRel
  <2> QED
    BY <2>1, <2>2
<1> QED
  BY <1>2

\* Whom a context asks.
Parent(h, x) == IF x = Root THEN Root ELSE h[x].parent

\* The bound of a lookup.
LEMMA LongestIs == Longest \in Nat /\ Longest >= 2
<1>1. MaxDepth \in Nat \ {0}
  BY RoutesAssumption DEF RoutesAssumption
<1> QED
  BY ONLY <1>1 DEF Longest

\* A context's parent is one.
LEMMA ParentIs == ASSUME NEW h, HeapOK(h), NEW x \in Contexts PROVE Parent(h, x) \in Contexts
<1>1. x # Root => x \in Cells
  BY DEF Contexts
<1>2. Root \in Contexts
  BY DEF Contexts
<1> QED
  BY <1>1, <1>2 DEF Parent, HeapOK

\* A lookup starts with its context and asks one parent after the other.
LEMMA AskedIs ==
    ASSUME NEW h, HeapOK(h), NEW c \in Contexts
    PROVE  /\ Asked(h, c) \in [0..Longest -> Contexts] /\ Asked(h, c)[0] = c
           /\ \A k \in 1..Longest : Asked(h, c)[k] = Parent(h, Asked(h, c)[k - 1])
<1> DEFINE Runs(f, n) == /\ f \in [0..n -> Contexts] /\ f[0] = c
                         /\ \A k \in 1..n : f[k] = Parent(h, f[k - 1])
           Def(f) == [k \in 0..Longest |-> IF k = 0 THEN c ELSE Parent(h, f[k - 1])]
           a == CHOOSE f : f = Def(f)
<1>1. Asked(h, c) = a
  BY DEF Asked, Parent
<1>2. Longest \in Nat /\ \A x \in Contexts : Parent(h, x) \in Contexts
  BY LongestIs, ParentIs
<1> DEFINE Bad == {n \in Nat : ~ \E f : Runs(f, n)}
<1>3. Bad = {}
  <2> SUFFICES ASSUME Bad # {} PROVE FALSE
    OBVIOUS
  <2>1. PICK n \in Bad : \A m \in Bad : n <= m
    <3>1. Bad \subseteq Nat
      OBVIOUS
    <3> HIDE DEF Bad
    <3> QED
      BY <3>1, Least
  <2>2. n # 0
    <3>1. Runs([k \in 0..0 |-> c], 0)
      OBVIOUS
    <3> QED
      BY <3>1
  <2>3. n \in Nat /\ n - 1 \in Nat /\ ~ (n <= n - 1)
    BY <2>2
  <2>4. PICK f : Runs(f, n - 1)
    BY <2>1, <2>3
  <2> DEFINE e == [k \in 0..n |-> IF k = n THEN Parent(h, f[n - 1]) ELSE f[k]]
  <2>5. /\ n - 1 \in 0..(n - 1) /\ 0 \in 0..(n - 1) /\ 0 # n
        /\ \A k \in 0..n : k = n \/ k \in 0..(n - 1)
        /\ \A k \in 1..n : k - 1 \in 0..n /\ k - 1 # n /\ k \in 0..n /\ (k = n \/ k \in 1..(n - 1))
    BY <2>3
  <2>6. Runs(e, n)
    BY <1>2, <2>4, <2>5
  <2> QED
    BY <2>6
<1>4. PICK f : Runs(f, Longest)
  BY <1>2, <1>3
<1>5. \A k \in 0..Longest : k # 0 => k \in 1..Longest /\ k - 1 \in 0..Longest
  BY <1>2
<1>6. f = Def(f)
  BY <1>4, <1>5
<1>7. a = Def(a)
  BY <1>6
<1> HIDE DEF a
<1>8. /\ a = [k \in 0..Longest |-> a[k]] /\ a[0] = c
      /\ \A k \in 1..Longest : a[k] = Parent(h, a[k - 1])
  BY <1>2, <1>7
<1> DEFINE Off == {k \in 0..Longest : a[k] # f[k]}
<1>9. Off = {}
  <2> SUFFICES ASSUME Off # {} PROVE FALSE
    OBVIOUS
  <2>1. PICK k \in Off : \A j \in Off : k <= j
    <3>1. Off \subseteq Nat
      BY <1>2
    <3> HIDE DEF Off
    <3> QED
      BY <3>1, Least
  <2>2. k # 0
    BY <1>4, <1>8
  <2>3. k \in 1..Longest /\ k - 1 \in 0..Longest /\ ~ (k <= k - 1)
    BY <1>2, <1>5, <2>2
  <2>4. a[k - 1] = f[k - 1]
    BY <2>1, <2>3
  <2> QED
    BY <1>4, <1>8, <2>3, <2>4
<1>10. \A k \in 0..Longest : a[k] \in Contexts
  BY <1>4, <1>9
<1> QED
  BY <1>1, <1>8, <1>10

\* A lookup asks the same contexts in two memories that agree on them.
LEMMA AskedSame ==
    ASSUME NEW h, HeapOK(h), NEW h2, HeapOK(h2), NEW c \in Contexts,
           \A x \in Reach(h, c) : h2[x] = h[x]
    PROVE  Reach(h2, c) = Reach(h, c)
<1> DEFINE a == Asked(h, c)
           b == Asked(h2, c)
<1>1. /\ a \in [0..Longest -> Contexts] /\ a[0] = c
      /\ \A k \in 1..Longest : a[k] = Parent(h, a[k - 1])
  BY AskedIs
<1>2. /\ b \in [0..Longest -> Contexts] /\ b[0] = c
      /\ \A k \in 1..Longest : b[k] = Parent(h2, b[k - 1])
  BY AskedIs
<1>3. \A k \in 0..Longest : a[k] # Root => h2[a[k]] = h[a[k]]
  BY DEF Reach
<1> HIDE DEF a, b
<1>4. \A k \in 0..Longest : k # 0 => k \in 1..Longest /\ k - 1 \in 0..Longest /\ ~ (k <= k - 1)
  BY LongestIs
<1> DEFINE Off == {k \in 0..Longest : a[k] # b[k]}
<1>5. Off = {}
  <2> SUFFICES ASSUME Off # {} PROVE FALSE
    OBVIOUS
  <2>1. PICK k \in Off : \A j \in Off : k <= j
    <3>1. Off \subseteq Nat
      BY LongestIs
    <3> HIDE DEF Off
    <3> QED
      BY <3>1, Least
  <2>2. k # 0
    BY <1>1, <1>2
  <2>3. k \in 1..Longest /\ k - 1 \in 0..Longest /\ ~ (k <= k - 1)
    BY <1>4, <2>2
  <2>4. a[k - 1] = b[k - 1]
    BY <2>1, <2>3
  <2>5. a[k] = b[k]
    BY <1>1, <1>2, <1>3, <2>3, <2>4 DEF Parent
  <2> QED
    BY <2>5
<1>6. \A k \in 0..Longest : a[k] = b[k]
  BY <1>5
<1>7. Reach(h, c) = {a[k] : k \in 0..Longest} \ {Root} /\ Reach(h2, c) = {b[k] : k \in 0..Longest} \ {Root}
  BY DEF Reach, a, b
<1> QED
  BY <1>6, <1>7

\* What a lookup reaches: its context, and what one from the parent reaches.
LEMMA ReachIs ==
    ASSUME NEW h, HeapOK(h), NEW c \in Contexts
    PROVE  /\ Reach(h, c) \subseteq Cells
           /\ c = Root => Reach(h, c) = {}
           /\ c # Root => c \in Reach(h, c)
           /\ c # Root /\ h[c].parent # Root => h[c].parent \in Reach(h, c)
           /\ c # Root => Reach(h, c) \subseteq {c} \cup Reach(h, h[c].parent)
<1> DEFINE a == Asked(h, c)
           p == Parent(h, c)
           b == Asked(h, p)
<1>1. /\ a \in [0..Longest -> Contexts] /\ a[0] = c
      /\ \A k \in 1..Longest : a[k] = Parent(h, a[k - 1])
  BY AskedIs
<1>2. p \in Contexts
  BY ParentIs
<1> HIDE DEF p
<1>3. /\ b \in [0..Longest -> Contexts] /\ b[0] = p
      /\ \A k \in 1..Longest : b[k] = Parent(h, b[k - 1])
  BY <1>2, AskedIs
<1>4. Reach(h, c) = {a[k] : k \in 0..Longest} \ {Root} /\ Reach(h, p) = {b[k] : k \in 0..Longest} \ {Root}
  BY DEF Reach
<1> HIDE DEF a, b
<1>5. /\ 0 \in 0..Longest /\ 1 \in 1..Longest /\ 1 \in 0..Longest /\ 1 - 1 = 0
      /\ \A k \in 0..Longest : k # 0 => k \in 1..Longest /\ k - 1 \in 0..Longest /\ ~ (k <= k - 1)
      /\ \A k \in 1..Longest : k \in 0..Longest
  BY LongestIs
<1>6. a[1] = p
  BY <1>1, <1>5 DEF p
<1> DEFINE Off == {k \in 1..Longest : a[k] # b[k - 1]}
<1>7. Off = {}
  <2> SUFFICES ASSUME Off # {} PROVE FALSE
    OBVIOUS
  <2>1. PICK k \in Off : \A j \in Off : k <= j
    <3>1. Off \subseteq Nat
      BY LongestIs
    <3> HIDE DEF Off
    <3> QED
      BY <3>1, Least
  <2>2. k # 1
    BY <1>3, <1>5, <1>6
  <2>3. k \in 1..Longest /\ k - 1 \in 1..Longest /\ ~ (k <= k - 1) /\ k - 1 \in 0..Longest
    BY LongestIs, <2>2
  <2>4. a[k - 1] = b[(k - 1) - 1]
    BY <2>1, <2>3
  <2>5. a[k] = b[k - 1]
    BY <1>1, <1>3, <2>3, <2>4
  <2> QED
    BY <2>1, <2>5
<1>8. \A k \in 0..Longest : a[k] = c \/ (k - 1 \in 0..Longest /\ a[k] = b[k - 1])
  BY <1>1, <1>5, <1>7
<1>9. \A x \in Contexts : x # Root => x \in Cells
  BY DEF Contexts
<1>10. Reach(h, c) \subseteq Cells
  BY <1>1, <1>4, <1>9
<1>11. c = Root => Reach(h, c) = {}
  <2> SUFFICES ASSUME c = Root PROVE \A k \in 0..Longest : a[k] = Root
    BY <1>4
  <2> DEFINE Up == {k \in 0..Longest : a[k] # Root}
  <2>1. Up = {}
    <3> SUFFICES ASSUME Up # {} PROVE FALSE
      OBVIOUS
    <3>1. PICK k \in Up : \A j \in Up : k <= j
      <4>1. Up \subseteq Nat
        BY LongestIs
      <4> HIDE DEF Up
      <4> QED
        BY <4>1, Least
    <3>2. k # 0
      BY <1>1
    <3>3. a[k - 1] = Root
      BY <1>5, <3>1, <3>2
    <3> QED
      BY <1>1, <1>5, <3>1, <3>2, <3>3 DEF Parent
  <2> QED
    BY <2>1
<1>12. c # Root => c \in Reach(h, c)
  BY <1>1, <1>4, <1>5
<1>13. c # Root => p = h[c].parent
  BY DEF p, Parent
<1>14. p # Root => p \in Reach(h, c)
  BY <1>4, <1>5, <1>6
<1>15. Reach(h, c) \subseteq {c} \cup Reach(h, p)
  BY <1>4, <1>8
<1> QED
  BY <1>10, <1>11, <1>12, <1>13, <1>14, <1>15

\* A lookup finds what the first context that answers says.
LEMMA SaysIs ==
    ASSUME HeapOK(heap), NEW x \in Contexts, NEW w, Says(heap, x, w)
    PROVE  RouteCtx(x) = w
<1> DEFINE a == Asked(heap, x)
           Answers(k) == a[k] = Root \/ heap[a[k]].zero \/ heap[a[k]].pattern # ""
           First(k) == Answers(k) /\ \A j \in 0..(k - 1) : ~ Answers(j)
           f == CHOOSE k \in 0..Longest : First(k)
<1>1. RouteCtx(x) = Info(a[f])
  BY DEF RouteCtx
<1>2. a[0] = x /\ a[1] = Parent(heap, x)
  <2>1. 1 \in 1..Longest /\ 1 - 1 = 0
    BY LongestIs
  <2> QED
    BY <2>1, AskedIs
<1> HIDE DEF a
<1>3. 0 \in 0..Longest /\ 1 \in 0..Longest /\ 0..(0 - 1) = {} /\ 0..(1 - 1) = {0}
  BY LongestIs
<1>4. \A i \in 0..Longest : First(i) => f = i
  <2> SUFFICES ASSUME NEW i \in 0..Longest, First(i) PROVE f = i
    OBVIOUS
  <2>1. f \in 0..Longest /\ First(f)
    BY Zenon
  <2> HIDE DEF f, Answers
  <2>2. f \in Nat /\ i \in Nat
    BY <2>1, LongestIs
  <2>3. f = i \/ f \in 0..(i - 1) \/ i \in 0..(f - 1)
    BY ONLY <2>2
  <2> QED
    BY <2>1, <2>3
<1> HIDE DEF f
<1>5. CASE Answers(0)
  <2>1. f = 0
    BY <1>3, <1>4, <1>5
  <2> QED
    BY <1>1, <1>2, <1>5, <2>1 DEF Says, Direct, Info
<1>6. CASE ~ Answers(0)
  <2>1. x # Root /\ ~ heap[x].zero /\ heap[x].pattern = "" /\ Direct(heap, heap[x].parent, w)
    BY <1>2, <1>6 DEF Says, Direct
  <2>2. a[1] = heap[x].parent
    BY <1>2, <2>1 DEF Parent
  <2>3. Answers(1)
    BY <2>1, <2>2 DEF Direct
  <2>4. f = 1
    BY <1>3, <1>4, <1>6, <2>3
  <2> QED
    BY <1>1, <2>1, <2>2, <2>4 DEF Direct, Info
<1> QED
  BY <1>5, <1>6

\* Memories that agree on what a lookup reaches answer it alike.
LEMMA SaysSame ==
    ASSUME NEW h, HeapOK(h), NEW h2, NEW x \in Contexts, NEW w, Says(h, x, w),
           \A y \in Reach(h, x) : h2[y] = h[y]
    PROVE  Says(h2, x, w)
<1>1. x # Root => h2[x] = h[x]
  BY ReachIs
<1>2. x # Root /\ h[x].parent # Root => h2[h[x].parent] = h[h[x].parent]
  BY ReachIs
<1> QED
  BY <1>1, <1>2 DEF Says, Direct

-----------------------------------------------------------------------------
(* What a step leaves as it is.                                            *)

\* Root is no cell, and the recycled cells are cells.
LEMMA CellsAre == Root \notin Cells /\ Recycled \subseteq Cells /\ Contexts = Cells \cup {Root}
BY RoutesAssumption DEF RoutesAssumption, Root, Recycled, Contexts

\* A dispatch is safe in another memory, with other cells recycled, if what it reaches
\* is the same and no more of it is recycled.
LEMMA FrameSame ==
    ASSUME NEW h, HeapOK(h), NEW h2, HeapOK(h2), NEW P, NEW P2, P2 \subseteq Cells,
           NEW f, f.ctx \in Contexts, f.own \in Contexts, f.state = "cleared" => f.own # Root,
           FrameSafe(h, P, f),
           \A x \in Reach(h, f.ctx) \cup {f.own} : x # Root => h2[x] = h[x] /\ (x \in P2 => x \in P)
    PROVE  FrameSafe(h2, P2, f)
<1>1. /\ f.ctx # Root => f.ctx \in Reach(h, f.ctx)
      /\ Reach(h, f.ctx) \subseteq Cells /\ Root \notin Cells
  BY ReachIs, CellsAre
<1>2. Reach(h2, f.ctx) = Reach(h, f.ctx)
  BY <1>1, AskedSame
<1>3. /\ P2 \cap (Reach(h2, f.ctx) \ {f.ctx}) = {}
      /\ f.ctx \in P2 => f.ctx = f.own /\ f.kind # "none"
      /\ f.own \in P2 => f.kind # "none"
  BY <1>1, <1>2 DEF FrameSafe
<1>4. f.state = "matched" => f.ctx = f.own /\ Direct(h2, f.own, f.want)
  BY <1>1 DEF FrameSafe, Direct
<1>5. f.state = "cleared" => h2[f.own] = Zero
  BY DEF FrameSafe
<1>6. ASSUME f.state # "cleared"
      PROVE  Says(h2, f.ctx, f.want) /\ (f.route.fast /\ f.own # Root => h2[f.own].params = f.slice)
  <2>1. Says(h, f.ctx, f.want)
    BY <1>6 DEF FrameSafe
  <2>2. Says(h2, f.ctx, f.want)
    BY <1>1, <2>1, SaysSame
  <2> QED
    BY <1>6, <2>2 DEF FrameSafe
<1> QED
  BY <1>3, <1>4, <1>5, <1>6 DEF FrameSafe

\* So is a goroutine that outlives its handler.
LEMMA KeptSame ==
    ASSUME NEW h, HeapOK(h), NEW h2, HeapOK(h2), NEW P, NEW P2, P2 \subseteq Cells,
           NEW k, k.ctx \in Contexts, k.slice \in Contexts, KeptSafe(h, P, k),
           \A x \in Reach(h, k.ctx) \cup {k.slice} : x # Root => h2[x] = h[x] /\ (x \in P2 => x \in P)
    PROVE  KeptSafe(h2, P2, k)
<1>1. Reach(h, k.ctx) \subseteq Cells /\ Root \notin Cells
  BY ReachIs, CellsAre
<1>2. Reach(h2, k.ctx) = Reach(h, k.ctx)
  BY <1>1, AskedSame
<1>3. Says(h, k.ctx, k.want)
  BY DEF KeptSafe
<1>4. Says(h2, k.ctx, k.want)
  BY <1>1, <1>3, SaysSame
<1> QED
  BY <1>1, <1>2, <1>4 DEF KeptSafe

\* What is held is what the dispatches and those goroutines reach.
LEMMA HeldIs ==
    /\ \A g \in Requests : \A i \in 1..Depth(g) :
          Reach(heap, stack[g][i].ctx) \cup ({stack[g][i].own} \ {Root}) \subseteq Held
    /\ \A k \in kept : Reach(heap, k.ctx) \cup ({k.slice} \ {Root}) \subseteq Held
<1>1. ASSUME NEW g \in Requests, NEW i \in 1..Depth(g)
      PROVE  FrameCells(stack[g][i]) \subseteq Held
  <2>1. stack[g][i] \in Frames(g)
    BY DEF Frames, Depth
  <2>2. FrameCells(stack[g][i]) \subseteq UNION {FrameCells(f) : f \in Frames(g)}
    BY <2>1
  <2> QED
    BY <2>2 DEF Held
<1>2. ASSUME NEW k \in kept PROVE KeptCells(k) \subseteq Held
  BY DEF Held
<1>3. \A c : Chain(c) = Reach(heap, c)
  BY DEF Chain, Reach
<1> QED
  BY <1>1, <1>2, <1>3 DEF FrameCells, KeptCells

\* A new allocation is a cell that nothing refers to.
LEMMA FreshIs ==
    ASSUME NEW c \in Fresh PROVE c \in Cells /\ c \notin Held /\ \A k \in Kinds : c \notin pool[k]
<1> DEFINE free == Cells \ Used
<1>1. free # {}
  BY DEF Fresh
<1>2. free \subseteq Nat
  BY RoutesAssumption DEF RoutesAssumption
<1>3. c = CHOOSE b \in free : \A d \in free : b <= d
  BY <1>1 DEF Fresh
<1> HIDE DEF free
<1>4. c \in free
  BY <1>1, <1>2, <1>3, Least
<1> QED
  BY <1>4 DEF free, Used

\* A step that writes nothing that is held, and recycles nothing of it, leaves all
\* dispatches and goroutines safe.
LEMMA HeldSafe ==
    ASSUME Typed, Owned, HeapOK(heap'), NEW P2, P2 \subseteq Cells,
           \A x \in Held : heap'[x] = heap[x] /\ (x \in P2 => x \in Recycled)
    PROVE  /\ \A g \in Requests : \A i \in 1..Depth(g) : FrameSafe(heap', P2, stack[g][i])
           /\ \A k \in kept : KeptSafe(heap', P2, k)
<1>1. HeapOK(heap)
  BY DEF Typed
<1>2. ASSUME NEW g \in Requests, NEW i \in 1..Depth(g) PROVE FrameSafe(heap', P2, stack[g][i])
  <2> DEFINE f == stack[g][i]
  <2>1. f.ctx \in Contexts /\ f.own \in Contexts /\ (f.state = "cleared" => f.own # Root)
    BY <1>2 DEF Typed, FrameOK, Depth
  <2>2. FrameSafe(heap, Recycled, f)
    BY <1>2 DEF Owned
  <2>3. Reach(heap, f.ctx) \cup ({f.own} \ {Root}) \subseteq Held
    BY <1>2, HeldIs
  <2> HIDE DEF f
  <2>4. FrameSafe(heap', P2, f)
    BY <1>1, <2>1, <2>2, <2>3, FrameSame
  <2> QED
    BY <2>4 DEF f
<1>3. ASSUME NEW k \in kept PROVE KeptSafe(heap', P2, k)
  <2>1. k.ctx \in Contexts /\ k.slice \in Contexts
    BY <1>3 DEF Typed, KeptOK
  <2>2. KeptSafe(heap, Recycled, k)
    BY <1>3 DEF Owned
  <2>3. Reach(heap, k.ctx) \cup ({k.slice} \ {Root}) \subseteq Held
    BY <1>3, HeldIs
  <2> QED
    BY <1>1, <2>1, <2>2, <2>3, KeptSame
<1> QED
  BY <1>2, <1>3

\* A sequence is one of its elements.
LEMMA StackIs == ASSUME NEW S, NEW s \in Seq(S) PROVE StackOK(s)
<1> DEFINE T == {s[i] : i \in 1..Len(s)}
<1>1. Len(s) \in Nat /\ s = [i \in 1..Len(s) |-> s[i]]
  OBVIOUS
<1>2. s \in [1..Len(s) -> T]
  BY <1>1
<1>3. s \in Seq(T)
  <2> HIDE DEF T
  <2> QED
    BY <1>1, <1>2, SeqDef
<1> QED
  BY <1>3 DEF StackOK

-----------------------------------------------------------------------------
(* A dispatch begins.                                                      *)

\* A dispatch that called a mounted Mux waits for it.
Resumed(f, u) == u = f \/ (f.state = "forwarded" /\ u = [f EXCEPT !.state = "run"])
NewFrame(g, rt, c, kind, ctx, want) ==
    [route |-> rt, own |-> c, kind |-> kind, ctx |-> ctx, want |-> want,
     slice |-> Captured(g, rt), state |-> IF rt.mount THEN "matched" ELSE "run"]

\* It is the same dispatch.
LEMMA ResumedIs ==
    ASSUME NEW f, NEW u, DOMAIN f = Fields, Resumed(f, u)
    PROVE  /\ DOMAIN u = Fields /\ u.route = f.route /\ u.own = f.own /\ u.kind = f.kind
           /\ u.ctx = f.ctx /\ u.want = f.want /\ u.slice = f.slice
           /\ u.state = f.state \/ (f.state = "forwarded" /\ u.state = "run")
<1>1. CASE u = f
  BY <1>1
<1>2. CASE f.state = "forwarded" /\ u = [f EXCEPT !.state = "run"]
  BY <1>2 DEF Fields
<1> QED
  BY <1>1, <1>2 DEF Resumed

\* A frame is pushed.
LEMMA PushIs ==
    ASSUME Typed, NEW g \in Requests, MayDispatch(g), NEW rt, NEW c, NEW kind, NEW ctx, NEW want,
           Push(g, rt, c, kind, ctx, want)
    PROVE  /\ DOMAIN stack' = Requests /\ \A s \in Requests \ {g} : stack'[s] = stack[s]
           /\ StackOK(stack'[g]) /\ Len(stack'[g]) = Len(stack[g]) + 1
           /\ \A i \in 1..Len(stack[g]) : /\ Resumed(stack[g][i], stack'[g][i])
                                          /\ i = Len(stack[g]) => stack'[g][i].state = "run"
           /\ stack'[g][Len(stack[g]) + 1] = NewFrame(g, rt, c, kind, ctx, want)
<1> DEFINE s == stack[g]
           n == Len(s)
           f == NewFrame(g, rt, c, kind, ctx, want)
           u == [s[n] EXCEPT !.state = "run"]
           t == IF n = 0 THEN s ELSE [s EXCEPT ![n] = u]
           S == {s[i] : i \in 1..n} \cup {u, f}
<1>1. s \in Seq(S) /\ n \in Nat /\ u \in S /\ f \in S /\ DOMAIN stack = Requests
  <2>1. s \in Seq({s[i] : i \in 1..n}) /\ n \in Nat /\ DOMAIN stack = Requests
    BY DEF Typed, StackOK
  <2>2. {s[i] : i \in 1..n} \subseteq S /\ u \in S /\ f \in S
    OBVIOUS
  <2> HIDE DEF S
  <2> QED
    BY <2>1, <2>2, SeqMonotonic
<1>2. n # 0 => s[n].state = "forwarded" /\ s[n] = Top(g)
  BY DEF MayDispatch, Depth, Top
<1>3. stack' = [stack EXCEPT ![g] = Append(t, f)]
  <2>1. CASE n = 0
    BY <2>1 DEF Push, Depth, NewFrame
  <2>2. CASE n # 0
    BY <1>1, <2>2 DEF Push, Depth, NewFrame
  <2> QED
    BY <2>1, <2>2
<1> HIDE DEF f, u, S
<1>4. /\ t \in Seq(S) /\ Len(t) = n
      /\ \A i \in 1..n : t[i] = IF i = n THEN u ELSE s[i]
  BY <1>1
<1> HIDE DEF t
<1>5. stack'[g] = Append(t, f) /\ DOMAIN stack' = Requests /\ \A r \in Requests \ {g} : stack'[r] = stack[r]
  BY <1>1, <1>3
<1>6. /\ Append(t, f) \in Seq(S) /\ Len(Append(t, f)) = n + 1 /\ Append(t, f)[n + 1] = f
      /\ \A i \in 1..n : Append(t, f)[i] = IF i = n THEN u ELSE s[i]
  BY <1>1, <1>4
<1>7. StackOK(stack'[g])
  BY <1>5, <1>6, StackIs
<1>8. ASSUME NEW i \in 1..n PROVE Resumed(s[i], stack'[g][i]) /\ (i = n => stack'[g][i].state = "run")
  <2>1. i = n => u.state = "run"
    <3>1. DOMAIN s[i] = Fields
      BY DEF Typed, FrameOK
    <3> QED
      BY <3>1 DEF u, Fields
  <2>2. stack'[g][i] = IF i = n THEN u ELSE s[i]
    BY <1>5, <1>6
  <2>3. CASE i = n
    <3>1. n # 0 /\ s[i].state = "forwarded"
      BY <1>1, <1>2, <2>3
    <3> QED
      BY <2>1, <2>2, <2>3, <3>1 DEF Resumed, u
  <2>4. CASE i # n
    BY <2>2, <2>4 DEF Resumed
  <2> QED
    BY <2>3, <2>4
<1> QED
  BY <1>5, <1>6, <1>7, <1>8 DEF f

\* Only cells are held.
LEMMA HeldCells == Typed => Held \subseteq Cells
<1> SUFFICES ASSUME Typed PROVE Held \subseteq Cells
  OBVIOUS
<1>1. \A g \in Requests : \A i \in 1..Depth(g) : FrameCells(stack[g][i]) \subseteq Cells
  BY ReachIs, CellsAre DEF FrameCells, Chain, Reach, Typed, FrameOK, Depth
<1>2. \A k \in kept : KeptCells(k) \subseteq Cells
  BY ReachIs, CellsAre DEF KeptCells, Chain, Reach, Typed, KeptOK
<1> QED
  BY <1>1, <1>2 DEF Held, Frames, Depth

\* What a dispatch that is pushed comes from: the cell c is new or was pooled, and only
\* it is written.
Begins(g, rt, c, kind, ctx, want) ==
    /\ Push(g, rt, c, kind, ctx, want) /\ UNCHANGED <<conf, kept>>
    /\ rt \in Routes /\ c \in Contexts /\ kind \in Kinds \cup {"none"} /\ ctx \in Contexts
    /\ kind # "none" => /\ c # Root /\ ~ rt.mount
                        /\ IF rt.fast THEN conf[Depth(g) + 1].poolFastParams
                           ELSE conf[Depth(g) + 1].poolRequestBundle
    /\ HeapOK(heap') /\ \A x \in Cells \ {c} : heap'[x] = heap[x]
    /\ pool' \in [Kinds -> SUBSET Cells] /\ \A k \in Kinds : pool'[k] \subseteq pool[k] \ {c}
    /\ c \notin Held

\* Root is not held.
LEMMA RootFree == Root \notin Held
<1>1. \A c : Root \notin Chain(c)
  BY DEF Chain
<1>2. \A f : Root \notin FrameCells(f)
  BY <1>1 DEF FrameCells
<1>3. \A k : Root \notin KeptCells(k)
  BY <1>1 DEF KeptCells
<1> QED
  BY <1>2, <1>3 DEF Held

\* What is recycled then is what was, and the new cell if it is to be put back.
LEMMA BeginsRecycled ==
    ASSUME Typed, Owned, NEW g \in Requests, MayDispatch(g), NEW rt, NEW c, NEW kind, NEW ctx, NEW want,
           Begins(g, rt, c, kind, ctx, want)
    PROVE  /\ Recycled' \subseteq Cells
           /\ \A x \in Recycled' : (x \in Recycled /\ x # c) \/ (x = c /\ kind # "none")
           /\ \A x \in Held : x # Root /\ x # c /\ (x \in Recycled' => x \in Recycled)
<1> DEFINE n == Len(stack[g])
<1>1. /\ \A s \in Requests \ {g} : stack'[s] = stack[s]
      /\ Len(stack'[g]) = n + 1 /\ n \in Nat
      /\ \A i \in 1..n : Resumed(stack[g][i], stack'[g][i])
      /\ stack'[g][n + 1] = NewFrame(g, rt, c, kind, ctx, want)
  <2>1. n \in Nat
    BY DEF Typed
  <2> QED
    BY <2>1, PushIs DEF Begins
<1>2. ASSUME NEW i \in 1..n
      PROVE  stack'[g][i].own = stack[g][i].own /\ stack'[g][i].kind = stack[g][i].kind
  <2>1. DOMAIN stack[g][i] = Fields
    BY DEF Typed, FrameOK
  <2> QED
    BY <1>1, <2>1, ResumedIs
<1>3. stack'[g][n + 1].own = c /\ stack'[g][n + 1].kind = kind
  BY <1>1 DEF NewFrame
<1>4. ASSUME NEW x \in Recycled' PROVE (x \in Recycled /\ x # c) \/ (x = c /\ kind # "none")
  <2>1. CASE \E k \in Kinds : x \in pool'[k]
    <3>1. x \in Cells /\ x # c /\ \E k \in Kinds : x \in pool[k]
      BY <2>1 DEF Begins, Recycled
    <3> QED
      BY <3>1 DEF Recycled
  <2>2. CASE \E s \in Requests : \E i \in 1..Len(stack'[s]) :
                stack'[s][i].kind # "none" /\ stack'[s][i].own = x
    <3>0. PICK s \in Requests : \E i \in 1..Len(stack'[s]) :
                                  stack'[s][i].kind # "none" /\ stack'[s][i].own = x
      BY <2>2
    <3>1. PICK i \in 1..Len(stack'[s]) : stack'[s][i].kind # "none" /\ stack'[s][i].own = x
      BY <3>0
    <3>2. x \in Cells
      BY DEF Recycled
    <3>7. ASSUME NEW j \in 1..Len(stack[s]), stack[s][j].own = x PROVE x # c
      BY <3>2, <3>7, HeldIs, CellsAre DEF Begins, Depth
    <3>3. CASE s # g
      BY <1>1, <3>1, <3>2, <3>3, <3>7 DEF Recycled, Depth
    <3>4. CASE s = g /\ i \in 1..n
      BY <1>2, <3>1, <3>2, <3>4, <3>7 DEF Recycled, Depth
    <3>5. CASE s = g /\ i = n + 1
      BY <1>3, <3>1, <3>5
    <3>6. s = g => i \in 1..n \/ i = n + 1
      BY <1>1
    <3> QED
      BY <3>3, <3>4, <3>5, <3>6
  <2> QED
    BY <2>1, <2>2 DEF Recycled, Depth
<1> QED
  BY <1>4, RootFree DEF Recycled, Begins

\* A dispatch that is safe itself endangers no other.
LEMMA BeginsKeeps ==
    ASSUME Typed, Owned, NEW g \in Requests, MayDispatch(g), NEW rt, NEW c, NEW kind, NEW ctx, NEW want,
           Begins(g, rt, c, kind, ctx, want),
           FrameSafe(heap', Recycled', NewFrame(g, rt, c, kind, ctx, want))
    PROVE  Typed' /\ Owned'
<1> DEFINE n == Len(stack[g])
           f == NewFrame(g, rt, c, kind, ctx, want)
<1>1. /\ DOMAIN stack' = Requests /\ \A s \in Requests \ {g} : stack'[s] = stack[s]
      /\ StackOK(stack'[g]) /\ Len(stack'[g]) = n + 1
      /\ \A i \in 1..n : Resumed(stack[g][i], stack'[g][i]) /\ (i = n => stack'[g][i].state = "run")
      /\ stack'[g][n + 1] = f
  BY PushIs DEF Begins
<1>2. n \in Nat /\ n + 1 \in 0..MaxDepth /\ (\A i \in 1..(n + 1) : i \in 1..n \/ i = n + 1)
  <2>1. n \in 0..MaxDepth /\ n < MaxDepth
    <3>1. n \in 0..MaxDepth /\ MaxDepth \in Nat \ {0}
      BY RoutesAssumption DEF Typed, RoutesAssumption
    <3>2. n = 0 \/ n < MaxDepth
      BY DEF MayDispatch, Depth
    <3> QED
      BY ONLY <3>1, <3>2
  <2>2. MaxDepth \in Nat
    BY RoutesAssumption DEF RoutesAssumption
  <2> QED
    BY ONLY <2>1, <2>2
<1>3. ASSUME NEW i \in 1..n
      PROVE  LET a == stack[g][i]
                 b == stack'[g][i]
             IN  /\ DOMAIN b = Fields /\ b.route = a.route /\ b.own = a.own /\ b.kind = a.kind
                 /\ b.ctx = a.ctx /\ b.want = a.want /\ b.slice = a.slice
                 /\ b.state = a.state \/ (a.state = "forwarded" /\ b.state = "run")
  <2>1. DOMAIN stack[g][i] = Fields
    BY DEF Typed, FrameOK
  <2> QED
    BY <1>1, <2>1, ResumedIs
<1>4. conf' = conf /\ kept' = kept
  BY DEF Begins
<1>5. f.own = c /\ f.kind = kind /\ f.route = rt /\ f.ctx = ctx /\ DOMAIN f = Fields
      /\ f.state \in {"matched", "run"} /\ (f.state = "matched" => rt.mount)
  BY DEF NewFrame, Fields
<1> HIDE DEF f
<1>6. ASSUME NEW i \in 1..(n + 1) PROVE FrameOK(conf'[i], stack'[g][i], i < n + 1)
  <2>1. CASE i \in 1..n
    <3>1. FrameOK(conf[i], stack[g][i], i < n)
      BY <2>1 DEF Typed
    <3>2. i < n + 1 => stack'[g][i].route.mount /\ stack'[g][i].state = "run"
      <4>1. i = n \/ i < n
        BY <1>2, <2>1
      <4>2. CASE i < n
        BY <1>3, <2>1, <3>1, <4>2 DEF FrameOK
      <4>3. CASE i = n
        <5>1. stack[g][n].state = "forwarded" /\ stack[g][n].route.mount
          BY <1>2, <2>1, <3>1, <4>3 DEF MayDispatch, Depth, Top, FrameOK
        <5> QED
          BY <1>1, <1>3, <2>1, <4>3, <5>1
      <4> QED
        BY <4>1, <4>2, <4>3
    <3> QED
      BY <1>3, <1>4, <2>1, <3>1, <3>2 DEF FrameOK, States
  <2>2. CASE i = n + 1
    <3>1. stack'[g][i] = f /\ ~ (i < n + 1)
      BY <1>1, <1>2, <2>2
    <3> QED
      BY <1>4, <1>5, <2>2, <3>1 DEF FrameOK, States, Begins, Depth
  <2> QED
    BY <1>2, <2>1, <2>2
<1>7. Typed'
  <2>1. HeapOK(heap)' /\ (pool \in [Kinds -> SUBSET Cells])'
    BY DEF Begins
  <2>2. ASSUME NEW s \in Requests
        PROVE  /\ StackOK(stack'[s]) /\ Len(stack'[s]) \in 0..MaxDepth
               /\ \A i \in 1..Len(stack'[s]) : FrameOK(conf'[i], stack'[s][i], i < Len(stack'[s]))
    <3>1. CASE s = g
      BY <1>1, <1>2, <1>6, <3>1
    <3>2. CASE s # g
      BY <1>1, <1>4, <3>2 DEF Typed
    <3> QED
      BY <3>1, <3>2
  <2> QED
    BY <1>1, <1>4, <2>1, <2>2 DEF Typed, KeptOK
<1>8. /\ Recycled' \subseteq Cells
      /\ \A x \in Held : heap'[x] = heap[x] /\ (x \in Recycled' => x \in Recycled)
  <2> QED
    BY HeldCells, BeginsRecycled DEF Begins
<1>9. /\ \A s \in Requests : \A i \in 1..Depth(s) : FrameSafe(heap', Recycled', stack[s][i])
      /\ \A k \in kept : KeptSafe(heap', Recycled', k)
  BY <1>7, <1>8, HeldSafe DEF Typed
<1>10. \A s \in Requests : \A i \in 1..Len(stack'[s]) : FrameSafe(heap', Recycled', stack'[s][i])
  <2> SUFFICES ASSUME NEW s \in Requests, NEW i \in 1..Len(stack'[s])
               PROVE  FrameSafe(heap', Recycled', stack'[s][i])
    OBVIOUS
  <2>1. CASE s # g
    BY <1>1, <1>9, <2>1 DEF Depth
  <2>2. CASE s = g /\ i \in 1..n
    <3>1. FrameSafe(heap', Recycled', stack[g][i])
      BY <1>9, <2>2 DEF Depth
    <3> QED
      BY <1>3, <2>2, <3>1 DEF FrameSafe
  <2>3. CASE s = g /\ i = n + 1
    BY <1>1, <2>3 DEF f
  <2> QED
    BY <1>1, <1>2, <2>1, <2>2, <2>3
<1>11. \A s \in Requests : \A i \in 1..Len(stack'[s]) :
          \/ i \in 1..Len(stack[s]) /\ stack'[s][i].own = stack[s][i].own
          \/ s = g /\ i = n + 1 /\ stack'[s][i].own = c
  BY <1>1, <1>2, <1>3, <1>5
<1>12. c # Root => \A s \in Requests : \A i \in 1..Len(stack[s]) : stack[s][i].own # c
  BY HeldIs DEF Begins, Depth
<1>13. /\ \A k \in Kinds : \A x \in pool'[k] : heap'[x] = Zero
       /\ \A k, l \in Kinds : k # l => pool'[k] \cap pool'[l] = {}
  <2>1. \A k \in Kinds : \A x \in pool'[k] : x \in pool[k] /\ x \in Cells /\ x # c
    BY DEF Begins
  <2> QED
    BY <2>1 DEF Owned, Begins
<1>14. \A s \in Requests : \A i \in 1..Len(stack'[s]) : \A k \in Kinds : stack'[s][i].own \notin pool'[k]
  BY <1>11 DEF Owned, Begins, Depth
<1>15. \A s, t \in Requests : \A i \in 1..Len(stack'[s]), j \in 1..Len(stack'[t]) :
          stack'[s][i].own = stack'[t][j].own /\ <<s, i>> # <<t, j>> => stack'[s][i].own = Root
  <2> SUFFICES ASSUME NEW s \in Requests, NEW t \in Requests, NEW i \in 1..Len(stack'[s]),
                      NEW j \in 1..Len(stack'[t]), stack'[s][i].own = stack'[t][j].own,
                      <<s, i>> # <<t, j>>, stack'[s][i].own # Root
               PROVE  FALSE
    OBVIOUS
  <2> DEFINE Old(v, k) == k \in 1..Len(stack[v]) /\ stack'[v][k].own = stack[v][k].own
             New(v, k) == v = g /\ k = n + 1 /\ stack'[v][k].own = c
  <2>1. (Old(s, i) \/ New(s, i)) /\ (Old(t, j) \/ New(t, j))
    BY <1>11
  <2>2. CASE Old(s, i) /\ Old(t, j)
    <3>1. stack[s][i].own = stack[t][j].own /\ stack[s][i].own # Root
      BY <2>2
    <3> QED
      BY <2>2, <3>1 DEF Owned, Depth
  <2>3. CASE Old(s, i) /\ New(t, j)
    BY <1>12, <2>3
  <2>4. CASE New(s, i) /\ Old(t, j)
    BY <1>12, <2>4
  <2>5. CASE New(s, i) /\ New(t, j)
    BY <2>5
  <2> HIDE DEF Old, New
  <2> QED
    BY <2>1, <2>2, <2>3, <2>4, <2>5
<1> QED
  BY <1>4, <1>7, <1>9, <1>10, <1>13, <1>14, <1>15 DEF Owned, Depth

\* The context that a dispatch finds in its request is safe, and answers what it should.
LEMMA OuterIs ==
    ASSUME Typed, Owned, NEW g \in Requests, MayDispatch(g)
    PROVE  LET o == OuterCtx(g)
           IN  /\ o \in Contexts /\ Reach(heap, o) \subseteq Held /\ Recycled \cap Reach(heap, o) = {}
               /\ Says(heap, o, OuterWant(g)) /\ (o # Root => o \in Held)
<1>1. CASE Depth(g) = 0
  <2>1. OuterCtx(g) = Root /\ OuterWant(g) = NoInfo /\ Root \in Contexts
    BY <1>1 DEF OuterCtx, OuterWant, Contexts
  <2>2. Reach(heap, Root) = {}
    BY <2>1, ReachIs DEF Typed
  <2> QED
    BY <2>1, <2>2 DEF Says
<1>2. CASE Depth(g) # 0
  <2> DEFINE n == Len(stack[g])
             f == stack[g][n]
  <2>1. n \in 1..n /\ f.state = "forwarded" /\ OuterCtx(g) = f.ctx /\ OuterWant(g) = f.want
    BY <1>2 DEF MayDispatch, Depth, Top, OuterCtx, OuterWant, Typed
  <2>2. FrameOK(conf[n], f, n < n)
    BY <2>1 DEF Typed
  <2>3. f.kind = "none" /\ f.ctx \in Contexts
    BY <2>1, <2>2 DEF FrameOK
  <2>4. FrameSafe(heap, Recycled, f)
    BY <2>1 DEF Owned, Depth
  <2>5. Reach(heap, f.ctx) \subseteq Held
    BY <2>1, HeldIs DEF Depth
  <2>6. f.ctx # Root => f.ctx \in Reach(heap, f.ctx)
    BY <2>3, ReachIs DEF Typed
  <2> HIDE DEF f
  <2>7. Recycled \cap Reach(heap, f.ctx) = {} /\ Says(heap, f.ctx, f.want)
    BY <2>1, <2>3, <2>4 DEF FrameSafe
  <2> QED
    BY <2>1, <2>3, <2>5, <2>6, <2>7
<1> QED
  BY <1>1, <1>2

\* Seen after a dispatch has begun, too.
LEMMA OuterStays ==
    ASSUME Typed, Owned, NEW g \in Requests, MayDispatch(g), NEW rt, NEW c, NEW kind, NEW ctx, NEW want,
           Begins(g, rt, c, kind, ctx, want)
    PROVE  LET o == OuterCtx(g)
           IN  /\ Recycled' \cap Reach(heap', o) = {} /\ Says(heap', o, OuterWant(g))
               /\ c \notin Reach(heap', o) /\ (o # Root => o \in Reach(heap', o))
<1> DEFINE o == OuterCtx(g)
<1>1. /\ o \in Contexts /\ Reach(heap, o) \subseteq Held /\ Recycled \cap Reach(heap, o) = {}
      /\ Says(heap, o, OuterWant(g))
  BY OuterIs
<1> HIDE DEF o
<1>2. /\ HeapOK(heap) /\ HeapOK(heap') /\ c \notin Held /\ Reach(heap, o) \subseteq Cells
      /\ \A x \in Reach(heap, o) : heap'[x] = heap[x]
  BY <1>1, ReachIs DEF Begins, Typed
<1>3. Reach(heap', o) = Reach(heap, o)
  BY <1>1, <1>2, AskedSame
<1>4. Says(heap', o, OuterWant(g))
  BY <1>1, <1>2, SaysSame
<1>5. Recycled' \cap Reach(heap, o) = {}
  BY <1>1, <1>2, BeginsRecycled
<1>6. o # Root => o \in Reach(heap', o)
  BY <1>1, <1>2, ReachIs
<1> QED
  BY <1>1, <1>2, <1>3, <1>4, <1>5, <1>6 DEF o

\* A cell that is written belongs to the memory.
LEMMA Written ==
    ASSUME Typed, NEW c \in Cells, NEW v, v.parent \in Contexts, heap' = [heap EXCEPT ![c] = v]
    PROVE  HeapOK(heap') /\ heap'[c] = v /\ \A x \in Cells \ {c} : heap'[x] = heap[x]
BY DEF Typed, HeapOK

\* A cell from a pool is nobody's.
LEMMA PooledIs ==
    ASSUME Typed, Owned, NEW k \in Kinds, NEW c \in pool[k]
    PROVE  c \in Cells /\ c \notin Held /\ \A l \in Kinds : c \in pool[l] => l = k
<1>1. c \in Cells /\ c \in Recycled
  BY DEF Typed, Recycled
<1>2. ASSUME NEW g \in Requests, NEW f \in Frames(g) PROVE c \notin FrameCells(f)
  <2>1. PICK i \in 1..Len(stack[g]) : f = stack[g][i]
    BY DEF Frames
  <2>2. FrameSafe(heap, Recycled, f) /\ f.own # c
    BY <2>1 DEF Owned, Depth
  <2> QED
    BY <1>1, <2>2 DEF FrameSafe, FrameCells, Chain, Reach
<1>3. ASSUME NEW k2 \in kept PROVE c \notin KeptCells(k2)
  BY <1>1 DEF Owned, KeptSafe, KeptCells, Chain, Reach
<1>4. c \notin Held
  BY <1>2, <1>3 DEF Held
<1> QED
  BY <1>1, <1>4 DEF Owned

\* A static route's handler gets the request as it came.
LEMMA StaticKeeps ==
    ASSUME Typed, Owned, NEW g \in Requests, NEW rt \in Routes, dispatchStatic(g, rt)
    PROVE  Typed' /\ Owned'
<1> DEFINE o == OuterCtx(g)
           want == OuterWant(g)
           f == NewFrame(g, rt, Root, "none", o, want)
<1>1. o \in Contexts /\ MayDispatch(g) /\ Root \in Contexts /\ Root \notin Cells
  BY OuterIs, CellsAre DEF dispatchStatic
<1>2. Root \notin Held
  BY RootFree
<1>3. Begins(g, rt, Root, "none", o, want)
  BY <1>1, <1>2 DEF dispatchStatic, Begins, Typed
<1>4. ~ rt.mount
  BY RoutesAssumption DEF RoutesAssumption, dispatchStatic
<1>5. /\ Recycled' \cap Reach(heap', o) = {} /\ Says(heap', o, want)
      /\ o # Root => o \in Reach(heap', o)
  BY <1>1, <1>3, OuterStays
<1>6. Recycled' \subseteq Cells
  BY DEF Recycled
<1> HIDE DEF o, want
<1>7. f.own = Root /\ f.ctx = o /\ f.want = want /\ f.state = "run"
  BY <1>4 DEF NewFrame
<1> HIDE DEF f
<1>8. FrameSafe(heap', Recycled', f)
  BY <1>1, <1>5, <1>6, <1>7 DEF FrameSafe
<1> QED
  BY <1>1, <1>3, <1>8, BeginsKeeps DEF f, o, want

\* A bundle is filled for a match: the context of the request is in it.
LEMMA FillKeeps ==
    ASSUME Typed, Owned, NEW g \in Requests, NEW rt \in Routes, MayDispatch(g), NEW c \in Cells,
           NEW kind \in Kinds \cup {"none"}, rt.keys # <<>>, ~ rt.fast, Fill(g, rt, c, kind),
           UNCHANGED <<conf, kept>>, c \notin Held,
           kind # "none" => ~ rt.mount /\ conf[Depth(g) + 1].poolRequestBundle,
           pool' \in [Kinds -> SUBSET Cells], \A k \in Kinds : pool'[k] \subseteq pool[k] \ {c}
    PROVE  Typed' /\ Owned'
<1> DEFINE o == OuterCtx(g)
           v == [params |-> Captured(g, rt), pattern |-> rt.id, parent |-> o, zero |-> FALSE]
           want == [pattern |-> rt.id, params |-> Captured(g, rt)]
           f == NewFrame(g, rt, c, kind, c, want)
<1>1. o \in Contexts /\ c \in Contexts /\ c # Root
  BY OuterIs, CellsAre
<1>2. heap' = [heap EXCEPT ![c] = v] /\ Push(g, rt, c, kind, c, want)
  BY DEF Fill
<1>3. HeapOK(heap') /\ heap'[c] = v /\ \A x \in Cells \ {c} : heap'[x] = heap[x]
  <2>1. v.parent = o
    OBVIOUS
  <2> HIDE DEF v, o
  <2> QED
    BY <1>1, <1>2, <2>1, Written
<1>4. Begins(g, rt, c, kind, c, want)
  BY <1>1, <1>2, <1>3 DEF Begins
<1>5. Recycled' \cap Reach(heap', o) = {} /\ c \notin Reach(heap', o)
  BY <1>4, OuterStays
<1>6. heap'[c].parent = o /\ Direct(heap', c, want)
  <2>1. rt.id # ""
    BY RoutesAssumption DEF RoutesAssumption
  <2> DEFINE params == Captured(g, rt)
  <2>2. /\ v.parent = o /\ v.pattern = rt.id /\ v.params = params /\ ~ v.zero
        /\ want = [pattern |-> rt.id, params |-> params]
    OBVIOUS
  <2> HIDE DEF params, v, want
  <2> QED
    BY <1>1, <1>3, <2>1, <2>2 DEF Direct
<1>7. Reach(heap', c) \subseteq {c} \cup Reach(heap', o)
  BY <1>1, <1>3, <1>6, ReachIs
<1>8. c \in Recycled' => kind # "none"
  BY <1>4, BeginsRecycled
<1> HIDE DEF o, want
<1>9. f.own = c /\ f.ctx = c /\ f.want = want /\ f.state # "cleared" /\ f.kind = kind /\ f.route = rt
  BY DEF NewFrame
<1> HIDE DEF f
<1>10. FrameSafe(heap', Recycled', f)
  BY <1>5, <1>6, <1>7, <1>8, <1>9 DEF FrameSafe, Says
<1> QED
  BY <1>4, <1>10, BeginsKeeps DEF f, o, want

\* dispatchWithParams and dispatchPooled fill a bundle.
LEMMA BundleKeeps ==
    ASSUME Typed, Owned, NEW g \in Requests, NEW rt \in Routes,
           dispatchWithParams(g, rt) \/ dispatchPooled(g, rt)
    PROVE  Typed' /\ Owned'
<1>1. CASE dispatchWithParams(g, rt)
  <2>1. PICK c \in Fresh : Fill(g, rt, c, "none")
    BY <1>1 DEF dispatchWithParams
  <2>2. c \in Cells /\ c \notin Held /\ \A k \in Kinds : c \notin pool[k]
    BY FreshIs
  <2>3. MayDispatch(g) /\ rt.keys # <<>> /\ ~ rt.fast /\ UNCHANGED <<conf, pool, kept>>
    BY <1>1 DEF dispatchWithParams
  <2>4. pool \in [Kinds -> SUBSET Cells]
    BY DEF Typed
  <2> QED
    BY <2>1, <2>2, <2>3, <2>4, FillKeeps
<1>2. CASE dispatchPooled(g, rt)
  <2>1. PICK kind \in Kinds : \E c \in pool[kind] \cup Fresh :
           Fill(g, rt, c, kind) /\ pool' = [pool EXCEPT ![kind] = @ \ {c}]
    <3>1. {"bundle1", "bundle2", "bundle"} \subseteq Kinds
      BY DEF Kinds
    <3> QED
      BY <1>2, <3>1 DEF dispatchPooled
  <2>2. PICK c \in pool[kind] \cup Fresh : Fill(g, rt, c, kind) /\ pool' = [pool EXCEPT ![kind] = @ \ {c}]
    BY <2>1
  <2>3. c \in Cells /\ c \notin Held /\ \A k \in Kinds : c \in pool[k] => k = kind
    BY FreshIs, PooledIs
  <2>4. /\ MayDispatch(g) /\ rt.keys # <<>> /\ ~ rt.fast /\ ~ rt.mount
        /\ conf[Depth(g) + 1].poolRequestBundle /\ UNCHANGED <<conf, kept>>
    BY <1>2 DEF dispatchPooled
  <2>5. pool' \in [Kinds -> SUBSET Cells] /\ \A k \in Kinds : pool'[k] \subseteq pool[k] \ {c}
    BY <2>2, <2>3 DEF Typed
  <2> QED
    BY <2>2, <2>3, <2>4, <2>5, FillKeeps
<1> QED
  BY <1>1, <1>2

\* A FastHandler gets the request as it came, and a slice.
LEMMA FastKeeps ==
    ASSUME Typed, Owned, NEW g \in Requests, NEW rt \in Routes, dispatchFast(g, rt)
    PROVE  Typed' /\ Owned'
<1> DEFINE o == OuterCtx(g)
           want == OuterWant(g)
           kind == FastKind(rt, Depth(g) + 1)
           params == Captured(g, rt)
<1>1. /\ MayDispatch(g) /\ rt.keys # <<>> /\ rt.fast /\ ~ rt.mount /\ UNCHANGED <<conf, kept>>
      /\ o \in Contexts
  BY OuterIs, RoutesAssumption DEF RoutesAssumption, dispatchFast
<1>2. PICK c \in (IF kind = "none" THEN {} ELSE pool[kind]) \cup Fresh :
         /\ heap' = [heap EXCEPT ![c] = [Zero EXCEPT !.params = params, !.zero = FALSE]]
         /\ Push(g, rt, c, kind, o, want)
         /\ pool' = IF kind = "none" THEN pool ELSE [pool EXCEPT ![kind] = @ \ {c}]
  BY DEF dispatchFast
<1>3. /\ kind \in Kinds \cup {"none"}
      /\ kind # "none" => kind \in Kinds /\ conf[Depth(g) + 1].poolFastParams
  <2>1. {"fast1", "fast2", "fast3"} \subseteq Kinds /\ "none" \notin Kinds
    BY DEF Kinds
  <2> QED
    BY <2>1 DEF FastKind
<1> DEFINE v == [Zero EXCEPT !.params = params, !.zero = FALSE]
           f == NewFrame(g, rt, c, kind, o, want)
<1> HIDE DEF o, want, kind, params
<1>4. c \in Cells /\ c \notin Held /\ \A k \in Kinds : c \in pool[k] => k = kind
  BY <1>3, FreshIs, PooledIs
<1>5. v.parent = Root /\ v.params = params /\ Root \in Contexts /\ Root \notin Cells /\ c \in Contexts
  BY <1>4, CellsAre DEF Zero
<1>6. heap' = [heap EXCEPT ![c] = v]
  BY <1>2
<1> HIDE DEF v
<1>7. HeapOK(heap') /\ heap'[c] = v /\ \A x \in Cells \ {c} : heap'[x] = heap[x]
  BY <1>4, <1>5, <1>6, Written
<1>8. pool' \in [Kinds -> SUBSET Cells] /\ \A k \in Kinds : pool'[k] \subseteq pool[k] \ {c}
  <2>1. pool \in [Kinds -> SUBSET Cells]
    BY DEF Typed
  <2>2. CASE kind = "none"
    <3>1. pool' = pool /\ kind \notin Kinds
      BY <1>2, <2>2 DEF Kinds
    <3> QED
      BY <1>4, <2>1, <3>1
  <2>3. CASE kind # "none"
    BY <1>2, <1>3, <1>4, <2>1, <2>3
  <2> QED
    BY <2>2, <2>3
<1>9. Begins(g, rt, c, kind, o, want)
  BY <1>1, <1>2, <1>3, <1>4, <1>5, <1>7, <1>8 DEF Begins
<1>10. /\ Recycled' \cap Reach(heap', o) = {} /\ Says(heap', o, want)
       /\ c \notin Reach(heap', o) /\ (o # Root => o \in Reach(heap', o))
  BY <1>1, <1>9, OuterStays DEF o, want
<1>11. (c \in Recycled' => kind # "none") /\ Recycled' \subseteq Cells
  BY <1>1, <1>9, BeginsRecycled
<1>12. /\ f.own = c /\ f.ctx = o /\ f.want = want /\ f.state = "run" /\ f.kind = kind
       /\ f.slice = params
  BY <1>1 DEF NewFrame, params
<1> HIDE DEF f
<1>13. FrameSafe(heap', Recycled', f)
  BY <1>5, <1>7, <1>10, <1>11, <1>12 DEF FrameSafe
<1> QED
  BY <1>1, <1>9, <1>13, BeginsKeeps DEF f

-----------------------------------------------------------------------------
(* A dispatch goes on.                                                     *)

\* A step on the frame n of g leaves the heap sound, the pools as they are, and every
\* other frame safe.
Undisturbed(g, n) ==
    /\ HeapOK(heap') /\ UNCHANGED <<conf, pool, kept>>
    /\ \A k \in Kinds : \A c \in pool[k] : heap'[c] = heap[c]
    /\ \A s \in Requests : \A i \in 1..Len(stack[s]) :
          <<s, i>> # <<g, n>> => FrameSafe(heap', Recycled, stack[s][i])
    /\ \A k \in kept : KeptSafe(heap', Recycled, k)

\* The frame on top of a stack changes, but for its cell.
LEMMA TopKeeps ==
    ASSUME Typed, Owned, NEW g \in Requests, NEW n, n = Len(stack[g]), n # 0, NEW u,
           stack' = [stack EXCEPT ![g][n] = u], FrameOK(conf[n], u, FALSE),
           u.own = stack[g][n].own, u.kind = stack[g][n].kind,
           FrameSafe(heap', Recycled, u), Undisturbed(g, n)
    PROVE  Typed' /\ Owned'
<1> DEFINE s == stack[g]
           S == {s[i] : i \in 1..n} \cup {u}
           t == [s EXCEPT ![n] = u]
<1>1. s \in Seq(S) /\ u \in S /\ n \in Nat /\ n \in 1..n /\ DOMAIN stack = Requests
  <2>1. s \in Seq({s[i] : i \in 1..n}) /\ n \in Nat /\ DOMAIN stack = Requests
    BY DEF Typed, StackOK
  <2>2. {s[i] : i \in 1..n} \subseteq S /\ u \in S
    OBVIOUS
  <2> HIDE DEF S
  <2> QED
    BY <2>1, <2>2, SeqMonotonic
<1> HIDE DEF S
<1>2. t \in Seq(S) /\ Len(t) = n /\ \A i \in 1..n : t[i] = IF i = n THEN u ELSE s[i]
  BY <1>1
<1>3. stack'[g] = t /\ DOMAIN stack' = Requests /\ \A r \in Requests \ {g} : stack'[r] = stack[r]
  BY <1>1
<1>4. StackOK(stack'[g])
  BY <1>2, <1>3, StackIs
<1> HIDE DEF t
<1>5. \A r \in Requests : Len(stack'[r]) = Len(stack[r])
  BY <1>2, <1>3
<1>6. \A r \in Requests : \A i \in 1..Len(stack[r]) :
         stack'[r][i] = IF r = g /\ i = n THEN u ELSE stack[r][i]
  BY <1>2, <1>3
<1>7. \A r \in Requests : \A i \in 1..Len(stack[r]) :
         stack'[r][i].own = stack[r][i].own /\ stack'[r][i].kind = stack[r][i].kind
  BY <1>6
<1>p. UNCHANGED <<conf, pool, kept>>
  BY DEF Undisturbed
<1>8. Recycled' = Recycled
  <2>1. \A c : (\E r \in Requests : \E i \in 1..Len(stack'[r]) :
                    stack'[r][i].kind # "none" /\ stack'[r][i].own = c)
             <=> (\E r \in Requests : \E i \in 1..Len(stack[r]) :
                    stack[r][i].kind # "none" /\ stack[r][i].own = c)
    BY <1>5, <1>7
  <2> QED
    BY <1>p, <2>1 DEF Recycled, Depth
<1>9. Typed'
  <2>1. ASSUME NEW r \in Requests, NEW i \in 1..Len(stack[r])
        PROVE  FrameOK(conf[i], stack'[r][i], i < Len(stack[r]))
    <3>1. ~ (n < n)
      BY <1>1
    <3>2. CASE r = g /\ i = n
      BY <1>6, <3>1, <3>2 DEF FrameOK
    <3>3. CASE ~ (r = g /\ i = n)
      BY <1>6, <3>3 DEF Typed
    <3> QED
      BY <3>2, <3>3
  <2>2. \A r \in Requests : StackOK(stack'[r]) /\ Len(stack'[r]) \in 0..MaxDepth
    BY <1>3, <1>4, <1>5 DEF Typed
  <2> QED
    BY <1>3, <1>5, <2>1, <2>2 DEF Typed, Undisturbed
<1>10. \A r \in Requests : \A i \in 1..Len(stack[r]) : FrameSafe(heap', Recycled, stack'[r][i])
  BY <1>6 DEF Undisturbed
<1>11. /\ \A k \in Kinds : \A c \in pool'[k] : heap'[c] = Zero
       /\ \A k, l \in Kinds : k # l => pool'[k] \cap pool'[l] = {}
  BY DEF Owned, Undisturbed
<1>12. /\ \A q, r \in Requests : \A i \in 1..Len(stack[q]), j \in 1..Len(stack[r]) :
             stack'[q][i].own = stack'[r][j].own /\ <<q, i>> # <<r, j>> => stack'[q][i].own = Root
       /\ \A r \in Requests : \A i \in 1..Len(stack[r]) :
             \A k \in Kinds : stack'[r][i].own \notin pool'[k]
  <2>1. \A q, r \in Requests : \A i \in 1..Len(stack[q]), j \in 1..Len(stack[r]) :
           stack[q][i].own = stack[r][j].own /\ <<q, i>> # <<r, j>> => stack[q][i].own = Root
    BY DEF Owned, Depth
  <2>2. \A r \in Requests : \A i \in 1..Len(stack[r]) : \A k \in Kinds : stack[r][i].own \notin pool[k]
    BY DEF Owned, Depth
  <2>3. \A q, r \in Requests : \A i \in 1..Len(stack[q]), j \in 1..Len(stack[r]) :
           stack'[q][i].own = stack'[r][j].own /\ <<q, i>> # <<r, j>> => stack'[q][i].own = Root
    BY ONLY <1>7, <2>1
  <2> QED
    BY <1>7, <1>p, <2>2, <2>3
<1>13. \A k \in kept' : KeptSafe(heap', Recycled', k)
  BY <1>8 DEF Undisturbed
<1> QED
  <2>1. Owned'
    <3>1. \A r \in Requests : \A i \in 1..Len(stack'[r]) : FrameSafe(heap', Recycled', stack'[r][i])
      BY <1>5, <1>8, <1>10
    <3>2. \A q, r \in Requests : \A i \in 1..Len(stack'[q]), j \in 1..Len(stack'[r]) :
             stack'[q][i].own = stack'[r][j].own /\ <<q, i>> # <<r, j>> => stack'[q][i].own = Root
      BY ONLY <1>5, <1>12
    <3>3. \A r \in Requests : \A i \in 1..Len(stack'[r]) : \A k \in Kinds : stack'[r][i].own \notin pool'[k]
      BY ONLY <1>5, <1>12
    <3> QED
      BY ONLY <1>11, <1>13, <3>1, <3>2, <3>3 DEF Owned, Depth
  <2> QED
    BY <1>9, <2>1

\* A mount puts a context of its own around that of the match.
LEMMA ForwardKeeps ==
    ASSUME Typed, Owned, NEW g \in Requests, MountForward(g) PROVE Typed' /\ Owned'
<1> DEFINE n == Len(stack[g])
           f == stack[g][n]
<1>1. n # 0 /\ f.state = "matched" /\ n \in 1..n
  BY DEF MountForward, Depth, Top, Typed
<1>2. PICK c \in Fresh :
         /\ heap' = [heap EXCEPT ![c] = [Zero EXCEPT !.parent = f.ctx, !.zero = FALSE]]
         /\ stack' = [stack EXCEPT ![g][n] = [f EXCEPT !.ctx = c, !.state = "forwarded"]]
  BY DEF MountForward, SetTop, Top, Depth
<1>3. c \in Cells /\ c \notin Held /\ \A k \in Kinds : c \notin pool[k]
  BY FreshIs
<1>4. FrameOK(conf[n], f, n < n) /\ FrameSafe(heap, Recycled, f)
  BY <1>1 DEF Typed, Owned, Depth
<1>5. /\ DOMAIN f = Fields /\ f.route \in Routes /\ f.route.mount /\ f.kind = "none"
      /\ f.ctx \in Contexts /\ f.own \in Contexts /\ ~ f.route.fast
  BY <1>1, <1>4, RoutesAssumption DEF FrameOK, RoutesAssumption
<1> DEFINE u == [f EXCEPT !.ctx = c, !.state = "forwarded"]
           v == [Zero EXCEPT !.parent = f.ctx, !.zero = FALSE]
           outer == f.ctx
<1>6. /\ u.route = f.route /\ u.own = f.own /\ u.kind = f.kind /\ u.ctx = c /\ u.want = f.want
      /\ u.slice = f.slice /\ u.state = "forwarded" /\ DOMAIN u = Fields
  BY <1>5 DEF Fields
<1>7. v.parent = outer /\ v.pattern = "" /\ ~ v.zero
  BY DEF Zero
<1>8. stack' = [stack EXCEPT ![g][n] = u] /\ heap' = [heap EXCEPT ![c] = v]
      /\ UNCHANGED <<conf, pool, kept>>
  BY <1>2 DEF MountForward
<1>9. outer # Root /\ outer = f.own /\ Direct(heap, outer, f.want)
  BY <1>1, <1>4 DEF FrameSafe, Direct
<1>10. Recycled \cap Reach(heap, outer) = {}
  BY <1>4, <1>5 DEF FrameSafe
<1>11. /\ Reach(heap, outer) \subseteq Held /\ outer \in Reach(heap, outer)
       /\ Reach(heap, outer) \subseteq Cells
  BY <1>1, <1>5, <1>9, HeldIs, ReachIs DEF Depth, Typed
<1>12. FrameOK(conf[n], u, FALSE)
  BY <1>3, <1>5, <1>6 DEF FrameOK, States, Contexts
<1> HIDE DEF f, u, v
<1>13. HeapOK(heap') /\ heap'[c] = v /\ \A x \in Cells \ {c} : heap'[x] = heap[x]
  BY <1>3, <1>5, <1>7, <1>8, Written
<1>14. c \notin Recycled /\ c # Root
  <2>1. \A s \in Requests : \A i \in 1..Depth(s) : stack[s][i].own # c
    BY <1>3, HeldIs, CellsAre
  <2> QED
    BY <1>3, <2>1, CellsAre DEF Recycled
<1>15. Reach(heap', outer) = Reach(heap, outer)
  <2>1. \A x \in Reach(heap, outer) : heap'[x] = heap[x]
    BY <1>3, <1>11, <1>13
  <2> QED
    BY <1>5, <1>13, <2>1, AskedSame DEF Typed
<1>16. c \in Contexts /\ heap'[c].parent = outer
  BY <1>3, <1>7, <1>13 DEF Contexts
<1>17. Reach(heap', c) \subseteq {c} \cup Reach(heap', outer)
  BY <1>13, <1>14, <1>16, ReachIs
<1>18. Direct(heap', outer, f.want)
  BY <1>3, <1>9, <1>11, <1>13 DEF Direct
<1>19. Says(heap', c, f.want)
  BY <1>7, <1>13, <1>14, <1>16, <1>18 DEF Says
<1>20. FrameSafe(heap', Recycled, u)
  BY <1>4, <1>5, <1>6, <1>10, <1>14, <1>15, <1>17, <1>19 DEF FrameSafe
<1>21. /\ \A s \in Requests : \A i \in 1..Depth(s) : FrameSafe(heap', Recycled, stack[s][i])
       /\ \A k \in kept : KeptSafe(heap', Recycled, k)
  <2>1. \A x \in Held : heap'[x] = heap[x]
    BY <1>3, <1>13, HeldCells
  <2> QED
    BY <1>13, <2>1, HeldSafe, CellsAre
<1>22. \A k \in Kinds : \A x \in pool[k] : heap'[x] = heap[x]
  BY <1>3, <1>13 DEF Typed
<1>23. u.own = stack[g][n].own /\ u.kind = stack[g][n].kind
  BY <1>6 DEF f
<1>24. Undisturbed(g, n)
  BY <1>8, <1>13, <1>21, <1>22 DEF Undisturbed, Depth
<1> QED
  BY <1>1, <1>8, <1>12, <1>20, <1>23, <1>24, TopKeeps DEF Depth

\* A cell that will be put back is cleared: nobody else reaches it.
LEMMA ClearKeeps ==
    ASSUME Typed, Owned, NEW g \in Requests, Clear(g) PROVE Typed' /\ Owned'
<1> DEFINE n == Len(stack[g])
           f == stack[g][n]
           c == f.own
           u == [f EXCEPT !.state = "cleared"]
<1>1. n # 0 /\ f.state \in {"run", "forwarded"} /\ f.kind # "none" /\ n \in 1..n
  BY DEF Clear, Returning, Depth, Top, Typed
<1>2. /\ heap' = [heap EXCEPT ![c] = Zero] /\ stack' = [stack EXCEPT ![g][n] = u]
      /\ UNCHANGED <<conf, pool, kept>>
  BY DEF Clear, SetTop, Top, Depth
<1>3. FrameOK(conf[n], f, n < n) /\ FrameSafe(heap, Recycled, f)
  BY <1>1 DEF Typed, Owned, Depth
<1>4. /\ c # Root /\ c \in Cells /\ DOMAIN f = Fields /\ f.ctx \in Contexts
  BY <1>1, <1>3 DEF FrameOK, Contexts
<1>5. c \in Recycled
  BY <1>1, <1>4 DEF Recycled, Depth
<1>6. /\ u.route = f.route /\ u.own = f.own /\ u.kind = f.kind /\ u.ctx = f.ctx /\ u.want = f.want
      /\ u.slice = f.slice /\ u.state = "cleared" /\ DOMAIN u = Fields
  BY <1>4 DEF Fields
<1>7. FrameOK(conf[n], u, FALSE)
  BY <1>1, <1>3, <1>6 DEF FrameOK, States
<1>8. \A k \in Kinds : c \notin pool[k]
  BY <1>1 DEF Owned, Depth
<1>9. \A s \in Requests : \A i \in 1..Len(stack[s]) : <<s, i>> # <<g, n>> => stack[s][i].own # c
  BY <1>1, <1>4 DEF Owned, Depth
<1>10. u.own = stack[g][n].own /\ u.kind = stack[g][n].kind
  BY <1>6
<1> HIDE DEF u, f, c
<1>11. Zero.parent = Root /\ Root \in Contexts /\ HeapOK(heap)
  BY CellsAre DEF Zero, Typed
<1>12. HeapOK(heap') /\ heap'[c] = Zero /\ \A x \in Cells \ {c} : heap'[x] = heap[x]
  BY <1>2, <1>4, <1>11, Written
<1>13. ASSUME NEW s \in Requests, NEW i \in 1..Len(stack[s]), <<s, i>> # <<g, n>>
       PROVE  FrameSafe(heap', Recycled, stack[s][i])
  <2> DEFINE e == stack[s][i]
  <2>1. /\ e.own # c /\ e.ctx \in Contexts /\ e.own \in Contexts
        /\ e.state = "cleared" => e.own # Root
    BY <1>9, <1>13 DEF Typed, FrameOK
  <2>2. FrameSafe(heap, Recycled, e)
    BY <1>13 DEF Owned, Depth
  <2> HIDE DEF e
  <2>3. c \notin Reach(heap, e.ctx) /\ Reach(heap, e.ctx) \subseteq Cells
    BY <1>5, <1>11, <2>1, <2>2, ReachIs DEF FrameSafe
  <2>4. \A x \in Reach(heap, e.ctx) \cup {e.own} : x # Root => heap'[x] = heap[x]
    BY <1>12, <2>1, <2>3, CellsAre
  <2>5. FrameSafe(heap', Recycled, e)
    BY <1>11, <1>12, <2>1, <2>2, <2>4, FrameSame, CellsAre
  <2> QED
    BY <2>5 DEF e
<1>14. ASSUME NEW k \in kept PROVE KeptSafe(heap', Recycled, k)
  <2>1. k.ctx \in Contexts /\ k.slice \in Contexts /\ KeptSafe(heap, Recycled, k)
    BY <1>14 DEF Typed, KeptOK, Owned
  <2>2. c \notin Reach(heap, k.ctx) /\ k.slice # c /\ Reach(heap, k.ctx) \subseteq Cells
    BY <1>5, <1>11, <2>1, ReachIs DEF KeptSafe
  <2>3. \A x \in Reach(heap, k.ctx) \cup {k.slice} : x # Root => heap'[x] = heap[x]
    BY <1>12, <2>1, <2>2, CellsAre
  <2> QED
    BY <1>11, <1>12, <2>1, <2>3, KeptSame, CellsAre
<1>15. Recycled \cap (Reach(heap', f.ctx) \ {f.ctx}) = {}
  <2>1. CASE f.ctx = c
    <3>1. Reach(heap', c) \subseteq {c} \cup Reach(heap', heap'[c].parent)
      BY <1>4, <1>12, <2>1, ReachIs
    <3>2. Reach(heap', Root) = {}
      BY <1>11, <1>12, ReachIs
    <3> QED
      BY <1>11, <1>12, <2>1, <3>1, <3>2
  <2>2. CASE f.ctx # c
    <3>1. c \notin Reach(heap, f.ctx) /\ Reach(heap, f.ctx) \subseteq Cells
      BY <1>3, <1>4, <1>5, <1>11, <2>2, ReachIs DEF FrameSafe
    <3>2. \A x \in Reach(heap, f.ctx) : heap'[x] = heap[x]
      BY <1>12, <3>1
    <3>3. Reach(heap', f.ctx) = Reach(heap, f.ctx)
      BY <1>4, <1>11, <1>12, <3>2, AskedSame
    <3> QED
      BY <1>3, <3>3 DEF FrameSafe
  <2> QED
    BY <2>1, <2>2
<1>16. u.own = c
  BY <1>6 DEF c
<1>17. FrameSafe(heap', Recycled, u)
  BY <1>3, <1>6, <1>12, <1>15, <1>16 DEF FrameSafe
<1>18. \A k \in Kinds : \A x \in pool[k] : heap'[x] = heap[x]
  BY <1>8, <1>12 DEF Typed
<1>19. /\ \A s \in Requests : \A i \in 1..Len(stack[s]) :
             <<s, i>> # <<g, n>> => FrameSafe(heap', Recycled, stack[s][i])
       /\ \A k \in kept : KeptSafe(heap', Recycled, k)
  BY <1>13, <1>14
<1>20. stack' = [stack EXCEPT ![g][n] = u] /\ UNCHANGED <<conf, pool, kept>> /\ HeapOK(heap')
  BY <1>2, <1>12
<1>21. Undisturbed(g, n)
  BY <1>18, <1>19, <1>20 DEF Undisturbed
<1> QED
  BY <1>1, <1>7, <1>10, <1>17, <1>20, <1>21, TopKeeps

-----------------------------------------------------------------------------
(* A dispatch ends.                                                        *)

\* Dispatches end, and the cell of the one on top goes back to its pool or to nobody.
LEMMA UnwindKeeps ==
    ASSUME Typed, Owned, NEW g \in Requests, NEW d, d \in 0..(Len(stack[g]) - 1),
           stack' = [stack EXCEPT ![g] = SubSeq(@, 1, d)], UNCHANGED <<conf, heap, kept>>,
           \/ pool' = pool
           \/ /\ stack[g][Len(stack[g])].state = "cleared"
              /\ pool' = [pool EXCEPT ![stack[g][Len(stack[g])].kind] =
                             @ \cup {stack[g][Len(stack[g])].own}]
    PROVE  Typed' /\ Owned'
<1> DEFINE s == stack[g]
           n == Len(s)
           t == SubSeq(s, 1, d)
           S == {s[i] : i \in 1..n}
           f == s[n]
<1>1. s \in Seq(S) /\ n \in 0..MaxDepth /\ n \in Nat /\ DOMAIN stack = Requests
  BY DEF Typed, StackOK
<1>2. d \in Nat /\ d < n /\ d \in 0..MaxDepth /\ n \in 1..n /\ d - 1 + 1 = d
  <2>1. MaxDepth \in Nat
    BY RoutesAssumption DEF RoutesAssumption
  <2> HIDE DEF n
  <2>2. n \in 0..MaxDepth /\ n \in Nat
    BY <1>1
  <2>3. d \in 0..(n - 1)
    BY DEF n
  <2> QED
    BY ONLY <2>1, <2>2, <2>3
<1>3. t \in Seq(S) /\ Len(t) = d /\ \A i \in 1..d : t[i] = s[i]
  <2>1. \A i \in 1..d : s[i] \in S
    BY <1>2
  <2> HIDE DEF S
  <2> QED
    BY <1>2, <2>1, SubSeqProperties
<1>4. stack'[g] = t /\ DOMAIN stack' = Requests /\ \A r \in Requests \ {g} : stack'[r] = stack[r]
  BY <1>1
<1>5. StackOK(stack'[g])
  BY <1>3, <1>4, StackIs
<1>6. Len(stack'[g]) = d /\ \A i \in 1..d : stack'[g][i] = s[i] /\ i \in 1..n /\ i # n /\ i < n
  BY <1>2, <1>3, <1>4
<1> HIDE DEF t, S
<1>7. \A r \in Requests : \A i \in 1..Len(stack'[r]) :
         /\ i \in 1..Len(stack[r]) /\ stack'[r][i] = stack[r][i] /\ <<r, i>> # <<g, n>>
  BY <1>4, <1>6
<1>8. FrameOK(conf[n], f, n < n) /\ FrameSafe(heap, Recycled, f)
  BY <1>2 DEF Typed, Owned, Depth
<1> DEFINE k == f.kind
           c == f.own
<1>9. /\ pool' \in [Kinds -> SUBSET Cells] /\ \A l \in Kinds : \A x \in pool'[l] : heap[x] = Zero
      /\ \A l, m \in Kinds : l # m => pool'[l] \cap pool'[m] = {}
      /\ \A l \in Kinds : \A x \in pool'[l] : x \in Recycled
      /\ \A r \in Requests : \A i \in 1..Len(stack[r]) :
            <<r, i>> # <<g, n>> => \A l \in Kinds : stack[r][i].own \notin pool'[l]
  <2>1. pool \in [Kinds -> SUBSET Cells] /\ \A l \in Kinds : \A x \in pool[l] : x \in Recycled
    BY DEF Typed, Recycled
  <2>2. CASE pool' = pool
    BY <2>1, <2>2 DEF Owned, Depth
  <2>3. CASE f.state = "cleared" /\ pool' = [pool EXCEPT ![k] = @ \cup {c}]
    <3>1. k \in Kinds /\ c \in Cells /\ c # Root /\ heap[c] = Zero /\ k # "none"
      BY <1>8, <2>3 DEF FrameOK, FrameSafe, Contexts
    <3>2. c \in Recycled
      BY <1>2, <3>1 DEF Recycled, Depth
    <3>3. \A l \in Kinds : c \notin pool[l]
      BY <1>2 DEF Owned, Depth
    <3>4. \A r \in Requests : \A i \in 1..Len(stack[r]) : <<r, i>> # <<g, n>> => stack[r][i].own # c
      BY <1>2, <3>1 DEF Owned, Depth
    <3> HIDE DEF k, c, f, n
    <3>5. \A l \in Kinds : pool'[l] = IF l = k THEN pool[l] \cup {c} ELSE pool[l]
      BY <2>1, <2>3, <3>1
    <3>6. pool' \in [Kinds -> SUBSET Cells]
      BY <2>1, <2>3, <3>1
    <3>7. \A l \in Kinds : \A x \in pool[l] : heap[x] = Zero
      BY DEF Owned
    <3>8. \A l, m \in Kinds : l # m => pool[l] \cap pool[m] = {}
      BY DEF Owned
    <3>9. \A r \in Requests : \A i \in 1..Len(stack[r]) : \A l \in Kinds : stack[r][i].own \notin pool[l]
      BY DEF Owned, Depth
    <3>10. \A l, m \in Kinds : l # m => pool'[l] \cap pool'[m] = {}
      BY ONLY <3>3, <3>5, <3>8
    <3> QED
      BY <2>1, <3>1, <3>2, <3>4, <3>5, <3>6, <3>7, <3>9, <3>10
  <2> QED
    BY <2>2, <2>3
<1> HIDE DEF f, k, c, n
<1>10. Recycled' \subseteq Recycled
  <2> SUFFICES ASSUME NEW x \in Recycled' PROVE x \in Recycled
    OBVIOUS
  <2>1. x \in Cells
    BY DEF Recycled
  <2>2. CASE \E l \in Kinds : x \in pool'[l]
    BY <1>9, <2>2
  <2>3. CASE \E r \in Requests : \E i \in 1..Len(stack'[r]) :
                stack'[r][i].kind # "none" /\ stack'[r][i].own = x
    <3>1. PICK r \in Requests : \E i \in 1..Len(stack'[r]) :
                                  stack'[r][i].kind # "none" /\ stack'[r][i].own = x
      BY <2>3
    <3>2. PICK i \in 1..Len(stack'[r]) : stack'[r][i].kind # "none" /\ stack'[r][i].own = x
      BY <3>1
    <3> QED
      BY <1>7, <2>1, <3>2 DEF Recycled, Depth
  <2> QED
    BY <2>2, <2>3 DEF Recycled, Depth
<1>11. Typed'
  <2>1. ASSUME NEW r \in Requests, NEW i \in 1..Len(stack'[r])
        PROVE  FrameOK(conf[i], stack'[r][i], i < Len(stack'[r]))
    <3>1. CASE r # g
      BY <1>4, <3>1 DEF Typed
    <3>2. CASE r = g
      <4>1. FrameOK(conf[i], s[i], i < Len(s))
        BY <1>7, <3>2 DEF Typed
      <4>2. i \in 1..d /\ i < Len(s) /\ stack'[r][i] = s[i]
        BY <1>6, <3>2 DEF n
      <4> QED
        BY <4>1, <4>2 DEF FrameOK
    <3> QED
      BY <3>1, <3>2
  <2>2. \A r \in Requests : StackOK(stack'[r]) /\ Len(stack'[r]) \in 0..MaxDepth
    BY <1>2, <1>4, <1>5, <1>6 DEF Typed
  <2> QED
    BY <1>4, <1>9, <2>1, <2>2 DEF Typed
<1>12. \A r \in Requests : \A i \in 1..Len(stack'[r]) : FrameSafe(heap, Recycled', stack'[r][i])
  <2>1. \A r \in Requests : \A i \in 1..Len(stack'[r]) : FrameSafe(heap, Recycled, stack'[r][i])
    BY <1>7 DEF Owned, Depth
  <2>2. Recycled' \subseteq Recycled
    BY <1>10
  <2> QED
    BY ONLY <2>1, <2>2, FewerRecycled
<1>13. \A j \in kept : KeptSafe(heap, Recycled', j)
  BY <1>10 DEF Owned, KeptSafe
<1>14. \A q, r \in Requests : \A i \in 1..Len(stack'[q]), j \in 1..Len(stack'[r]) :
          stack'[q][i].own = stack'[r][j].own /\ <<q, i>> # <<r, j>> => stack'[q][i].own = Root
  BY <1>7 DEF Owned, Depth
<1>15. \A r \in Requests : \A i \in 1..Len(stack'[r]) : \A l \in Kinds : stack'[r][i].own \notin pool'[l]
  BY <1>7, <1>9
<1> QED
  BY <1>9, <1>11, <1>12, <1>13, <1>14, <1>15 DEF Owned, Depth

\* Return, Panic and Put end dispatches.
LEMMA EndKeeps ==
    ASSUME Typed, Owned, NEW g \in Requests, Return(g) \/ Panic(g) \/ Put(g) PROVE Typed' /\ Owned'
<1>1. Len(stack[g]) \in Nat /\ Len(stack[g]) > 0
  BY DEF Return, Panic, Put, Returning, Depth, Typed
<1>2. Len(stack[g]) - 1 \in 0..(Len(stack[g]) - 1)
  BY <1>1
<1>3. CASE Return(g)
  <2>1. stack' = [stack EXCEPT ![g] = SubSeq(@, 1, Len(stack[g]) - 1)] /\ UNCHANGED <<conf, heap, kept, pool>>
    BY <1>3 DEF Return, Unwind, Depth
  <2> QED
    BY <1>2, <2>1, UnwindKeeps
<1>4. CASE Panic(g)
  <2>1. PICK d \in 0..(Len(stack[g]) - 1) : stack' = [stack EXCEPT ![g] = SubSeq(@, 1, d)]
    BY <1>4 DEF Panic, Unwind, Depth
  <2>2. UNCHANGED <<conf, heap, kept, pool>>
    BY <1>4 DEF Panic
  <2> QED
    BY <2>1, <2>2, UnwindKeeps
<1>5. CASE Put(g)
  <2>1. /\ stack' = [stack EXCEPT ![g] = SubSeq(@, 1, Len(stack[g]) - 1)] /\ UNCHANGED <<conf, heap, kept>>
        /\ stack[g][Len(stack[g])].state = "cleared"
        /\ pool' = [pool EXCEPT ![stack[g][Len(stack[g])].kind] =
                       @ \cup {stack[g][Len(stack[g])].own}]
    BY <1>5 DEF Put, Unwind, Depth, Top
  <2> QED
    BY <1>2, <2>1, UnwindKeeps
<1> QED
  BY <1>3, <1>4, <1>5

\* A goroutine keeps only what will not be recycled.
LEMMA KeepKeeps ==
    ASSUME Typed, Owned, NEW g \in Requests, Keep(g) PROVE Typed' /\ Owned'
<1> DEFINE n == Len(stack[g])
           f == stack[g][n]
           k == [ctx |-> f.ctx, want |-> f.want, values |-> f.slice,
                 slice |-> IF f.route.fast THEN f.own ELSE Root]
<1>1. /\ n \in 1..n /\ f.state \in {"run", "forwarded"} /\ ~ f.route.mount
      /\ IF f.route.fast THEN ~ conf[n].poolFastParams ELSE ~ conf[n].poolRequestBundle
      /\ kept' = kept \cup {k} /\ UNCHANGED <<conf, heap, pool, stack>>
  BY DEF Keep, Returning, Depth, Top, Typed
<1>2. FrameOK(conf[n], f, n < n) /\ FrameSafe(heap, Recycled, f)
  BY <1>1 DEF Typed, Owned, Depth
<1>3. f.kind = "none" /\ f.ctx \in Contexts /\ f.own \in Contexts /\ Root \in Contexts
  BY <1>1, <1>2, CellsAre DEF FrameOK
<1> HIDE DEF f
<1>4. /\ DOMAIN k = {"ctx", "want", "values", "slice"} /\ k.ctx = f.ctx /\ k.want = f.want
      /\ k.values = f.slice /\ k.slice = IF f.route.fast THEN f.own ELSE Root
  OBVIOUS
<1> HIDE DEF k
<1>5. KeptOK(k)
  BY <1>3, <1>4 DEF KeptOK
<1>6. KeptSafe(heap, Recycled, k)
  BY <1>1, <1>2, <1>3, <1>4, CellsAre DEF FrameSafe, KeptSafe
<1>7. Recycled' = Recycled /\ Len(stack') = Len(stack)
  BY <1>1 DEF Recycled, Depth
<1>8. Typed'
  BY <1>1, <1>5 DEF Typed
<1> QED
  BY <1>1, <1>6, <1>7, <1>8 DEF Owned, Depth

\* Goroutines end, and a collection empties the pools.
LEMMA RestKeeps == Typed /\ Owned /\ (Forget \/ Collect \/ UNCHANGED vars) => Typed' /\ Owned'
<1> SUFFICES ASSUME Typed, Owned, Forget \/ Collect \/ UNCHANGED vars PROVE Typed' /\ Owned'
  OBVIOUS
<1>1. /\ UNCHANGED <<conf, heap, stack>> /\ kept' \subseteq kept
      /\ pool' \in [Kinds -> SUBSET Cells] /\ \A k \in Kinds : pool'[k] \subseteq pool[k]
  BY DEF Forget, Collect, vars, Typed
<1>2. Recycled' \subseteq Recycled
  BY <1>1 DEF Recycled, Depth
<1>3. Typed'
  BY <1>1 DEF Typed
<1>4. /\ \A g \in Requests : \A i \in 1..Len(stack[g]) : FrameSafe(heap, Recycled', stack[g][i])
      /\ \A k \in kept' : KeptSafe(heap, Recycled', k)
  BY <1>1, <1>2 DEF Owned, FrameSafe, KeptSafe, Depth
<1>5. /\ \A k \in Kinds : \A c \in pool'[k] : heap[c] = Zero
      /\ \A k, l \in Kinds : k # l => pool'[k] \cap pool'[l] = {}
      /\ \A g \in Requests : \A i \in 1..Len(stack[g]) : \A k \in Kinds : stack[g][i].own \notin pool'[k]
  BY <1>1 DEF Owned, Depth
<1> QED
  BY <1>1, <1>3, <1>4, <1>5 DEF Owned, Depth

\* Every step keeps what is recycled apart from what is reached.
LEMMA OwnedStep == Typed /\ Owned /\ [Next]_vars => Typed' /\ Owned'
<1> SUFFICES ASSUME Typed, Owned, [Next]_vars PROVE Typed' /\ Owned'
  OBVIOUS
<1>1. ASSUME NEW g \in Requests, NEW rt \in Routes, Dispatch(g, rt) PROVE Typed' /\ Owned'
  BY <1>1, StaticKeeps, BundleKeeps, FastKeeps DEF Dispatch
<1>2. ASSUME NEW g \in Requests, \/ MountForward(g) \/ Return(g) \/ Clear(g)
                                \/ Put(g) \/ Panic(g) \/ Keep(g)
      PROVE  Typed' /\ Owned'
  BY <1>2, ForwardKeeps, ClearKeeps, EndKeeps, KeepKeeps
<1>3. CASE Forget \/ Collect \/ UNCHANGED vars
  BY <1>3, RestKeeps
<1> QED
  BY <1>1, <1>2, <1>3 DEF Next

\* At first nothing is recycled, and nothing reached.
LEMMA OwnedInit == Init => Typed /\ Owned
<1> SUFFICES ASSUME Init PROVE Typed /\ Owned
  OBVIOUS
<1>1. HeapOK(heap)
  BY CellsAre DEF Init, HeapOK, Zero
<1>2. \A g \in Requests : stack[g] = <<>> /\ Len(stack[g]) = 0
  BY DEF Init
<1>3. MaxDepth \in Nat
  BY RoutesAssumption DEF RoutesAssumption
<1>4. StackOK(<<>>)
  BY EmptySeq DEF StackOK
<1>5. Typed
  BY <1>1, <1>2, <1>3, <1>4 DEF Init, Typed
<1> QED
  BY <1>2, <1>5 DEF Init, Owned, Depth

\* A bundle or slice that was put back into its pool is cleared, in one pool only, and out
\* of reach of every dispatch under way and of every goroutine that may keep its request,
\* and no two dispatches have one (dispatchPooled, putFastParams and the lifetime contract
\* of the Mux): for any number of requests and routes, any depth of mounts, and through
\* panics.
THEOREM BundlesAreApart == Spec => []NoSharing
<1>1. Spec => [](Typed /\ Owned)
  BY OwnedInit, OwnedStep, PTL DEF Spec
<1>2. Typed /\ Owned => NoSharing
  <2> SUFFICES ASSUME Typed, Owned PROVE NoSharing
    OBVIOUS
  <2>1. \A k \in Kinds : pool[k] \cap Held = {}
    BY PooledIs
  <2> QED
    BY <2>1 DEF Owned, NoSharing
<1> QED
  BY <1>1, <1>2, PTL

\* PathParam, ParamsFromContext and RoutePattern give every handler, and every goroutine
\* that may keep its request, the parameters of the nearest match of that request, and a
\* FastHandler its own slice, whatever is recycled meanwhile.
THEOREM HandlersReadTheirOwn == Spec => []OwnParams
<1>1. Spec => [](Typed /\ Owned)
  BY OwnedInit, OwnedStep, PTL DEF Spec
<1>2. Typed /\ Owned => OwnParams
  <2> SUFFICES ASSUME Typed, Owned PROVE OwnParams
    OBVIOUS
  <2>1. ASSUME NEW g \in Requests, NEW f \in Frames(g), Running(f)
        PROVE  RouteCtx(f.ctx) = f.want /\ (f.route.fast /\ f.own # Root => heap[f.own].params = f.slice)
    <3>1. PICK i \in 1..Len(stack[g]) : f = stack[g][i]
      BY <2>1 DEF Frames
    <3>2. f.ctx \in Contexts /\ FrameSafe(heap, Recycled, f) /\ f.state # "cleared"
      BY <2>1, <3>1 DEF Typed, FrameOK, Owned, Depth, Running
    <3>3. Says(heap, f.ctx, f.want)
      BY <3>2 DEF FrameSafe
    <3> QED
      BY <3>2, <3>3, SaysIs DEF FrameSafe, Typed
  <2>2. ASSUME NEW k \in kept
        PROVE  RouteCtx(k.ctx) = k.want /\ (k.slice # Root => heap[k.slice].params = k.values)
    BY <2>2, SaysIs DEF Typed, KeptOK, Owned, KeptSafe
  <2> QED
    BY <2>1, <2>2 DEF OwnParams
<1> QED
  BY <1>1, <1>2, PTL

-----------------------------------------------------------------------------
(* Writers: what a layer shows the one inside it, that is, the response as  *)
(* its calls have made it.                                                  *)

Bytes    == [n: Nat, gz: Nat]
Views    == [status: Nat, body: Seq(Bytes)]
Wrappers == [status: Nat, wroteHeader: BOOLEAN, started: BOOLEAN,
             decided: BOOLEAN, skip: BOOLEAN, buf: Seq(Bytes)]
Layers   == [kind: LayerKinds \cup {"aside"}, w: Wrappers]
Encodings == {"", "gzip"}
Responses == [status: Nat, body: Seq(Bytes), encoding: Encodings, sent: Encodings]
Asks     == {c \in [code: Nat, write: BOOLEAN, bs: Seq(Bytes), flush: BOOLEAN] :
               ~ c.write => c.bs = <<>>}
Answers  == [w: Wrappers, encoding: Encodings, c: Asks]

\* What one sees of a response, at first and after it is asked c.
Seen(R) == [status |-> R.status, body |-> R.body]
Unsent  == [status |-> 0, body |-> <<>>]
Then(v, c) == [status |-> IF v.status # 0 THEN v.status
                          ELSE IF Final(c.code) THEN c.code
                          ELSE IF c.write \/ c.flush THEN 200 ELSE 0,
               body |-> v.body \o c.bs]

\* A gzipResponseWriter that has not decided shows what it holds, nothing having been sent,
\* and after that the bytes it was given of what it sends.
HoldsBack(w, v, u) ==
    /\ u = Unsent /\ v = [status |-> w.status, body |-> w.buf]
    /\ ~ w.skip /\ Len(w.buf) <= sniffBufSize
    /\ w.wroteHeader <=> w.status # 0
    /\ w.status # 0 => Final(w.status)
PassesOn(w, v, u) == /\ u.status # 0 /\ v.status = u.status
                     /\ u.body = Encoded(w, v.body)

\* The layer l shows v when the one outside it shows u.
Shows(l, v, u) ==
    /\ l.kind # "compress" => v = u
    /\ l.kind = "recoverer" => (l.w.started <=> v.status # 0)
    /\ l.kind = "compress" /\ ~ l.w.decided => HoldsBack(l.w, v, u)
    /\ l.kind = "compress" /\ l.w.decided => PassesOn(l.w, v, u)

\* The layers L around R show V, from the outside in.
Stacked(L, R, V) ==
    /\ L \in Seq(Layers) /\ R \in Responses
    /\ V \in [0..Len(L) -> Views] /\ V[0] = Seen(R)
    /\ \A i \in 1..Len(L) : Shows(L[i], V[i], V[i - 1])

\* The layers that compress; left says that one that did is gone.
Zips(L) == {i \in 1..Len(L) : L[i].kind = "compress" /\ L[i].w.decided /\ ~ L[i].w.skip}
Labelled(L, R, left) ==
    /\ R.encoding = "gzip" <=> left \/ Zips(L) # {}
    /\ left => Zips(L) = {}
    /\ \A i, j \in Zips(L) : i = j
    /\ R.status # 0 => R.sent = R.encoding

\* A statusRecorder below which v shows has recorded that, or what a write sends.
Records(l, v) ==
    l.kind = "logger" =>
        IF l.w.wroteHeader THEN v.status # 0 /\ l.w.status = v.status
        ELSE v.status \in {0, 200} /\ l.w.status = 200
Recorded(L, V) == \A i \in 1..Len(L) : Records(L[i], V[i])

\* No Compress is inside layer i of L.
Uncompressed(L, i) == \A j \in (i + 1)..Len(L) : L[j].kind # "compress"

\* Every statusRecorder the handler's status reached has recorded one.
Explicit(L) == \A i \in 1..Len(L) : L[i].kind = "logger" /\ Uncompressed(L, i) => L[i].w.wroteHeader

-----------------------------------------------------------------------------
(* The invariant.                                                           *)

PlainBytes == [n: Nat \ {0}, gz: {0}]

WTyped ==
    /\ chain \in Chains
    /\ layers \in Seq(Layers) /\ resp \in Responses /\ bare \in Responses
    /\ bare.body \in Seq(PlainBytes) /\ (bare.status = 0 => bare.body = <<>>)
    /\ phase \in {"idle", "run", "return", "panic", "done"}
    /\ calls \in Nat /\ written \in Nat /\ status \in {"unset", "explicit", "late"}
    /\ status = "late" => bare.status # 0
    /\ panicked \in BOOLEAN /\ logged \in Seq(Nat) /\ served \in Nat
    /\ pools \in [LayerKinds -> SUBSET Wrappers] /\ pools["compress"] \subseteq {Blank}

\* The layers that are left are those of the chain.
Fits == /\ Len(layers) <= Len(chain)
        /\ \A i \in 1..Len(layers) :
              \/ layers[i].kind = chain[i]
              \/ layers[i].kind = "aside" /\ chain[i] = "compress"

\* While the handler runs it is shown what it would have without layers.
Serving(V) ==
    /\ ~ panicked /\ logged = <<>> /\ Len(layers) = Len(chain)
    /\ Stacked(layers, resp, V) /\ V[Len(layers)] = Seen(bare)
    /\ Labelled(layers, resp, FALSE)
    /\ status # "late" => Recorded(layers, V)
    /\ status = "explicit" => Explicit(layers)

\* No layer of the chain from i on is a k.
Without(k, i) == \A j \in i..Len(chain) : chain[j] # k

\* What the client should get, and when that is known.
Wanted == IF panicked /\ bare.status = 0 /\ phase # "panic"
          THEN [status |-> 500, body |-> <<ErrText>>] ELSE Seen(bare)
Known == \/ ~ panicked \/ bare.status # 0
         \/ phase = "panic" /\ Without("compress", Len(layers) + 1)
         \/ phase = "return" /\ \E i \in 1..Len(chain) :
                                   chain[i] = "recoverer" /\ Without("compress", i)

\* v carries what the client should get; left says that it was compressed.
Carries(v, left) ==
    /\ v.body = IF left THEN Append(Gz(Wanted.body), GzipEnd) ELSE Wanted.body
    /\ v.status = Wanted.status \/ (phase = "return" /\ Wanted.status = 0 /\ v.status = 200)

\* What was logged is the status in v, or the one that net/http will send.
Logged(v) == \A k \in 1..Len(logged) : logged[k] = IF v.status = 0 THEN 200 ELSE v.status

Unwinding(V, left) ==
    /\ phase = "panic" => panicked /\ logged = <<>> /\ Without("recoverer", Len(layers) + 1)
    /\ Stacked(layers, resp, V) /\ Labelled(layers, resp, left)
    /\ left => ~ Without("compress", Len(layers) + 1)
    /\ Known => Carries(V[Len(layers)], left)
    /\ status # "late" => Recorded(layers, V) /\ Logged(V[Len(layers)])

Answered == Transparent /\ PanicAnswered /\ LoggedIsSent

-----------------------------------------------------------------------------
(* Bytes and records.                                                       *)

LEMMA WSizes == /\ minCompressSize \in Nat /\ sniffBufSize \in Nat
                /\ minCompressSize <= sniffBufSize
                /\ Chains \subseteq Seq(LayerKinds) /\ Codes \subseteq 100..999
                /\ ChunkSizes \subseteq Nat /\ MaxCalls \in Nat /\ MaxServed \in Nat
  BY SizesAssumption DEF SizesAssumption

\* Compressing keeps the number of bytes.
LEMMA GzType ==
    ASSUME NEW b \in Seq(Bytes)
    PROVE  /\ Gz(b) \in Seq(Bytes) /\ Len(Gz(b)) = Len(b)
           /\ \A k \in 1..Len(b) : Gz(b)[k] = [n |-> b[k].n, gz |-> b[k].gz + 1]
<1>1. ASSUME NEW k \in 1..Len(b)
      PROVE  /\ [b[k] EXCEPT !.gz = @ + 1] \in Bytes
             /\ [b[k] EXCEPT !.gz = @ + 1] = [n |-> b[k].n, gz |-> b[k].gz + 1]
  <2>1. b[k] \in Bytes
    BY ElementOfSeq
  <2> QED
    BY <2>1 DEF Bytes
<1>2. Len(b) \in Nat
  BY LenProperties
<1>3. Gz(b) \in [1..Len(b) -> Bytes]
  BY <1>1 DEF Gz
<1>4. Gz(b) \in Seq(Bytes) /\ Len(Gz(b)) = Len(b)
  BY <1>2, <1>3, SeqDef, LenProperties
<1> QED
  BY <1>1, <1>4 DEF Gz

\* It goes through the bytes one by one.
LEMMA GzConcat ==
    ASSUME NEW a \in Seq(Bytes), NEW b \in Seq(Bytes)
    PROVE  Gz(a \o b) = Gz(a) \o Gz(b)
<1> DEFINE ab == a \o b
           lhs == Gz(ab)
           rhs == Gz(a) \o Gz(b)
<1>1. /\ ab \in Seq(Bytes) /\ Len(ab) = Len(a) + Len(b)
      /\ \A k \in 1..Len(a) + Len(b) :
            ab[k] = IF k <= Len(a) THEN a[k] ELSE b[k - Len(a)]
  BY ConcatProperties
<1>2. /\ Gz(a) \in Seq(Bytes) /\ Len(Gz(a)) = Len(a)
      /\ Gz(b) \in Seq(Bytes) /\ Len(Gz(b)) = Len(b)
  BY GzType
<1>3. /\ rhs \in Seq(Bytes) /\ Len(rhs) = Len(a) + Len(b)
      /\ \A k \in 1..Len(a) + Len(b) :
            rhs[k] = IF k <= Len(a) THEN Gz(a)[k] ELSE Gz(b)[k - Len(a)]
  <2> DEFINE A == Gz(a)
             B == Gz(b)
  <2>1. A \in Seq(Bytes) /\ Len(A) = Len(a) /\ B \in Seq(Bytes) /\ Len(B) = Len(b)
    BY <1>2
  <2> HIDE DEF A, B
  <2>2. /\ A \o B \in Seq(Bytes) /\ Len(A \o B) = Len(A) + Len(B)
        /\ \A k \in 1..Len(A) + Len(B) :
              (A \o B)[k] = IF k <= Len(A) THEN A[k] ELSE B[k - Len(A)]
    BY ONLY <2>1, ConcatProperties
  <2>3. rhs = A \o B
    BY DEF A, B
  <2>4. /\ rhs \in Seq(Bytes) /\ Len(rhs) = Len(a) + Len(b)
        /\ \A k \in 1..Len(a) + Len(b) : rhs[k] = IF k <= Len(a) THEN A[k] ELSE B[k - Len(a)]
    <3> HIDE DEF rhs
    <3> QED
      BY <2>1, <2>2, <2>3
  <2> QED
    BY <2>4 DEF A, B
<1> HIDE DEF ab
<1>4. /\ lhs \in Seq(Bytes) /\ Len(lhs) = Len(ab)
      /\ \A k \in 1..Len(ab) : lhs[k] = [n |-> ab[k].n, gz |-> ab[k].gz + 1]
  BY <1>1, GzType
<1> HIDE DEF lhs, rhs
<1>5. ASSUME NEW k \in 1..Len(lhs) PROVE lhs[k] = rhs[k]
  <2>1. k \in 1..Len(a) + Len(b) /\ Len(a) \in Nat /\ Len(b) \in Nat
    BY <1>1, <1>4, LenProperties
  <2>2. lhs[k] = [n |-> ab[k].n, gz |-> ab[k].gz + 1]
    BY <1>4
  <2>3. CASE k <= Len(a)
    <3>1. k \in 1..Len(a)
      BY <2>1, <2>3
    <3>2. ab[k] = a[k] /\ rhs[k] = Gz(a)[k]
      BY <1>1, <1>3, <2>1, <2>3
    <3>3. Gz(a)[k] = [n |-> a[k].n, gz |-> a[k].gz + 1]
      BY <3>1, GzType
    <3> QED
      BY <2>2, <3>2, <3>3
  <2>4. CASE ~ (k <= Len(a))
    <3>1. k - Len(a) \in 1..Len(b)
      BY <2>1, <2>4
    <3>2. ab[k] = b[k - Len(a)] /\ rhs[k] = Gz(b)[k - Len(a)]
      BY <1>1, <1>3, <2>1, <2>4
    <3>3. Gz(b)[k - Len(a)] = [n |-> b[k - Len(a)].n, gz |-> b[k - Len(a)].gz + 1]
      BY <3>1, GzType
    <3> QED
      BY <2>2, <3>2, <3>3
  <2> QED
    BY <2>3, <2>4
<1>6. lhs = rhs
  BY <1>1, <1>3, <1>4, <1>5, SeqEqual
<1> QED
  BY <1>6 DEF lhs, rhs, ab

LEMMA EncodedType ==
    ASSUME NEW w, NEW a \in Seq(Bytes), NEW b \in Seq(Bytes)
    PROVE  /\ Encoded(w, a) \in Seq(Bytes)
           /\ Encoded(w, a \o b) = Encoded(w, a) \o Encoded(w, b)
  BY GzType, GzConcat DEF Encoded

\* Nothing is asked, and nothing is sent.
LEMMA NothingTypes == Nothing \in Asks /\ Unsent \in Views /\ Blank \in Wrappers
<1>1. <<>> \in Seq(Bytes)
  BY EmptySeq
<1> QED
  BY <1>1 DEF Nothing, Asks, Unsent, Views, Blank, Wrappers

LEMMA ThenType ==
    ASSUME NEW v \in Views, NEW c \in Asks
    PROVE  Then(v, c) \in Views
<1>1. v.body \o c.bs \in Seq(Bytes)
  BY ConcatProperties DEF Views, Asks
<1> QED
  BY <1>1 DEF Then, Views, Asks

LEMMA ThenNothing ==
    ASSUME NEW v \in Views
    PROVE  Then(v, Nothing) = v
<1>1. v.body \o <<>> = v.body
  BY ConcatEmptySeq DEF Views
<1> QED
  BY <1>1 DEF Then, Nothing, Views, Final

LEMMA RecordFirstType ==
    ASSUME NEW w \in Wrappers, NEW code \in Nat
    PROVE  RecordFirst(w, code) \in Wrappers
  BY DEF RecordFirst, Wrappers

-----------------------------------------------------------------------------
(* One layer.                                                               *)

\* AskLayer, kind by kind.
LEMMA AskLayerIs ==
    ASSUME NEW l, NEW e, NEW c
    PROVE  /\ l.kind = "logger" =>
                 AskLayer(l, e, c) = [w |-> RecordFirst(l.w, c.code), encoding |-> e, c |-> c]
           /\ l.kind = "recoverer" =>
                 AskLayer(l, e, c) = [w |-> recovererStarted(l.w, c), encoding |-> e, c |-> c]
           /\ l.kind = "compress" => AskLayer(l, e, c) = gzipAsked(l.w, e, c)
           /\ l.kind = "aside" => AskLayer(l, e, c) = [w |-> l.w, encoding |-> e, c |-> c]
  BY DEF AskLayer

\* The wrapper once it has decided.
Decision(w, h, e) == [w EXCEPT !.decided = TRUE, !.skip = Skips(h, e), !.buf = <<>>]

LEMMA DecisionIs ==
    ASSUME NEW w \in Wrappers, NEW h, NEW e
    PROVE  /\ Decision(w, h, e) \in Wrappers /\ Decision(w, h, e).decided
           /\ Decision(w, h, e).skip = Skips(h, e) /\ Decision(w, h, e).status = w.status
<1>1. Skips(h, e) \in BOOLEAN
  BY DEF Skips
<1>2. <<>> \in Seq(Bytes)
  BY EmptySeq
<1> QED
  BY <1>1, <1>2 DEF Wrappers, Decision

\* What commit returns.
LEMMA CommitIs ==
    ASSUME NEW w \in Wrappers, NEW e, NEW h, NEW f
    PROVE  commit(w, e, h, f) =
             [w |-> Decision(w, h, e), encoding |-> IF Skips(h, e) THEN e ELSE "gzip",
              c |-> [code |-> w.status, write |-> TRUE, bs |-> Encoded(Decision(w, h, e), h),
                     flush |-> f]]
<1>1. Decision(w, h, e).skip = Skips(h, e)
  BY DecisionIs
<1> QED
  BY <1>1 DEF commit, Decision

LEMMA CommitType ==
    ASSUME NEW w \in Wrappers, NEW e \in Encodings, NEW h \in Seq(Bytes), NEW f \in BOOLEAN
    PROVE  commit(w, e, h, f) \in Answers
<1> DEFINE d == Decision(w, h, e)
<1>1. d \in Wrappers
  BY DecisionIs
<1>2. Encoded(d, h) \in Seq(Bytes)
  BY EncodedType
<1> HIDE DEF d
<1>3. commit(w, e, h, f) =
        [w |-> d, encoding |-> IF Skips(h, e) THEN e ELSE "gzip",
         c |-> [code |-> w.status, write |-> TRUE, bs |-> Encoded(d, h), flush |-> f]]
  BY CommitIs DEF d
<1>4. [code |-> w.status, write |-> TRUE, bs |-> Encoded(d, h), flush |-> f] \in Asks
  BY <1>2 DEF Asks, Wrappers
<1>5. (IF Skips(h, e) THEN e ELSE "gzip") \in Encodings
  BY DEF Encodings
<1> QED
  BY <1>1, <1>3, <1>4, <1>5 DEF Answers

\* What a gzipResponseWriter has recorded when it is asked c.
Noted(w, c) == RecordFirst(RecordFirst(w, c.code), IF c.write THEN 200 ELSE 0)

LEMMA NotedIs ==
    ASSUME NEW w \in Wrappers, NEW c \in Asks
    PROVE  /\ Noted(w, c) \in Wrappers
           /\ Noted(w, c).buf = w.buf /\ Noted(w, c).decided = w.decided
           /\ Noted(w, c).skip = w.skip
           /\ w.wroteHeader => Noted(w, c) = w
           /\ ~ w.wroteHeader =>
                IF Final(c.code) THEN Noted(w, c).wroteHeader /\ Noted(w, c).status = c.code
                ELSE IF c.write THEN Noted(w, c).wroteHeader /\ Noted(w, c).status = 200
                ELSE Noted(w, c) = w
<1> USE DEF RecordFirst, Final
<1>1. c.code \in Nat /\ c.write \in BOOLEAN
  BY DEF Asks
<1> DEFINE x == RecordFirst(w, c.code)
<1>2. /\ x \in Wrappers /\ x.buf = w.buf /\ x.decided = w.decided /\ x.skip = w.skip
      /\ w.wroteHeader => x = w
      /\ ~ w.wroteHeader => IF Final(c.code) THEN x.wroteHeader /\ x.status = c.code ELSE x = w
  BY <1>1 DEF Wrappers
<1> DEFINE s == IF c.write THEN 200 ELSE 0
           y == RecordFirst(x, s)
<1>3. s \in Nat /\ (c.write => s = 200 /\ Final(s)) /\ (~ c.write => ~ Final(s))
  BY <1>1
<1> HIDE DEF s, x
<1>4. /\ y \in Wrappers /\ y.buf = x.buf /\ y.decided = x.decided /\ y.skip = x.skip
      /\ x.wroteHeader => y = x
      /\ ~ x.wroteHeader => IF Final(s) THEN y.wroteHeader /\ y.status = s ELSE y = x
  BY <1>2, <1>3 DEF Wrappers
<1>5. Noted(w, c) = y
  BY DEF Noted, y, x, s
<1> HIDE DEF y
<1> QED
  BY <1>2, <1>3, <1>4, <1>5

\* The three ways of a gzipResponseWriter.
LEMMA GzipAskedIs ==
    ASSUME NEW w \in Wrappers, NEW e \in Encodings, NEW c \in Asks
    PROVE  /\ w.decided =>
                gzipAsked(w, e, c) = [w |-> Noted(w, c), encoding |-> e,
                                      c |-> [c EXCEPT !.code = 0, !.bs = Encoded(w, c.bs)]]
           /\ ~ w.decided /\ Len(w.buf \o c.bs) <= sniffBufSize /\ ~ c.flush =>
                gzipAsked(w, e, c) = [w |-> [Noted(w, c) EXCEPT !.buf = w.buf \o c.bs],
                                      encoding |-> e, c |-> Nothing]
           /\ ~ w.decided /\ ~ (Len(w.buf \o c.bs) <= sniffBufSize /\ ~ c.flush) =>
                gzipAsked(w, e, c) = commit(Noted(w, c), e, w.buf \o c.bs, c.flush)
<1> DEFINE v == Noted(w, c)
<1>1. v.buf = w.buf /\ v.decided = w.decided /\ v.skip = w.skip
  BY NotedIs
<1>2. gzipAsked(w, e, c) =
        IF v.decided
        THEN [w |-> v, encoding |-> e, c |-> [c EXCEPT !.code = 0, !.bs = Encoded(v, @)]]
        ELSE IF Len(v.buf \o c.bs) <= sniffBufSize /\ ~ c.flush
        THEN [w |-> [v EXCEPT !.buf = v.buf \o c.bs], encoding |-> e, c |-> Nothing]
        ELSE commit(v, e, v.buf \o c.bs, c.flush)
  BY DEF gzipAsked, Noted
<1>3. Encoded(v, c.bs) = Encoded(w, c.bs)
  BY <1>1 DEF Encoded
<1> HIDE DEF v
<1>4. [c EXCEPT !.code = 0, !.bs = Encoded(v, @)] = [c EXCEPT !.code = 0, !.bs = Encoded(w, c.bs)]
  BY <1>3 DEF Asks
<1>5. w.decided \in BOOLEAN
  BY DEF Wrappers
<1> QED
  BY <1>1, <1>2, <1>4, <1>5 DEF v

\* Every layer answers with a call on the next.
LEMMA AskLayerType ==
    ASSUME NEW l \in Layers, NEW e \in Encodings, NEW c \in Asks
    PROVE  AskLayer(l, e, c) \in Answers
<1>1. l.w \in Wrappers /\ c.code \in Nat
  BY DEF Layers, Asks
<1>2. CASE l.kind = "logger"
  BY <1>1, <1>2, AskLayerIs, RecordFirstType DEF Answers
<1>3. CASE l.kind = "recoverer"
  <2>1. recovererStarted(l.w, c) \in Wrappers
    BY <1>1 DEF recovererStarted, Wrappers
  <2> QED
    BY <2>1, <1>3, AskLayerIs DEF Answers
<1>4. CASE l.kind = "aside"
  BY <1>1, <1>4, AskLayerIs DEF Answers
<1>5. CASE l.kind = "compress"
  <2>1. Noted(l.w, c) \in Wrappers
    BY <1>1, NotedIs
  <2>2. l.w.buf \o c.bs \in Seq(Bytes) /\ Encoded(l.w, c.bs) \in Seq(Bytes)
    BY <1>1, ConcatProperties, EncodedType DEF Wrappers, Asks
  <2>3. AskLayer(l, e, c) = gzipAsked(l.w, e, c)
    BY <1>5, AskLayerIs
  <2>4. CASE l.w.decided
    <3>1. AskLayer(l, e, c) = [w |-> Noted(l.w, c), encoding |-> e,
                            c |-> [c EXCEPT !.code = 0, !.bs = Encoded(l.w, c.bs)]]
      BY <1>1, <2>3, <2>4, GzipAskedIs
    <3>2. ~ c.write => Encoded(l.w, c.bs) = <<>>
      <4>1. SUFFICES ASSUME ~ c.write PROVE Encoded(l.w, <<>>) = <<>>
        BY DEF Asks
      <4>2. <<>> \in Seq(Bytes)
        BY EmptySeq
      <4>3. Gz(<<>>) \in Seq(Bytes) /\ Len(Gz(<<>>)) = 0
        BY <4>2, GzType, EmptySeq
      <4>4. Gz(<<>>) = <<>>
        BY <4>3, EmptySeq
      <4> QED
        BY <4>4 DEF Encoded
    <3>3. [c EXCEPT !.code = 0, !.bs = Encoded(l.w, c.bs)] \in Asks
      BY <2>2, <3>2 DEF Asks
    <3> QED
      BY <2>1, <3>1, <3>3 DEF Answers
  <2>5. CASE ~ l.w.decided /\ Len(l.w.buf \o c.bs) <= sniffBufSize /\ ~ c.flush
    <3>1. AskLayer(l, e, c) = [w |-> [Noted(l.w, c) EXCEPT !.buf = l.w.buf \o c.bs],
                            encoding |-> e, c |-> Nothing]
      BY <1>1, <2>3, <2>5, GzipAskedIs
    <3>2. [Noted(l.w, c) EXCEPT !.buf = l.w.buf \o c.bs] \in Wrappers
      BY <2>1, <2>2 DEF Wrappers
    <3> QED
      BY <3>1, <3>2, NothingTypes DEF Answers
  <2>6. CASE ~ l.w.decided /\ ~ (Len(l.w.buf \o c.bs) <= sniffBufSize /\ ~ c.flush)
    <3>1. AskLayer(l, e, c) = commit(Noted(l.w, c), e, l.w.buf \o c.bs, c.flush)
      BY <1>1, <2>3, <2>6, GzipAskedIs
    <3>2. c.flush \in BOOLEAN
      BY DEF Asks
    <3>3. commit(Noted(l.w, c), e, l.w.buf \o c.bs, c.flush) \in Answers
      BY <2>1, <2>2, <3>2, CommitType
    <3> QED
      BY <3>1, <3>3
  <2> QED
    BY <2>4, <2>5, <2>6
<1> QED
  BY <1>2, <1>3, <1>4, <1>5 DEF Layers, LayerKinds

-----------------------------------------------------------------------------
(* A call through the layers.                                               *)

\* Induction over an interval, by the least position that is not in T.
LEMMA WNatClosed ==
    ASSUME NEW n \in Nat, NEW T, 0 \in T, \A k \in 0..n : k < n /\ k \in T => k + 1 \in T
    PROVE  0..n \subseteq T
<1> SUFFICES ASSUME NEW m \in 0..n, m \notin T PROVE FALSE
  OBVIOUS
<1> DEFINE Bad == {k \in 0..n : k \notin T}
<1>1. Bad \subseteq Nat /\ Bad # {}
  OBVIOUS
<1>2. PICK k \in Bad : \A j \in Bad : ~ (<<j, k>> \in OpToRel(<, Nat))
  <2> HIDE DEF Bad
  <2> QED
    BY <1>1, NatLessThanWellFounded, WFMin
<1>3. \A j \in Bad : ~ (j < k)
  <2> SUFFICES ASSUME NEW j \in Bad, j < k PROVE FALSE
    OBVIOUS
  <2>1. <<j, k>> \in Nat \X Nat
    BY <1>1
  <2> QED
    BY <1>2, <2>1, Zenon DEF OpToRel
<1>4. k \in 0..n /\ k \notin T
  OBVIOUS
<1>5. k - 1 \in 0..n
  BY <1>4
<1>6. k - 1 \notin Bad
  BY <1>3, <1>5, <1>4
<1>7. k - 1 \in T /\ k - 1 < n
  BY <1>4, <1>5, <1>6
<1> HIDE DEF Bad
<1>8. (k - 1) + 1 = k
  BY <1>4
<1> QED
  BY <1>4, <1>5, <1>7, <1>8

\* The same from the inside out, for the layers of a stack.
LEMMA Inwards ==
    ASSUME NEW n \in Nat, NEW T, n \in T, \A i \in 1..n : i \in T => i - 1 \in T
    PROVE  0..n \subseteq T
<1> DEFINE S == {k \in 0..n : n - k \in T}
<1>1. 0 \in S
  OBVIOUS
<1>2. ASSUME NEW k \in 0..n, k < n, k \in S PROVE k + 1 \in S
  <2>1. n - k \in 1..n /\ (n - k) - 1 = n - (k + 1) /\ k + 1 \in 0..n
    BY <1>2
  <2>2. n - k \in T
    BY <1>2
  <2> QED
    BY <2>1, <2>2
<1> HIDE DEF S
<1>3. 0..n \subseteq S
  BY <1>1, <1>2, WNatClosed
<1>4. ASSUME NEW i \in 0..n PROVE i \in T
  <2>1. n - i \in S /\ n - (n - i) = i
    BY <1>3
  <2> QED
    BY <2>1 DEF S
<1> QED
  BY <1>4

\* What the layers and the response are asked, in a call on the innermost one.
Runs(L, R, c) ==
    {b \in [0..Len(L) -> Answers] :
        /\ b[Len(L)] = [w |-> Blank, encoding |-> R.encoding, c |-> c]
        /\ \A i \in 1..Len(L) : b[i - 1] = AskLayer(L[i], b[i].encoding, b[i].c)
        /\ Call(L, R, c).L = [i \in 1..Len(L) |-> [L[i] EXCEPT !.w = b[i - 1].w]]
        /\ Call(L, R, c).R = Serve([R EXCEPT !.encoding = b[0].encoding], b[0].c)}

LEMMA CallRuns ==
    ASSUME NEW L \in Seq(Layers), NEW R \in Responses, NEW c \in Asks
    PROVE  Runs(L, R, c) # {}
<1> DEFINE n == Len(L)
           x == [w |-> Blank, encoding |-> R.encoding, c |-> c]
           G(i, t) == AskLayer(L[i], t.encoding, t.c)
           Part(m) == {s \in [(n - m)..n -> Answers] :
                          s[n] = x /\ \A i \in (n - m + 1)..n : s[i - 1] = G(i, s[i])}
           T == {m \in 0..n : Part(m) # {}}
           Def(h) == [i \in 0..n |-> IF i = n THEN x
                                     ELSE AskLayer(L[i + 1], h[i + 1].encoding, h[i + 1].c)]
           g == CHOOSE h : h = Def(h)
<1>1. n \in Nat
  BY LenProperties
<1>2. x \in Answers
  BY NothingTypes DEF Answers, Responses
<1>3. ASSUME NEW i \in 1..n, NEW t \in Answers PROVE G(i, t) \in Answers
  <2>1. L[i] \in Layers
    BY ElementOfSeq
  <2>2. t.encoding \in Encodings /\ t.c \in Asks
    BY DEF Answers
  <2> QED
    BY <2>1, <2>2, AskLayerType
<1>4. Call(L, R, c) =
        [L |-> [i \in 1..n |-> [L[i] EXCEPT !.w = g[i - 1].w]],
         R |-> Serve([R EXCEPT !.encoding = g[0].encoding], g[0].c)]
  BY DEF Call
<1> HIDE DEF n, x, G, g
<1>5. 0 \in T
  <2>1. [i \in n..n |-> x] \in Part(0)
    BY <1>1, <1>2
  <2> HIDE DEF Part
  <2>2. 0 \in 0..n /\ Part(0) # {}
    BY <1>1, <2>1
  <2> QED
    BY <2>2
<1>6. ASSUME NEW m \in 0..n, m < n, m \in T PROVE m + 1 \in T
  <2>1. PICK s \in Part(m) : TRUE
    BY <1>6
  <2> DEFINE j == n - m
             s1 == [i \in (j - 1)..n |-> IF i = j - 1 THEN G(j, s[j]) ELSE s[i]]
  <2>2. j \in 1..n /\ n - (m + 1) = j - 1 /\ n - (m + 1) + 1 = j /\ m + 1 \in 0..n
    BY <1>1, <1>6
  <2>3. s \in [j..n -> Answers] /\ s[n] = x /\ \A i \in (j + 1)..n : s[i - 1] = G(i, s[i])
    BY <2>1
  <2> HIDE DEF j
  <2>4. s[j] \in Answers /\ G(j, s[j]) \in Answers
    BY <1>1, <1>3, <2>2, <2>3
  <2>5. s1 \in [(j - 1)..n -> Answers] /\ s1[n] = x
    BY <1>1, <2>2, <2>3, <2>4
  <2>6. ASSUME NEW i \in j..n PROVE s1[i - 1] = G(i, s1[i])
    <3>1. i \in (j - 1)..n /\ i - 1 \in (j - 1)..n /\ i # j - 1
      BY <1>1, <2>2
    <3>2. s1[i] = s[i]
      BY <3>1
    <3>3. CASE i = j
      <4>1. s1[i - 1] = G(j, s[j])
        BY <3>1, <3>3
      <4> QED
        BY <3>2, <3>3, <4>1
    <3>4. CASE i # j
      <4>1. i \in (j + 1)..n /\ i - 1 # j - 1
        BY <1>1, <2>2, <3>4
      <4>2. s1[i - 1] = s[i - 1]
        BY <3>1, <4>1
      <4>3. s[i - 1] = G(i, s[i])
        BY <2>3, <4>1
      <4> QED
        BY <3>2, <4>2, <4>3
    <3> QED
      BY <3>3, <3>4
  <2> HIDE DEF s1
  <2>7. s1 \in Part(m + 1)
    BY <2>2, <2>5, <2>6
  <2> HIDE DEF Part
  <2> QED
    BY <2>2, <2>7
<1> HIDE DEF T
<1>7. n \in T
  <2>1. 0..n \subseteq T
    BY <1>1, <1>5, <1>6, WNatClosed
  <2> QED
    BY <1>1, <2>1
<1>8. PICK s \in [0..n -> Answers] : s[n] = x /\ \A i \in 1..n : s[i - 1] = G(i, s[i])
  <2>1. n - n = 0 /\ n - n + 1 = 1
    BY <1>1
  <2>2. PICK s \in Part(n) : TRUE
    BY <1>7 DEF T
  <2>3. /\ s \in [0..n -> Answers] /\ s[n] = x
        /\ \A i \in 1..n : s[i - 1] = G(i, s[i])
    BY <2>1, <2>2
  <2> QED
    BY <2>3
<1>9. s = Def(s)
  <2>1. ASSUME NEW i \in 0..n, i # n
        PROVE  s[i] = AskLayer(L[i + 1], s[i + 1].encoding, s[i + 1].c)
    <3>1. i + 1 \in 1..n /\ (i + 1) - 1 = i
      BY <1>1, <2>1
    <3>2. s[i] = G(i + 1, s[i + 1])
      BY <1>8, <3>1
    <3> QED
      BY <3>2 DEF G
  <2>2. ASSUME NEW i \in 0..n PROVE s[i] = Def(s)[i]
    BY <1>8, <2>1
  <2> QED
    BY <1>8, <2>2
<1>10. g = Def(g)
  BY <1>9 DEF g
<1> HIDE DEF Part
<1>11. g[n] = x /\ \A i \in 1..n : g[i - 1] = G(i, g[i])
  <2>1. g[n] = x
    BY <1>1, <1>10
  <2>2. ASSUME NEW i \in 1..n PROVE g[i - 1] = G(i, g[i])
    <3>1. i - 1 \in 0..n /\ i - 1 # n /\ (i - 1) + 1 = i
      BY <1>1
    <3>2. g[i - 1] = AskLayer(L[(i - 1) + 1], g[(i - 1) + 1].encoding, g[(i - 1) + 1].c)
      BY <1>10, <3>1
    <3> QED
      BY <3>1, <3>2 DEF G
  <2> QED
    BY <2>1, <2>2
<1>12. g \in [0..n -> Answers]
  <2> DEFINE U == {i \in 0..n : g[i] \in Answers}
  <2>1. n \in U
    BY <1>1, <1>2, <1>11
  <2>2. ASSUME NEW i \in 1..n, i \in U PROVE i - 1 \in U
    <3>1. g[i] \in Answers /\ i - 1 \in 0..n
      BY <1>1, <2>2
    <3> QED
      BY <1>3, <1>11, <3>1
  <2> HIDE DEF U
  <2>3. 0..n \subseteq U
    BY <1>1, <2>1, <2>2, Inwards
  <2>4. \A i \in 0..n : g[i] \in Answers
    BY <2>3 DEF U
  <2>5. g = [i \in 0..n |-> g[i]]
    BY <1>10
  <2> QED
    BY <2>4, <2>5
<1>13. g \in Runs(L, R, c)
  BY <1>4, <1>11, <1>12 DEF Runs, n, x, G
<1> QED
  BY <1>13

-----------------------------------------------------------------------------
(* A layer goes on showing what its calls make of it.                       *)

\* One layer asked c, and what it asks of the next.
Became(l, a) == [l EXCEPT !.w = a.w]

LEMMA PassShows ==
    ASSUME NEW l \in Layers, NEW v \in Views, NEW u \in Views, NEW e \in Encodings,
           NEW c \in Asks, Shows(l, v, u), l.kind # "compress"
    PROVE  /\ Shows(Became(l, AskLayer(l, e, c)), Then(v, c), Then(u, c))
           /\ AskLayer(l, e, c).c = c /\ AskLayer(l, e, c).encoding = e
<1> DEFINE a == AskLayer(l, e, c)
<1>1. a.c = c /\ a.encoding = e /\ (l.kind = "recoverer" => a.w = recovererStarted(l.w, c))
  BY AskLayerIs DEF Layers, LayerKinds
<1>2. v = u
  BY DEF Shows
<1> HIDE DEF a
<1>3. Became(l, a).kind = l.kind /\ Became(l, a).w = a.w
  BY DEF Became, Layers
<1>4. ASSUME l.kind = "recoverer" PROVE a.w.started <=> Then(v, c).status # 0
  <2>1. l.w.started <=> v.status # 0
    BY <1>4 DEF Shows
  <2>2. a.w = recovererStarted(l.w, c)
    BY <1>1, <1>4
  <2>3. a.w.started <=> (l.w.started \/ Sends(c))
    BY <2>2 DEF recovererStarted, Layers, Wrappers
  <2>4. v.status = 0 => (Then(v, c).status # 0 <=> Sends(c))
    BY DEF Then, Sends, Final
  <2>5. v.status # 0 => Then(v, c).status # 0
    BY DEF Then
  <2> QED
    BY <2>1, <2>3, <2>4, <2>5
<1>5. Shows(Became(l, a), Then(v, c), Then(u, c))
  BY <1>2, <1>3, <1>4 DEF Shows
<1> QED
  BY <1>1, <1>5 DEF a

\* A gzipResponseWriter that has decided.
LEMMA DecidedShows ==
    ASSUME NEW w \in Wrappers, NEW v \in Views, NEW u \in Views, NEW e \in Encodings,
           NEW c \in Asks, w.decided, PassesOn(w, v, u)
    PROVE  /\ gzipAsked(w, e, c).w.decided /\ gzipAsked(w, e, c).w.skip = w.skip
           /\ PassesOn(gzipAsked(w, e, c).w, Then(v, c), Then(u, gzipAsked(w, e, c).c))
           /\ gzipAsked(w, e, c).encoding = e /\ gzipAsked(w, e, c).c.code = 0
<1> DEFINE a == gzipAsked(w, e, c)
<1>1. a = [w |-> Noted(w, c), encoding |-> e,
           c |-> [c EXCEPT !.code = 0, !.bs = Encoded(w, c.bs)]]
  BY GzipAskedIs
<1> HIDE DEF a
<1>2. a.w = Noted(w, c) /\ a.encoding = e
  BY <1>1
<1>3. a.c.code = 0 /\ a.c.bs = Encoded(w, c.bs)
  BY <1>1 DEF Asks
<1>4. a.w.decided /\ a.w.skip = w.skip
  BY <1>2, NotedIs
<1>5. Then(u, a.c).status = u.status /\ Then(v, c).status = v.status /\ u.status # 0
  BY DEF Then, PassesOn
<1>6. Then(u, a.c).body = Encoded(w, v.body) \o Encoded(w, c.bs)
  BY <1>3 DEF Then, PassesOn
<1>7. Encoded(w, v.body \o c.bs) = Encoded(w, v.body) \o Encoded(w, c.bs)
  BY EncodedType DEF Views, Asks
<1>8. Then(v, c).body = v.body \o c.bs
  BY DEF Then
<1>9. Then(u, a.c).body = Encoded(a.w, Then(v, c).body)
  BY <1>4, <1>6, <1>7, <1>8 DEF Encoded
<1>10. v.status = u.status
  BY DEF PassesOn
<1>11. PassesOn(a.w, Then(v, c), Then(u, a.c))
  BY <1>5, <1>9, <1>10 DEF PassesOn
<1> QED
  BY <1>2, <1>3, <1>4, <1>11 DEF a

\* What it has recorded, while it holds back.
LEMMA NotedHolds ==
    ASSUME NEW w \in Wrappers, NEW v \in Views, NEW u \in Views, NEW c \in Asks,
           HoldsBack(w, v, u)
    PROVE  LET x == Noted(w, c)
           IN  /\ x.wroteHeader <=> x.status # 0
               /\ x.status # 0 => Final(x.status)
               /\ Then(v, c).status = IF x.status = 0 /\ c.flush THEN 200 ELSE x.status
               /\ Then(v, c).body = w.buf \o c.bs
<1> DEFINE x == Noted(w, c)
<1>1. /\ w.wroteHeader => x = w
      /\ ~ w.wroteHeader =>
           IF Final(c.code) THEN x.wroteHeader /\ x.status = c.code
           ELSE IF c.write THEN x.wroteHeader /\ x.status = 200
           ELSE x = w
  BY NotedIs
<1>2. /\ v.status = w.status /\ v.body = w.buf
      /\ w.wroteHeader <=> w.status # 0
      /\ w.status # 0 => Final(w.status)
  BY DEF HoldsBack
<1>3. Then(v, c).body = w.buf \o c.bs
  BY <1>2 DEF Then
<1>4. Final(200) /\ (Final(c.code) => c.code # 0)
  BY DEF Final
<1>5. Then(v, c).status = IF w.status # 0 THEN w.status
                          ELSE IF Final(c.code) THEN c.code
                          ELSE IF c.write \/ c.flush THEN 200 ELSE 0
  BY <1>2 DEF Then
<1>6. w.wroteHeader \in BOOLEAN
  BY DEF Wrappers
<1> HIDE DEF x
<1>7. CASE w.wroteHeader
  BY <1>1, <1>2, <1>3, <1>5, <1>7 DEF x
<1>8. CASE ~ w.wroteHeader
  <2>1. w.status = 0
    BY <1>2, <1>8
  <2>2. CASE Final(c.code)
    BY <1>1, <1>3, <1>4, <1>5, <1>8, <2>1, <2>2 DEF x
  <2>3. CASE ~ Final(c.code) /\ c.write
    BY <1>1, <1>3, <1>4, <1>5, <1>8, <2>1, <2>3 DEF x
  <2>4. CASE ~ Final(c.code) /\ ~ c.write
    BY <1>1, <1>2, <1>3, <1>5, <1>8, <2>1, <2>4 DEF x
  <2> QED
    BY <2>2, <2>3, <2>4
<1> QED
  BY <1>7, <1>8

\* A gzipResponseWriter that goes on holding back.
LEMMA HoldShows ==
    ASSUME NEW w \in Wrappers, NEW v \in Views, NEW u \in Views, NEW e \in Encodings,
           NEW c \in Asks, ~ w.decided, HoldsBack(w, v, u),
           Len(w.buf \o c.bs) <= sniffBufSize, ~ c.flush
    PROVE  /\ ~ gzipAsked(w, e, c).w.decided /\ gzipAsked(w, e, c).w.skip = w.skip
           /\ HoldsBack(gzipAsked(w, e, c).w, Then(v, c), Then(u, gzipAsked(w, e, c).c))
           /\ gzipAsked(w, e, c).encoding = e /\ gzipAsked(w, e, c).c.code = 0
<1> DEFINE a == gzipAsked(w, e, c)
           x == Noted(w, c)
<1>1. a = [w |-> [x EXCEPT !.buf = w.buf \o c.bs], encoding |-> e, c |-> Nothing]
  BY GzipAskedIs
<1>2. /\ x.wroteHeader <=> x.status # 0
      /\ x.status # 0 => Final(x.status)
      /\ Then(v, c).status = IF x.status = 0 /\ c.flush THEN 200 ELSE x.status
      /\ Then(v, c).body = w.buf \o c.bs
  BY NotedHolds
<1>3. x \in Wrappers /\ x.decided = w.decided /\ x.skip = w.skip
  BY NotedIs
<1> HIDE DEF a, x
<1>4. /\ a.w.decided = w.decided /\ a.w.skip = w.skip /\ a.w.buf = w.buf \o c.bs
      /\ a.w.wroteHeader = x.wroteHeader /\ a.w.status = x.status
      /\ a.encoding = e /\ a.c = Nothing
  BY <1>1, <1>3 DEF Wrappers
<1>5. Then(u, Nothing) = u /\ u = Unsent
  BY ThenNothing DEF HoldsBack
<1>6. Then(v, c) = [status |-> a.w.status, body |-> a.w.buf]
  BY <1>2, <1>4 DEF Then
<1>7. ~ w.skip
  BY DEF HoldsBack
<1>8. HoldsBack(a.w, Then(v, c), Then(u, a.c))
  BY <1>2, <1>4, <1>5, <1>6, <1>7 DEF HoldsBack
<1> QED
  BY <1>4, <1>8 DEF a, Nothing

\* A gzipResponseWriter that decides.
LEMMA CommitShows ==
    ASSUME NEW w \in Wrappers, NEW v \in Views, NEW u \in Views, NEW e \in Encodings,
           NEW c \in Asks, ~ w.decided, HoldsBack(w, v, u),
           ~ (Len(w.buf \o c.bs) <= sniffBufSize /\ ~ c.flush)
    PROVE  /\ gzipAsked(w, e, c).w.decided
           /\ PassesOn(gzipAsked(w, e, c).w, Then(v, c), Then(u, gzipAsked(w, e, c).c))
           /\ gzipAsked(w, e, c).encoding = (IF gzipAsked(w, e, c).w.skip THEN e ELSE "gzip")
           /\ e # "" => gzipAsked(w, e, c).w.skip
<1> DEFINE a == gzipAsked(w, e, c)
           x == Noted(w, c)
           h == w.buf \o c.bs
           k == commit(x, e, h, c.flush)
<1>1. a = k
  BY GzipAskedIs
<1>2. /\ x.wroteHeader <=> x.status # 0
      /\ x.status # 0 => Final(x.status)
      /\ Then(v, c).status = IF x.status = 0 /\ c.flush THEN 200 ELSE x.status
      /\ Then(v, c).body = h
  BY NotedHolds
<1>3. x \in Wrappers
  BY NotedIs
<1>4. h \in Seq(Bytes) /\ c.flush \in BOOLEAN
  BY ConcatProperties DEF Wrappers, Asks
<1>5. c.flush \/ x.status # 0
  <2> SUFFICES ASSUME ~ c.flush, x.status = 0 PROVE FALSE
    OBVIOUS
  <2>1. ~ x.wroteHeader
    BY <1>2
  <2>2. ~ c.write
    BY <2>1, NotedIs
  <2>3. h = w.buf
    <3>1. c.bs = <<>> /\ w.buf \in Seq(Bytes)
      BY <2>2 DEF Asks, Wrappers
    <3> QED
      BY <3>1, ConcatEmptySeq
  <2>4. Len(w.buf) <= sniffBufSize
    BY DEF HoldsBack
  <2> QED
    BY <2>3, <2>4
<1> HIDE DEF x, h
<1>6. k = [w |-> Decision(x, h, e), encoding |-> IF Skips(h, e) THEN e ELSE "gzip",
           c |-> [code |-> x.status, write |-> TRUE, bs |-> Encoded(Decision(x, h, e), h),
                  flush |-> c.flush]]
  BY <1>3, CommitIs
<1> HIDE DEF a, k
<1>7. k.w.decided /\ k.w.skip = Skips(h, e) /\ k.encoding = (IF Skips(h, e) THEN e ELSE "gzip")
  <2>1. k.w = Decision(x, h, e)
    BY <1>6
  <2> QED
    BY <1>3, <1>6, <2>1, DecisionIs
<1>8. u = [status |-> 0, body |-> <<>>]
  BY DEF HoldsBack, Unsent
<1>9. Encoded(k.w, h) \in Seq(Bytes)
  BY <1>4, EncodedType
<1>10. Then(u, k.c).body = Encoded(k.w, h)
  <2>1. <<>> \o Encoded(k.w, h) = Encoded(k.w, h)
    BY <1>9, ConcatEmptySeq
  <2> QED
    BY <1>6, <1>8, <2>1 DEF Then
<1>11. Then(u, k.c).status = IF Final(x.status) THEN x.status ELSE 200
  BY <1>6, <1>8 DEF Then
<1>12. Then(v, c).status = Then(u, k.c).status /\ Then(v, c).status # 0
  <2>1. Final(x.status) => x.status # 0
    BY DEF Final
  <2> QED
    BY <1>2, <1>5, <1>11, <2>1
<1>13. PassesOn(k.w, Then(v, c), Then(u, k.c))
  BY <1>2, <1>10, <1>12 DEF PassesOn
<1>14. e # "" => Skips(h, e)
  BY DEF Skips
<1> QED
  BY <1>1, <1>7, <1>13, <1>14 DEF a

\* Every layer.
LEMMA LayerShows ==
    ASSUME NEW l \in Layers, NEW v \in Views, NEW u \in Views, NEW e \in Encodings,
           NEW c \in Asks, Shows(l, v, u)
    PROVE  Shows(Became(l, AskLayer(l, e, c)), Then(v, c), Then(u, AskLayer(l, e, c).c))
<1>1. CASE l.kind # "compress"
  BY <1>1, PassShows
<1>2. CASE l.kind = "compress"
  <2> DEFINE a == gzipAsked(l.w, e, c)
  <2>1. l.w \in Wrappers /\ AskLayer(l, e, c) = a
    BY <1>2, AskLayerIs DEF Layers
  <2>2. Became(l, a).kind = l.kind /\ Became(l, a).w = a.w
    BY DEF Became, Layers
  <2>3. CASE l.w.decided
    <3>1. PassesOn(l.w, v, u)
      BY <1>2, <2>3 DEF Shows
    <3>2. a.w.decided /\ PassesOn(a.w, Then(v, c), Then(u, a.c))
      BY <2>1, <2>3, <3>1, DecidedShows
    <3> HIDE DEF a
    <3> QED
      BY <1>2, <2>1, <2>2, <3>2 DEF Shows
  <2>4. CASE ~ l.w.decided
    <3>1. HoldsBack(l.w, v, u)
      BY <1>2, <2>4 DEF Shows
    <3>2. CASE Len(l.w.buf \o c.bs) <= sniffBufSize /\ ~ c.flush
      <4>1. ~ a.w.decided /\ HoldsBack(a.w, Then(v, c), Then(u, a.c))
        BY <2>1, <2>4, <3>1, <3>2, HoldShows
      <4> HIDE DEF a
      <4> QED
        BY <1>2, <2>1, <2>2, <4>1 DEF Shows
    <3>3. CASE ~ (Len(l.w.buf \o c.bs) <= sniffBufSize /\ ~ c.flush)
      <4>1. a.w.decided /\ PassesOn(a.w, Then(v, c), Then(u, a.c))
        BY <2>1, <2>4, <3>1, <3>3, CommitShows
      <4> HIDE DEF a
      <4> QED
        BY <1>2, <2>1, <2>2, <4>1 DEF Shows
    <3> QED
      BY <3>2, <3>3
  <2> QED
    BY <2>3, <2>4
<1> QED
  BY <1>1, <1>2

\* net/http's response, given a status.
LEMMA ServerWriteHeaderIs ==
    ASSUME NEW R \in Responses, NEW code \in Nat
    PROVE  LET S == ServerWriteHeader(R, code)
           IN  /\ S \in Responses /\ S.body = R.body /\ S.encoding = R.encoding
               /\ S.status = (IF R.status = 0 /\ Final(code) THEN code ELSE R.status)
               /\ S.sent = (IF R.status = 0 /\ Final(code) THEN R.encoding ELSE R.sent)
<1>1. CASE R.status = 0 /\ Final(code)
  <2>1. ServerWriteHeader(R, code) = [R EXCEPT !.status = code, !.sent = R.encoding]
    BY <1>1 DEF ServerWriteHeader
  <2> QED
    BY <1>1, <2>1 DEF Responses
<1>2. CASE ~ (R.status = 0 /\ Final(code))
  <2>1. ServerWriteHeader(R, code) = R
    BY <1>2 DEF ServerWriteHeader
  <2> QED
    BY <1>2, <2>1
<1> QED
  BY <1>1, <1>2

\* net/http's response, asked c.
LEMMA ServeIs ==
    ASSUME NEW R \in Responses, NEW c \in Asks
    PROVE  /\ Serve(R, c) \in Responses /\ Seen(Serve(R, c)) = Then(Seen(R), c)
           /\ Serve(R, c).encoding = R.encoding
           /\ Serve(R, c).sent = IF R.status = 0 /\ Sends(c) THEN R.encoding ELSE R.sent
<1> DEFINE S == ServerWriteHeader(R, c.code)
           T == IF c.write \/ c.flush THEN ServerWriteHeader(S, 200) ELSE S
<1>1. Final(200) /\ (Final(c.code) => c.code # 0) /\ c.code \in Nat
  BY DEF Final, Asks
<1>2. /\ S \in Responses /\ S.body = R.body /\ S.encoding = R.encoding
      /\ S.status = (IF R.status = 0 /\ Final(c.code) THEN c.code ELSE R.status)
      /\ S.sent = (IF R.status = 0 /\ Final(c.code) THEN R.encoding ELSE R.sent)
  BY <1>1, ServerWriteHeaderIs
<1> HIDE DEF S
<1>3. /\ T \in Responses /\ T.body = S.body /\ T.encoding = S.encoding
      /\ T.status = (IF (c.write \/ c.flush) /\ S.status = 0 THEN 200 ELSE S.status)
      /\ T.sent = (IF (c.write \/ c.flush) /\ S.status = 0 THEN S.encoding ELSE S.sent)
  <2>1. CASE c.write \/ c.flush
    <3>1. T = ServerWriteHeader(S, 200)
      BY <2>1
    <3> HIDE DEF T
    <3>2. S \in Responses
      BY <1>2
    <3>3. /\ T \in Responses /\ T.body = S.body /\ T.encoding = S.encoding
          /\ T.status = (IF S.status = 0 /\ Final(200) THEN 200 ELSE S.status)
          /\ T.sent = (IF S.status = 0 /\ Final(200) THEN S.encoding ELSE S.sent)
      BY ONLY <3>1, <3>2, ServerWriteHeaderIs
    <3> QED
      BY <1>1, <2>1, <3>3
  <2>2. CASE ~ (c.write \/ c.flush)
    <3>1. T = S
      BY <2>2
    <3> HIDE DEF T
    <3> QED
      BY <1>2, <2>2, <3>1
  <2> QED
    BY <2>1, <2>2
<1> HIDE DEF T
<1>4. Serve(R, c) = [T EXCEPT !.body = @ \o c.bs]
  BY DEF Serve, T, S
<1>5. R.body \o c.bs \in Seq(Bytes)
  BY ConcatProperties DEF Responses, Asks
<1>6. /\ Serve(R, c) \in Responses /\ Serve(R, c).status = T.status
      /\ Serve(R, c).body = R.body \o c.bs
      /\ Serve(R, c).encoding = T.encoding /\ Serve(R, c).sent = T.sent
  BY <1>2, <1>3, <1>4, <1>5 DEF Responses
<1>7. T.status = IF R.status # 0 THEN R.status
                 ELSE IF Final(c.code) THEN c.code
                 ELSE IF c.write \/ c.flush THEN 200 ELSE 0
  BY <1>1, <1>2, <1>3 DEF Responses
<1>8. T.sent = IF R.status = 0 /\ Sends(c) THEN R.encoding ELSE R.sent
  BY <1>1, <1>2, <1>3 DEF Sends
<1>9. Seen(Serve(R, c)) = Then(Seen(R), c)
  BY <1>6, <1>7 DEF Seen, Then
<1> QED
  BY <1>2, <1>3, <1>6, <1>8, <1>9

LEMMA ServeSeen ==
    ASSUME NEW R \in Responses, NEW c \in Asks, NEW e \in Encodings
    PROVE  /\ Serve([R EXCEPT !.encoding = e], c) \in Responses
           /\ Seen(Serve([R EXCEPT !.encoding = e], c)) = Then(Seen(R), c)
           /\ Serve([R EXCEPT !.encoding = e], c).encoding = e
           /\ Serve([R EXCEPT !.encoding = e], c).sent =
                 IF R.status = 0 /\ Sends(c) THEN e ELSE R.sent
<1> DEFINE Q == [R EXCEPT !.encoding = e]
<1>1. /\ Q \in Responses /\ Q.status = R.status /\ Q.body = R.body
      /\ Q.encoding = e /\ Q.sent = R.sent
  BY DEF Responses
<1> HIDE DEF Q
<1>2. Seen(Q) = Seen(R)
  BY <1>1 DEF Seen
<1>3. /\ Serve(Q, c) \in Responses /\ Seen(Serve(Q, c)) = Then(Seen(Q), c)
      /\ Serve(Q, c).encoding = Q.encoding
      /\ Serve(Q, c).sent = IF Q.status = 0 /\ Sends(c) THEN Q.encoding ELSE Q.sent
  BY <1>1, ServeIs
<1> QED
  BY <1>1, <1>2, <1>3 DEF Q

\* What the layers show after a call.
After(V, b) == [i \in DOMAIN V |-> Then(V[i], b[i].c)]

LEMMA CallShows ==
    ASSUME NEW L, NEW R, NEW V, NEW c \in Asks, Stacked(L, R, V), NEW b \in Runs(L, R, c)
    PROVE  /\ Stacked(Call(L, R, c).L, Call(L, R, c).R, After(V, b))
           /\ After(V, b)[Len(L)] = Then(V[Len(L)], c)
           /\ Len(Call(L, R, c).L) = Len(L)
           /\ \A i \in 1..Len(L) : /\ Call(L, R, c).L[i] = Became(L[i], b[i - 1])
                                   /\ Call(L, R, c).L[i].kind = L[i].kind
                                   /\ Call(L, R, c).L[i].w = b[i - 1].w
<1> DEFINE n == Len(L)
           M == Call(L, R, c).L
           Q == Call(L, R, c).R
           W == After(V, b)
<1>1. /\ L \in Seq(Layers) /\ R \in Responses /\ V \in [0..n -> Views] /\ V[0] = Seen(R)
      /\ \A i \in 1..n : Shows(L[i], V[i], V[i - 1])
  BY DEF Stacked
<1>2. n \in Nat /\ \A i \in 1..n : L[i] \in Layers
  BY <1>1, LenProperties, ElementOfSeq
<1>3. /\ b \in [0..n -> Answers]
      /\ b[n] = [w |-> Blank, encoding |-> R.encoding, c |-> c]
      /\ \A i \in 1..n : b[i - 1] = AskLayer(L[i], b[i].encoding, b[i].c)
      /\ M = [i \in 1..n |-> [L[i] EXCEPT !.w = b[i - 1].w]]
      /\ Q = Serve([R EXCEPT !.encoding = b[0].encoding], b[0].c)
  BY DEF Runs
<1> HIDE DEF n, M, Q
<1>4. ASSUME NEW i \in 0..n
      PROVE  /\ b[i].w \in Wrappers /\ b[i].encoding \in Encodings /\ b[i].c \in Asks
             /\ V[i] \in Views
  <2>1. b[i] \in Answers
    BY <1>3
  <2> QED
    BY <1>1, <2>1 DEF Answers
<1>5. ASSUME NEW i \in 1..n PROVE i \in 0..n /\ i - 1 \in 0..n
  BY <1>2
<1>6. ASSUME NEW i \in 1..n
      PROVE  /\ M[i] = Became(L[i], b[i - 1]) /\ M[i] \in Layers
             /\ M[i].kind = L[i].kind /\ M[i].w = b[i - 1].w
  <2>1. b[i - 1].w \in Wrappers /\ L[i] \in Layers
    BY <1>2, <1>4, <1>5
  <2>2. M[i] = [L[i] EXCEPT !.w = b[i - 1].w]
    BY <1>3
  <2> QED
    BY <2>1, <2>2 DEF Layers, Became
<1>7. M \in Seq(Layers) /\ Len(M) = n
  <2>1. M \in [1..n -> Layers]
    BY <1>3, <1>6
  <2> QED
    BY <1>2, <2>1, SeqDef, LenProperties
<1>8. W = [i \in 0..n |-> Then(V[i], b[i].c)]
  BY <1>1 DEF After
<1> HIDE DEF W
<1>9. W \in [0..n -> Views]
  <2>1. \A i \in 0..n : Then(V[i], b[i].c) \in Views
    BY <1>4, ThenType
  <2> QED
    BY <1>8, <2>1
<1>10. 0 \in 0..n /\ n \in 0..n
  BY <1>2
<1>11. Q \in Responses /\ W[0] = Seen(Q)
  <2>1. /\ Q \in Responses /\ Seen(Q) = Then(Seen(R), b[0].c)
    BY <1>1, <1>3, <1>4, <1>10, ServeSeen
  <2> QED
    BY <1>1, <1>8, <1>10, <2>1
<1>12. ASSUME NEW i \in 1..n PROVE Shows(M[i], W[i], W[i - 1])
  <2>1. /\ L[i] \in Layers /\ V[i] \in Views /\ V[i - 1] \in Views /\ b[i].encoding \in Encodings
        /\ b[i].c \in Asks /\ Shows(L[i], V[i], V[i - 1])
    BY <1>1, <1>2, <1>4, <1>5
  <2>2. Shows(Became(L[i], AskLayer(L[i], b[i].encoding, b[i].c)), Then(V[i], b[i].c),
              Then(V[i - 1], AskLayer(L[i], b[i].encoding, b[i].c).c))
    BY ONLY <2>1, LayerShows
  <2>3. b[i - 1] = AskLayer(L[i], b[i].encoding, b[i].c)
    BY <1>3
  <2>4. M[i] = Became(L[i], b[i - 1])
    BY <1>6
  <2>5. W[i] = Then(V[i], b[i].c) /\ W[i - 1] = Then(V[i - 1], b[i - 1].c)
    BY <1>5, <1>8
  <2> QED
    BY <2>2, <2>3, <2>4, <2>5
<1>13. W[n] = Then(V[n], c)
  BY <1>3, <1>8, <1>10
<1>14. Stacked(M, Q, W)
  BY <1>7, <1>9, <1>11, <1>12 DEF Stacked
<1> QED
  BY <1>6, <1>7, <1>13, <1>14 DEF n, M, Q, W

-----------------------------------------------------------------------------
(* Content-Encoding.                                                        *)

\* When a layer shows that nothing was sent, nothing was.
LEMMA Unstarted ==
    ASSUME NEW L, NEW R, NEW V, Stacked(L, R, V), NEW i \in 0..Len(L), V[i].status = 0
    PROVE  R.status = 0
<1> DEFINE T == {k \in 0..i : V[k].status = 0}
<1>1. /\ L \in Seq(Layers) /\ V[0] = Seen(R)
      /\ \A k \in 1..Len(L) : Shows(L[k], V[k], V[k - 1])
  BY DEF Stacked
<1>2. Len(L) \in Nat /\ i \in Nat
  BY <1>1, LenProperties
<1>3. i \in T
  BY <1>2
<1>4. ASSUME NEW k \in 1..i, k \in T PROVE k - 1 \in T
  <2>1. k \in 1..Len(L) /\ k - 1 \in 0..i /\ V[k].status = 0
    BY <1>2, <1>4
  <2>2. Shows(L[k], V[k], V[k - 1])
    BY <1>1, <2>1
  <2>3. V[k - 1].status = 0
    BY <2>1, <2>2 DEF Shows, HoldsBack, PassesOn, Unsent
  <2> QED
    BY <2>1, <2>3
<1> HIDE DEF T
<1>5. 0..i \subseteq T
  BY <1>2, <1>3, <1>4, Inwards
<1>6. V[0].status = 0
  BY <1>2, <1>5 DEF T
<1> QED
  BY <1>1, <1>6 DEF Seen

\* One layer's part in it.
Zipping(l) == l.kind = "compress" /\ l.w.decided /\ ~ l.w.skip

\* l becomes m and changes the label e into f, when the layer outside it shows u.
LabelStep(l, m, e, f, u) ==
    /\ Zipping(l) => Zipping(m)
    /\ IF Zipping(m) /\ ~ Zipping(l) THEN e = "" /\ f = "gzip" /\ u.status = 0 ELSE f = e

LEMMA HoldLabels ==
    ASSUME NEW w \in Wrappers, NEW e \in Encodings, NEW c \in Asks, ~ w.decided,
           Len(w.buf \o c.bs) <= sniffBufSize, ~ c.flush
    PROVE  ~ gzipAsked(w, e, c).w.decided /\ gzipAsked(w, e, c).encoding = e
<1> DEFINE a == gzipAsked(w, e, c)
<1>1. a = [w |-> [Noted(w, c) EXCEPT !.buf = w.buf \o c.bs], encoding |-> e, c |-> Nothing]
  BY GzipAskedIs
<1> HIDE DEF a
<1>2. Noted(w, c) \in Wrappers /\ Noted(w, c).decided = w.decided
  BY NotedIs
<1>3. a.w.decided = w.decided /\ a.encoding = e
  BY <1>1, <1>2 DEF Wrappers
<1> QED
  BY <1>3 DEF a

LEMMA LayerZips ==
    ASSUME NEW l \in Layers, NEW v \in Views, NEW u \in Views, NEW e \in Encodings,
           NEW c \in Asks, Shows(l, v, u)
    PROVE  LabelStep(l, Became(l, AskLayer(l, e, c)), e, AskLayer(l, e, c).encoding, u)
<1> DEFINE m == Became(l, AskLayer(l, e, c))
<1>1. m.kind = l.kind /\ m.w = AskLayer(l, e, c).w
  BY DEF Became, Layers
<1> HIDE DEF m
<1> SUFFICES LabelStep(l, m, e, AskLayer(l, e, c).encoding, u)
  BY DEF m
<1> USE DEF LabelStep
<1>2. CASE l.kind # "compress"
  <2>1. AskLayer(l, e, c).encoding = e
    BY <1>2, PassShows
  <2> QED
    BY <1>1, <1>2, <2>1 DEF Zipping
<1>3. CASE l.kind = "compress"
  <2> DEFINE a == gzipAsked(l.w, e, c)
  <2>1. l.w \in Wrappers /\ AskLayer(l, e, c) = a
    BY <1>3, AskLayerIs DEF Layers
  <2>2. CASE l.w.decided
    <3>1. PassesOn(l.w, v, u)
      BY <1>3, <2>2 DEF Shows
    <3>2. a.w.decided /\ a.w.skip = l.w.skip /\ a.encoding = e
      BY <2>1, <2>2, <3>1, DecidedShows
    <3> HIDE DEF a
    <3> QED
      BY <1>1, <1>3, <2>1, <2>2, <3>2 DEF Zipping
  <2>3. CASE ~ l.w.decided
    <3>1. HoldsBack(l.w, v, u)
      BY <1>3, <2>3 DEF Shows
    <3>2. CASE Len(l.w.buf \o c.bs) <= sniffBufSize /\ ~ c.flush
      <4>1. ~ a.w.decided /\ a.encoding = e
        BY <2>1, <2>3, <3>2, HoldLabels
      <4> HIDE DEF a
      <4> QED
        BY <1>1, <1>3, <2>1, <2>3, <4>1 DEF Zipping
    <3>3. CASE ~ (Len(l.w.buf \o c.bs) <= sniffBufSize /\ ~ c.flush)
      <4>1. /\ a.w.decided /\ a.encoding = (IF a.w.skip THEN e ELSE "gzip")
            /\ e # "" => a.w.skip
        BY <2>1, <2>3, <3>1, <3>3, CommitShows
      <4>2. u.status = 0
        BY <3>1 DEF HoldsBack, Unsent
      <4> HIDE DEF a
      <4> QED
        BY <1>1, <1>3, <2>1, <2>3, <4>1, <4>2 DEF Zipping
    <3> QED
      BY <3>2, <3>3
  <2> QED
    BY <2>2, <2>3
<1> QED
  BY <1>2, <1>3

\* The layers in N, and no others, change the label e from "" to "gzip".
Relabels(n, e, N) ==
    /\ e \in [0..n -> Encodings] /\ N \subseteq 1..n
    /\ \A i \in 1..n : IF i \in N THEN e[i] = "" /\ e[i - 1] = "gzip" ELSE e[i - 1] = e[i]

\* A label that is set on the way through the layers stays.
LEMMA LabelStays ==
    ASSUME NEW n \in Nat, NEW e, NEW N, Relabels(n, e, N),
           NEW j \in 0..n, e[j] = "gzip", NEW k \in 0..j
    PROVE  e[k] = "gzip"
<1> DEFINE T == {i \in 0..j : e[i] = "gzip"}
<1>1. j \in T /\ j \in Nat
  OBVIOUS
<1>2. ASSUME NEW i \in 1..j, i \in T PROVE i - 1 \in T
  <2>1. i \in 1..n /\ i - 1 \in 0..j /\ e[i] = "gzip"
    BY <1>2
  <2>2. IF i \in N THEN e[i] = "" /\ e[i - 1] = "gzip" ELSE e[i - 1] = e[i]
    BY <2>1 DEF Relabels
  <2> QED
    BY <2>1, <2>2
<1> HIDE DEF T
<1>3. 0..j \subseteq T
  BY <1>1, <1>2, Inwards
<1> QED
  BY <1>3 DEF T

\* It is set at most once.
LEMMA LabelOnce ==
    ASSUME NEW n \in Nat, NEW e, NEW N, Relabels(n, e, N)
    PROVE  /\ \A i, j \in N : i = j
           /\ N = {} => e[0] = e[n]
           /\ N # {} => e[0] = "gzip" /\ e[n] = ""
<1>1. N \subseteq 1..n /\ \A i \in 1..n : i - 1 \in 0..n /\ i \in 0..n
  <2>1. N \subseteq 1..n
    BY DEF Relabels
  <2> QED
    BY <2>1
<1>2. ASSUME NEW i \in N, NEW j \in N, i < j PROVE FALSE
  <2>1. j - 1 \in 0..n /\ i \in 0..(j - 1) /\ j \in 1..n /\ i \in 1..n
    BY <1>1, <1>2
  <2>2. e[j - 1] = "gzip" /\ e[i] = ""
    BY <2>1 DEF Relabels
  <2>3. e[i] = "gzip"
    BY <2>1, <2>2, LabelStays
  <2> QED
    BY <2>2, <2>3
<1>3. ASSUME N = {} PROVE e[0] = e[n]
  <2> DEFINE T == {i \in 0..n : e[i] = e[n]}
  <2>1. n \in T
    OBVIOUS
  <2>2. ASSUME NEW i \in 1..n, i \in T PROVE i - 1 \in T
    <3>1. e[i - 1] = e[i]
      BY <1>3 DEF Relabels
    <3>2. e[i] = e[n]
      BY <2>2
    <3> QED
      BY <1>1, <3>1, <3>2
  <2> HIDE DEF T
  <2>3. 0..n \subseteq T
    BY <2>1, <2>2, Inwards
  <2> QED
    BY <2>3 DEF T
<1>4. ASSUME NEW i \in N PROVE e[0] = "gzip" /\ e[n] = ""
  <2>1. i - 1 \in 0..n /\ 0 \in 0..(i - 1) /\ i \in 1..n /\ n \in 0..n /\ i \in 0..n
    BY <1>1
  <2>2. e[i - 1] = "gzip" /\ e[i] = ""
    BY <2>1 DEF Relabels
  <2>3. e[0] = "gzip"
    BY <2>1, <2>2, LabelStays
  <2>4. e[n] # "gzip"
    <3> SUFFICES ASSUME e[n] = "gzip" PROVE FALSE
      OBVIOUS
    <3>1. i \in 0..n
      BY <2>1
    <3>2. e[i] = "gzip"
      BY <2>1, <3>1, LabelStays
    <3> QED
      BY <2>2, <3>2
  <2>5. e[n] \in {"", "gzip"}
    BY <2>1 DEF Encodings, Relabels
  <2> QED
    BY <2>3, <2>4, <2>5
<1>5. \A i, j \in N : i = j
  <2> SUFFICES ASSUME NEW i \in N, NEW j \in N PROVE i = j
    OBVIOUS
  <2>1. ~ (i < j) /\ ~ (j < i)
    BY <1>2
  <2>2. i \in 1..n /\ j \in 1..n
    BY <1>1
  <2> QED
    BY <2>1, <2>2
<1> QED
  BY <1>3, <1>4, <1>5

\* Calls keep the response labelled as it is compressed.
LEMMA CallLabels ==
    ASSUME NEW L, NEW R, NEW V, NEW c \in Asks, Stacked(L, R, V), NEW b \in Runs(L, R, c),
           NEW left \in BOOLEAN, Labelled(L, R, left)
    PROVE  Labelled(Call(L, R, c).L, Call(L, R, c).R, left)
<1> DEFINE n == Len(L)
           M == Call(L, R, c).L
           Q == Call(L, R, c).R
           e == [i \in 0..n |-> b[i].encoding]
           N == {i \in 1..n : Zipping(M[i]) /\ ~ Zipping(L[i])}
<1>1. /\ L \in Seq(Layers) /\ R \in Responses /\ V \in [0..n -> Views] /\ V[0] = Seen(R)
      /\ \A i \in 1..n : Shows(L[i], V[i], V[i - 1])
  BY DEF Stacked
<1>2. n \in Nat /\ \A i \in 1..n : L[i] \in Layers /\ i \in 0..n /\ i - 1 \in 0..n
  <2>1. n \in Nat
    BY <1>1, LenProperties
  <2> QED
    BY <1>1, <2>1, ElementOfSeq
<1>3. /\ b \in [0..n -> Answers]
      /\ b[n] = [w |-> Blank, encoding |-> R.encoding, c |-> c]
      /\ \A i \in 1..n : b[i - 1] = AskLayer(L[i], b[i].encoding, b[i].c)
      /\ Q = Serve([R EXCEPT !.encoding = b[0].encoding], b[0].c)
  BY DEF Runs
<1>4. Len(M) = n /\ \A i \in 1..n : M[i] = Became(L[i], b[i - 1])
  BY CallShows
<1> HIDE DEF n, M, Q
<1>5. ASSUME NEW i \in 0..n
      PROVE  /\ b[i].encoding \in Encodings /\ b[i].c \in Asks /\ V[i] \in Views
  <2>1. b[i] \in Answers
    BY <1>3
  <2> QED
    BY <1>1, <2>1 DEF Answers
<1>6. ASSUME NEW i \in 1..n
      PROVE  /\ Zipping(L[i]) => Zipping(M[i])
             /\ Zipping(M[i]) /\ ~ Zipping(L[i]) =>
                   b[i].encoding = "" /\ b[i - 1].encoding = "gzip" /\ V[i - 1].status = 0
             /\ ~ (Zipping(M[i]) /\ ~ Zipping(L[i])) => b[i - 1].encoding = b[i].encoding
  <2>1. /\ L[i] \in Layers /\ V[i] \in Views /\ V[i - 1] \in Views /\ b[i].encoding \in Encodings
        /\ b[i].c \in Asks /\ Shows(L[i], V[i], V[i - 1])
    BY <1>1, <1>2, <1>5
  <2>2. b[i - 1] = AskLayer(L[i], b[i].encoding, b[i].c)
    BY <1>3
  <2>3. LabelStep(L[i], Became(L[i], AskLayer(L[i], b[i].encoding, b[i].c)), b[i].encoding,
              AskLayer(L[i], b[i].encoding, b[i].c).encoding, V[i - 1])
    BY ONLY <2>1, LayerZips
  <2>4. M[i] = Became(L[i], b[i - 1])
    BY <1>4
  <2>5. LabelStep(L[i], M[i], b[i].encoding, b[i - 1].encoding, V[i - 1])
    BY <2>2, <2>3, <2>4
  <2> QED
    BY <2>5 DEF LabelStep
<1>7. e \in [0..n -> Encodings] /\ N \subseteq 1..n
  BY <1>5
<1>8. Relabels(n, e, N)
  <2>1. ASSUME NEW i \in 1..n
        PROVE  IF i \in N THEN e[i] = "" /\ e[i - 1] = "gzip" ELSE e[i - 1] = e[i]
    BY <1>2, <1>6
  <2> HIDE DEF e, N
  <2> QED
    BY <1>7, <2>1 DEF Relabels
<1>9. e[0] = b[0].encoding /\ e[n] = R.encoding
  BY <1>2, <1>3
<1>10. N # {} => R.status = 0
  <2> SUFFICES ASSUME NEW i \in N PROVE R.status = 0
    OBVIOUS
  <2>1. i - 1 \in 0..n /\ V[i - 1].status = 0
    BY <1>2, <1>6
  <2> QED
    BY <2>1, Unstarted DEF n
<1>11. Zips(M) = Zips(L) \cup N
  BY <1>4, <1>6 DEF Zips, Zipping, n
<1> HIDE DEF e, N
<1>12. /\ \A i, j \in N : i = j
       /\ N = {} => e[0] = e[n]
       /\ N # {} => e[0] = "gzip" /\ e[n] = ""
  BY <1>2, <1>8, LabelOnce
<1>13. /\ Q.encoding = e[0] /\ Q.sent = (IF R.status = 0 /\ Sends(b[0].c) THEN e[0] ELSE R.sent)
       /\ Q.status = Then(Seen(R), b[0].c).status
  <2>1. b[0].encoding \in Encodings /\ b[0].c \in Asks
    BY <1>2, <1>5
  <2>2. /\ Seen(Q) = Then(Seen(R), b[0].c) /\ Q.encoding = b[0].encoding
        /\ Q.sent = IF R.status = 0 /\ Sends(b[0].c) THEN b[0].encoding ELSE R.sent
    BY <1>1, <1>3, <2>1, ServeSeen
  <2>3. Q.status = Seen(Q).status
    BY DEF Seen
  <2> QED
    BY <1>9, <2>2, <2>3
<1>14. R.status = 0 /\ Q.status # 0 => Sends(b[0].c)
  BY <1>13 DEF Then, Seen, Sends
<1>15. /\ R.encoding = "gzip" <=> left \/ Zips(L) # {}
       /\ left => Zips(L) = {}
       /\ \A i, j \in Zips(L) : i = j
       /\ R.status # 0 => R.sent = R.encoding
  BY DEF Labelled
<1>16. Q.status # 0 => Q.sent = Q.encoding
  BY <1>9, <1>10, <1>12, <1>13, <1>14, <1>15
<1>17. CASE N = {}
  <2>1. Zips(M) = Zips(L) /\ Q.encoding = R.encoding
    BY <1>9, <1>11, <1>12, <1>13, <1>17
  <2> QED
    BY <1>15, <1>16, <2>1 DEF Labelled, M, Q
<1>18. CASE N # {}
  <2>1. R.encoding = "" /\ Q.encoding = "gzip"
    BY <1>9, <1>12, <1>13, <1>18
  <2>2. ~ left /\ Zips(L) = {}
    BY <1>15, <2>1
  <2>3. Zips(M) = N
    BY <1>11, <2>2
  <2> QED
    BY <1>12, <1>16, <1>18, <2>1, <2>2, <2>3 DEF Labelled, M, Q
<1> QED
  BY <1>17, <1>18

-----------------------------------------------------------------------------
(* What a statusRecorder records.                                           *)

\* A gzipResponseWriter passes a final status on only to a response that has none.
LEMMA CompressTells ==
    ASSUME NEW l \in Layers, NEW v \in Views, NEW u \in Views, NEW e \in Encodings,
           NEW c \in Asks, Shows(l, v, u), l.kind = "compress",
           Final(AskLayer(l, e, c).c.code)
    PROVE  u.status = 0
<1> DEFINE a == gzipAsked(l.w, e, c)
<1>1. l.w \in Wrappers /\ AskLayer(l, e, c) = a
  BY AskLayerIs DEF Layers
<1>2. ~ Final(0)
  BY DEF Final
<1>3. CASE l.w.decided
  <2>1. PassesOn(l.w, v, u)
    BY <1>3 DEF Shows
  <2>2. a.c.code = 0
    BY <1>1, <1>3, <2>1, DecidedShows
  <2> QED
    BY <1>1, <1>2, <2>2
<1>4. CASE ~ l.w.decided
  <2>1. HoldsBack(l.w, v, u)
    BY <1>4 DEF Shows
  <2> QED
    BY <2>1 DEF HoldsBack, Unsent
<1> QED
  BY <1>3, <1>4

\* What layer i is asked when the innermost one is asked c.
Told(L, V, b, c, i) ==
    /\ Uncompressed(L, i) => b[i].c = c /\ V[i] = V[Len(L)]
    /\ ~ Uncompressed(L, i) /\ Final(b[i].c.code) => V[i].status = 0

LEMMA CallTells ==
    ASSUME NEW L, NEW R, NEW V, NEW c \in Asks, Stacked(L, R, V), NEW b \in Runs(L, R, c)
    PROVE  \A i \in 0..Len(L) : Told(L, V, b, c, i)
<1> DEFINE n == Len(L)
           T == {i \in 0..n : Told(L, V, b, c, i)}
<1>1. /\ L \in Seq(Layers) /\ R \in Responses /\ V \in [0..n -> Views]
      /\ \A i \in 1..n : Shows(L[i], V[i], V[i - 1])
  BY DEF Stacked
<1>2. n \in Nat
  BY <1>1, LenProperties
<1>3. /\ b \in [0..n -> Answers]
      /\ b[n] = [w |-> Blank, encoding |-> R.encoding, c |-> c]
      /\ \A i \in 1..n : b[i - 1] = AskLayer(L[i], b[i].encoding, b[i].c)
  BY DEF Runs
<1>4. n \in T
  <2>1. Uncompressed(L, n)
    BY <1>2 DEF Uncompressed
  <2> QED
    BY <1>2, <1>3, <2>1 DEF Told
<1>5. ASSUME NEW i \in 1..n, i \in T PROVE i - 1 \in T
  <2>1. i \in 0..n /\ i - 1 \in 0..n /\ (i - 1) + 1 = i
    BY <1>2
  <2>2. Told(L, V, b, c, i)
    BY <1>5
  <2>3. L[i] \in Layers
    BY <1>1, ElementOfSeq
  <2>4. b[i].encoding \in Encodings /\ b[i].c \in Asks
    <3>1. b[i] \in Answers
      BY <1>3, <2>1
    <3> QED
      BY <3>1 DEF Answers
  <2>5. V[i] \in Views /\ V[i - 1] \in Views /\ Shows(L[i], V[i], V[i - 1])
    BY <1>1, <2>1
  <2>6. b[i - 1] = AskLayer(L[i], b[i].encoding, b[i].c)
    BY <1>3
  <2>7. Uncompressed(L, i - 1) <=> Uncompressed(L, i) /\ L[i].kind # "compress"
    BY <1>2, <2>1 DEF Uncompressed
  <2>8. CASE L[i].kind = "compress"
    <3>1. Final(b[i - 1].c.code) => V[i - 1].status = 0
      BY <2>3, <2>4, <2>5, <2>6, <2>8, CompressTells
    <3>2. Told(L, V, b, c, i - 1)
      BY <2>7, <2>8, <3>1 DEF Told
    <3> QED
      BY <2>1, <3>2
  <2>9. CASE L[i].kind # "compress"
    <3>1. b[i - 1].c = b[i].c
      BY <2>3, <2>4, <2>5, <2>6, <2>9, PassShows
    <3>2. V[i - 1] = V[i]
      BY <2>5, <2>9 DEF Shows
    <3>3. Told(L, V, b, c, i - 1)
      BY <2>2, <2>7, <2>9, <3>1, <3>2 DEF Told
    <3> QED
      BY <2>1, <3>3
  <2> QED
    BY <2>8, <2>9
<1> HIDE DEF T
<1>6. 0..n \subseteq T
  BY <1>2, <1>4, <1>5, Inwards
<1> QED
  BY <1>6 DEF T

LEMMA LayerRecords ==
    ASSUME NEW l \in Layers, NEW v \in Views, NEW e, NEW c \in Asks, Records(l, v),
           l.kind = "logger" /\ Final(c.code) /\ v.status # 0 => l.w.wroteHeader
    PROVE  Records(Became(l, AskLayer(l, e, c)), Then(v, c))
<1> DEFINE m == Became(l, AskLayer(l, e, c))
<1>1. m.kind = l.kind /\ m.w = AskLayer(l, e, c).w
  BY DEF Became, Layers
<1> HIDE DEF m
<1> SUFFICES ASSUME l.kind = "logger" PROVE Records(m, Then(v, c))
  BY <1>1 DEF Records, m
<1>2. m.w = RecordFirst(l.w, c.code)
  BY <1>1, AskLayerIs
<1>3. l.w \in Wrappers /\ c.code \in Nat
  BY DEF Layers, Asks
<1>4. IF l.w.wroteHeader THEN v.status # 0 /\ l.w.status = v.status
      ELSE v.status \in {0, 200} /\ l.w.status = 200
  BY DEF Records
<1>5. Then(v, c).status = IF v.status # 0 THEN v.status
                          ELSE IF Final(c.code) THEN c.code
                          ELSE IF c.write \/ c.flush THEN 200 ELSE 0
  BY DEF Then
<1>6. Final(c.code) => c.code # 0
  BY DEF Final
<1>7. CASE l.w.wroteHeader
  <2>1. m.w = l.w
    BY <1>2, <1>7 DEF RecordFirst
  <2> QED
    BY <1>1, <1>4, <1>5, <1>7, <2>1 DEF Records
<1>8. CASE ~ l.w.wroteHeader /\ Final(c.code)
  <2>1. m.w.wroteHeader /\ m.w.status = c.code
    BY <1>2, <1>3, <1>8 DEF RecordFirst, Wrappers
  <2>2. v.status = 0
    BY <1>8
  <2> QED
    BY <1>1, <1>5, <1>6, <1>8, <2>1, <2>2 DEF Records
<1>9. CASE ~ l.w.wroteHeader /\ ~ Final(c.code)
  <2>1. m.w = l.w
    BY <1>2, <1>9 DEF RecordFirst
  <2> QED
    BY <1>1, <1>4, <1>5, <1>9, <2>1 DEF Records
<1> QED
  BY <1>7, <1>8, <1>9

\* A call keeps what the statusRecorders recorded right, unless it is a status that
\* comes after a response none of them was told of.
LEMMA CallRecords ==
    ASSUME NEW L, NEW R, NEW V, NEW c \in Asks, Stacked(L, R, V), NEW b \in Runs(L, R, c),
           Recorded(L, V), Final(c.code) /\ V[Len(L)].status # 0 => Explicit(L)
    PROVE  Recorded(Call(L, R, c).L, After(V, b))
<1> DEFINE n == Len(L)
           M == Call(L, R, c).L
           W == After(V, b)
<1>1. /\ L \in Seq(Layers) /\ R \in Responses /\ V \in [0..n -> Views]
  BY DEF Stacked
<1>2. n \in Nat
  BY <1>1, LenProperties
<1>3. /\ b \in [0..n -> Answers]
      /\ \A i \in 1..n : b[i - 1] = AskLayer(L[i], b[i].encoding, b[i].c)
  BY DEF Runs
<1>4. Len(M) = n /\ \A i \in 1..n : M[i] = Became(L[i], b[i - 1])
  BY CallShows
<1>5. \A i \in 0..n : Told(L, V, b, c, i)
  BY CallTells
<1>6. \A i \in 0..n : W[i] = Then(V[i], b[i].c)
  BY <1>1 DEF After
<1> HIDE DEF M, W
<1>7. ASSUME NEW i \in 1..n PROVE Records(M[i], W[i])
  <2>1. i \in 0..n /\ L[i] \in Layers /\ V[i] \in Views
    BY <1>1, <1>2, ElementOfSeq
  <2>2. b[i].c \in Asks
    <3>1. b[i] \in Answers
      BY <1>3, <2>1
    <3> QED
      BY <3>1 DEF Answers
  <2>3. Records(L[i], V[i])
    BY DEF Recorded
  <2>4. ASSUME L[i].kind = "logger", Final(b[i].c.code), V[i].status # 0
        PROVE  L[i].w.wroteHeader
    <3>1. Uncompressed(L, i) /\ b[i].c = c /\ V[i] = V[n]
      BY <1>5, <2>1, <2>4 DEF Told
    <3>2. Explicit(L)
      BY <2>4, <3>1
    <3> QED
      BY <2>4, <3>1, <3>2 DEF Explicit
  <2>5. Records(Became(L[i], AskLayer(L[i], b[i].encoding, b[i].c)), Then(V[i], b[i].c))
    BY <2>1, <2>2, <2>3, <2>4, LayerRecords
  <2>6. M[i] = Became(L[i], AskLayer(L[i], b[i].encoding, b[i].c))
    BY <1>3, <1>4
  <2> QED
    BY <1>6, <2>1, <2>5, <2>6
<1> QED
  BY <1>4, <1>7 DEF Recorded, M, W

\* A status the handler sets is recorded, and stays.
LEMMA CallExplicit ==
    ASSUME NEW L, NEW R, NEW V, NEW c \in Asks, Stacked(L, R, V), NEW b \in Runs(L, R, c),
           Explicit(L) \/ Final(c.code)
    PROVE  Explicit(Call(L, R, c).L)
<1> DEFINE n == Len(L)
           M == Call(L, R, c).L
<1>1. L \in Seq(Layers)
  BY DEF Stacked
<1>2. n \in Nat
  BY <1>1, LenProperties
<1>3. \A i \in 1..n : b[i - 1] = AskLayer(L[i], b[i].encoding, b[i].c)
  BY DEF Runs
<1>4. Len(M) = n /\ \A i \in 1..n : M[i].kind = L[i].kind /\ M[i].w = b[i - 1].w
  BY CallShows
<1>5. \A i \in 0..n : Told(L, V, b, c, i)
  BY CallTells
<1> HIDE DEF M
<1>6. ASSUME NEW i \in 1..n, M[i].kind = "logger", Uncompressed(M, i) PROVE M[i].w.wroteHeader
  <2>1. i \in 0..n /\ L[i].kind = "logger" /\ L[i] \in Layers
    BY <1>1, <1>2, <1>4, <1>6, ElementOfSeq
  <2>2. Uncompressed(L, i)
    <3>1. \A j \in (i + 1)..n : j \in 1..n
      BY <1>2
    <3> QED
      BY <1>4, <1>6, <3>1 DEF Uncompressed
  <2>3. b[i].c = c
    BY <1>5, <2>1, <2>2 DEF Told
  <2>4. M[i].w = RecordFirst(L[i].w, c.code)
    <3>1. b[i - 1] = [w |-> RecordFirst(L[i].w, b[i].c.code), encoding |-> b[i].encoding,
                      c |-> b[i].c]
      BY <1>3, <2>1, AskLayerIs
    <3> QED
      BY <1>4, <2>3, <3>1
  <2>5. Explicit(L) => L[i].w.wroteHeader
    BY <2>1, <2>2 DEF Explicit
  <2>6. L[i].w \in Wrappers
    BY <2>1 DEF Layers
  <2> QED
    BY <2>4, <2>5, <2>6 DEF RecordFirst, Wrappers
<1> QED
  BY <1>4, <1>6 DEF Explicit, M

-----------------------------------------------------------------------------
(* Closing a gzipResponseWriter.                                            *)

\* What close asks of the next layer before the trailer, and whether it skips.
Rest(w, e) == IF w.decided THEN [w |-> w, encoding |-> e, c |-> Nothing]
              ELSE commit(w, e, w.buf, FALSE)

LEMMA RestIs ==
    ASSUME NEW w \in Wrappers, NEW e
    PROVE  /\ w.decided => Rest(w, e) = [w |-> w, encoding |-> e, c |-> Nothing]
           /\ ~ w.decided =>
                 Rest(w, e) = [w |-> Decision(w, w.buf, e),
                               encoding |-> IF Skips(w.buf, e) THEN e ELSE "gzip",
                               c |-> [code |-> w.status, write |-> TRUE,
                                      bs |-> Encoded(Decision(w, w.buf, e), w.buf),
                                      flush |-> FALSE]]
  BY CommitIs DEF Rest

LEMMA CloseIs ==
    ASSUME NEW w \in Wrappers, NEW e \in Encodings
    PROVE  /\ Rest(w, e) \in Answers
           /\ close(w, e) = IF Rest(w, e).w.skip THEN Rest(w, e)
                            ELSE [Rest(w, e) EXCEPT !.c = Trailer(@)]
<1>1. w.buf \in Seq(Bytes) /\ FALSE \in BOOLEAN
  BY DEF Wrappers
<1>2. commit(w, e, w.buf, FALSE) \in Answers
  BY <1>1, CommitType
<1>3. [w |-> w, encoding |-> e, c |-> Nothing] \in Answers
  BY NothingTypes DEF Answers
<1>4. Rest(w, e) \in Answers
  BY <1>2, <1>3 DEF Rest
<1>5. close(w, e) = IF Rest(w, e).w.skip THEN Rest(w, e)
                    ELSE [Rest(w, e) EXCEPT !.c = Trailer(@)]
  <2> DEFINE s == IF w.decided THEN [w |-> w, encoding |-> e, c |-> Nothing]
                  ELSE commit(w, e, w.buf, FALSE)
  <2>1. close(w, e) = IF s.w.skip THEN s ELSE [s EXCEPT !.c = Trailer(@)]
    BY DEF close
  <2>2. s = Rest(w, e)
    BY DEF Rest
  <2> HIDE DEF s
  <2> QED
    BY <2>1, <2>2
<1> QED
  BY <1>4, <1>5

LEMMA TrailerIs ==
    ASSUME NEW c \in Asks
    PROVE  /\ Trailer(c) \in Asks /\ Trailer(c).code = c.code
           /\ Trailer(c).write /\ Trailer(c).bs = Append(c.bs, GzipEnd)
<1>1. GzipEnd \in Bytes
  BY DEF GzipEnd, Bytes
<1>2. c.bs \in Seq(Bytes)
  BY DEF Asks
<1>3. Append(c.bs, GzipEnd) \in Seq(Bytes)
  BY <1>1, <1>2, AppendProperties
<1> QED
  BY <1>3 DEF Trailer, Asks

LEMMA ClosePart ==
    ASSUME NEW w \in Wrappers, NEW e \in Encodings
    PROVE  /\ close(w, e).w = Rest(w, e).w /\ close(w, e).encoding = Rest(w, e).encoding
           /\ close(w, e).c = IF Rest(w, e).w.skip THEN Rest(w, e).c ELSE Trailer(Rest(w, e).c)
           /\ close(w, e).c \in Asks /\ close(w, e).encoding \in Encodings
           /\ close(w, e).c.code = Rest(w, e).c.code
<1> DEFINE r == Rest(w, e)
           k == close(w, e)
<1>1. r \in Answers /\ k = IF r.w.skip THEN r ELSE [r EXCEPT !.c = Trailer(@)]
  BY CloseIs
<1> HIDE DEF r, k
<1>2. r.c \in Asks /\ r.encoding \in Encodings
  BY <1>1 DEF Answers
<1>3. Trailer(r.c) \in Asks /\ Trailer(r.c).code = r.c.code
  BY <1>2, TrailerIs
<1>4. k.w = r.w /\ k.encoding = r.encoding /\ k.c = IF r.w.skip THEN r.c ELSE Trailer(r.c)
  BY <1>1 DEF Answers
<1> QED
  BY <1>2, <1>3, <1>4 DEF r, k

LEMMA ConcatAppend ==
    ASSUME NEW a \in Seq(Bytes), NEW b \in Seq(Bytes), NEW x \in Bytes
    PROVE  a \o Append(b, x) = Append(a \o b, x)
<1>1. a \o b \in Seq(Bytes)
  BY ConcatProperties
<1>2. Append(b, x) = b \o <<x>> /\ Append(a \o b, x) = (a \o b) \o <<x>>
  BY <1>1, AppendIsConcat
<1>3. <<x>> \in Seq(Bytes)
  OBVIOUS
<1>4. (a \o b) \o <<x>> = a \o (b \o <<x>>)
  BY <1>3, ConcatAssociative
<1> QED
  BY <1>2, <1>4

\* The view outside a closed gzipResponseWriter that showed v.
Finished(v, skip) == [status |-> IF v.status = 0 THEN 200 ELSE v.status,
                      body |-> IF skip THEN v.body ELSE Append(Gz(v.body), GzipEnd)]

LEMMA RestShows ==
    ASSUME NEW w \in Wrappers, NEW v \in Views, NEW u \in Views, NEW e \in Encodings,
           ~ w.decided => HoldsBack(w, v, u), w.decided => PassesOn(w, v, u)
    PROVE  LET r == Rest(w, e)
           IN  /\ r.w.skip \in BOOLEAN
               /\ Then(u, r.c).status = (IF v.status = 0 THEN 200 ELSE v.status)
               /\ Then(u, r.c).body = IF r.w.skip THEN v.body ELSE Gz(v.body)
<1> DEFINE r == Rest(w, e)
<1>1. w.decided \in BOOLEAN /\ w.skip \in BOOLEAN
  BY DEF Wrappers
<1>2. CASE w.decided
  <2>1. r.w = w /\ r.c = Nothing
    BY <1>2 DEF Rest
  <2>2. Then(u, r.c) = u
    BY <2>1, ThenNothing
  <2>3. u.status # 0 /\ v.status = u.status /\ u.body = Encoded(w, v.body)
    BY <1>2 DEF PassesOn
  <2> QED
    BY <1>1, <2>1, <2>2, <2>3 DEF Encoded
<1>3. CASE ~ w.decided
  <2> DEFINE d == Decision(w, w.buf, e)
  <2>1. r = [w |-> d, encoding |-> IF Skips(w.buf, e) THEN e ELSE "gzip",
             c |-> [code |-> w.status, write |-> TRUE, bs |-> Encoded(d, w.buf),
                    flush |-> FALSE]]
    BY <1>3, CommitIs DEF Rest
  <2>2. d \in Wrappers
    BY DecisionIs
  <2>3. /\ u = [status |-> 0, body |-> <<>>] /\ v = [status |-> w.status, body |-> w.buf]
        /\ w.status # 0 => Final(w.status)
    BY <1>3 DEF HoldsBack, Unsent
  <2>4. Encoded(d, w.buf) \in Seq(Bytes)
    BY EncodedType DEF Wrappers
  <2> HIDE DEF d, r
  <2>5. <<>> \o Encoded(d, w.buf) = Encoded(d, w.buf)
    BY <2>4, ConcatEmptySeq
  <2>6. Then(u, r.c).body = Encoded(d, w.buf)
    BY <2>1, <2>3, <2>5 DEF Then
  <2>7. Then(u, r.c).status = IF Final(w.status) THEN w.status ELSE 200
    BY <2>1, <2>3 DEF Then
  <2>8. ~ Final(0)
    BY DEF Final
  <2>9. r.w = d /\ d.skip \in BOOLEAN /\ v.status = w.status /\ v.body = w.buf
    BY <2>1, <2>2, <2>3 DEF Wrappers
  <2> QED
    BY <2>3, <2>6, <2>7, <2>8, <2>9 DEF Encoded, r
<1> QED
  BY <1>1, <1>2, <1>3

LEMMA CloseShows ==
    ASSUME NEW w \in Wrappers, NEW v \in Views, NEW u \in Views, NEW e \in Encodings,
           ~ w.decided => HoldsBack(w, v, u), w.decided => PassesOn(w, v, u)
    PROVE  Then(u, close(w, e).c) = Finished(v, close(w, e).w.skip)
<1> DEFINE r == Rest(w, e)
           k == close(w, e)
<1>1. /\ r.w.skip \in BOOLEAN
      /\ Then(u, r.c).status = (IF v.status = 0 THEN 200 ELSE v.status)
      /\ Then(u, r.c).body = IF r.w.skip THEN v.body ELSE Gz(v.body)
  BY RestShows
<1>2. k.w = r.w /\ k.c = IF r.w.skip THEN r.c ELSE Trailer(r.c)
  BY ClosePart
<1>3. r.c \in Asks
  BY CloseIs DEF Answers
<1>4. /\ Trailer(r.c).code = r.c.code
      /\ Trailer(r.c).write /\ Trailer(r.c).bs = Append(r.c.bs, GzipEnd)
  BY <1>3, TrailerIs
<1>5. ~ r.w.skip => r.c.write \/ u.status # 0
  <2>1. CASE w.decided
    BY <2>1 DEF PassesOn
  <2>2. CASE ~ w.decided
    BY <2>2, RestIs
  <2> QED
    BY <2>1, <2>2
<1> HIDE DEF r, k
<1>6. CASE r.w.skip
  BY <1>1, <1>2, <1>6 DEF Finished, Then, k
<1>7. CASE ~ r.w.skip
  <2>1. k.c = Trailer(r.c) /\ k.w = r.w
    BY <1>2, <1>7
  <2>2. u.body \in Seq(Bytes) /\ r.c.bs \in Seq(Bytes) /\ GzipEnd \in Bytes
    BY <1>3 DEF Views, Asks, GzipEnd, Bytes
  <2>3. u.body \o Append(r.c.bs, GzipEnd) = Append(u.body \o r.c.bs, GzipEnd)
    BY ONLY <2>2, ConcatAppend
  <2>4. Then(u, k.c).body = Append(Gz(v.body), GzipEnd)
    BY <1>1, <1>4, <1>7, <2>1, <2>3 DEF Then
  <2>5. Then(u, k.c).status = Then(u, r.c).status
    BY <1>4, <1>5, <1>7, <2>1 DEF Then
  <2>6. Then(u, k.c) = [status |-> Then(u, k.c).status, body |-> Then(u, k.c).body]
    BY DEF Then
  <2>7. Finished(v, k.w.skip) = [status |-> IF v.status = 0 THEN 200 ELSE v.status,
                                 body |-> Append(Gz(v.body), GzipEnd)]
    BY <1>7, <2>1 DEF Finished
  <2> QED
    BY <1>1, <2>4, <2>5, <2>6, <2>7 DEF k
<1> QED
  BY <1>1, <1>6, <1>7

\* Its label.
LEMMA CloseLabel ==
    ASSUME NEW w \in Wrappers, NEW e \in Encodings
    PROVE  /\ w.decided => close(w, e).encoding = e /\ close(w, e).w = w
           /\ ~ w.decided => close(w, e).encoding = (IF close(w, e).w.skip THEN e ELSE "gzip")
           /\ ~ w.decided /\ ~ close(w, e).w.skip => e = ""
           /\ Final(close(w, e).c.code) => ~ w.decided
<1> DEFINE r == Rest(w, e)
           k == close(w, e)
<1>1. k.w = r.w /\ k.encoding = r.encoding /\ k.c.code = r.c.code
  BY ClosePart
<1>2. CASE w.decided
  <2>1. r = [w |-> w, encoding |-> e, c |-> Nothing]
    BY <1>2 DEF Rest
  <2>2. ~ Final(r.c.code)
    BY <2>1 DEF Nothing, Final
  <2> HIDE DEF r, k
  <2>3. k.encoding = e /\ k.w = w
    BY <1>1, <2>1
  <2> QED
    BY <1>1, <1>2, <2>2, <2>3 DEF k
<1>3. CASE ~ w.decided
  <2> DEFINE d == Decision(w, w.buf, e)
  <2>2. r.w = d /\ r.encoding = IF Skips(w.buf, e) THEN e ELSE "gzip"
    BY <1>3, RestIs
  <2>3. r.w.skip = Skips(w.buf, e)
    BY <2>2, DecisionIs
  <2>4. ~ Skips(w.buf, e) => e = ""
    BY DEF Skips
  <2> HIDE DEF r, k
  <2> QED
    BY <1>1, <1>3, <2>2, <2>3, <2>4 DEF k
<1> QED
  BY <1>2, <1>3

-----------------------------------------------------------------------------
(* Leaving the innermost layer.                                             *)

OuterViews(V, n) == [i \in 0..(n - 1) |-> V[i]]

LEMMA OuterLayers ==
    ASSUME NEW S, NEW L \in Seq(S), Len(L) > 0
    PROVE  /\ Outer(L) \in Seq(S) /\ Len(Outer(L)) = Len(L) - 1
           /\ \A i \in 1..(Len(L) - 1) : Outer(L)[i] = L[i]
<1>1. Len(L) \in Nat /\ 1 \in Int /\ Len(L) - 1 \in Int
  BY LenProperties
<1>2. \A i \in 1..(Len(L) - 1) : i \in 1..Len(L) /\ L[i] \in S
  BY <1>1, ElementOfSeq
<1>3. /\ SubSeq(L, 1, Len(L) - 1) \in Seq(S)
      /\ Len(SubSeq(L, 1, Len(L) - 1)) =
           IF 1 <= Len(L) - 1 THEN (Len(L) - 1) - 1 + 1 ELSE 0
      /\ \A i \in 1..((Len(L) - 1) - 1 + 1) : SubSeq(L, 1, Len(L) - 1)[i] = L[1 + i - 1]
  BY <1>1, <1>2, SubSeqProperties
<1>4. \A i \in 1..(Len(L) - 1) : i \in 1..((Len(L) - 1) - 1 + 1) /\ 1 + i - 1 = i
  BY <1>1
<1>5. Outer(L) = SubSeq(L, 1, Len(L) - 1)
  BY DEF Outer
<1>6. Outer(L) \in Seq(S) /\ \A i \in 1..(Len(L) - 1) : Outer(L)[i] = L[i]
  BY <1>3, <1>4, <1>5
<1>7. Len(Outer(L)) = Len(L) - 1
  <2> DEFINE n == Len(L)
             m == Len(Outer(L))
  <2>1. m = IF 1 <= n - 1 THEN (n - 1) - 1 + 1 ELSE 0
    BY <1>3, <1>5
  <2>2. n \in Nat /\ n > 0
    BY <1>1
  <2> HIDE DEF n, m
  <2>3. m = n - 1
    BY <2>1, <2>2
  <2> QED
    BY <2>3 DEF n, m
<1> QED
  BY <1>6, <1>7

LEMMA OuterStacked ==
    ASSUME NEW L, NEW R, NEW V, Stacked(L, R, V), Len(L) > 0, NEW e \in Encodings
    PROVE  /\ Stacked(Outer(L), [R EXCEPT !.encoding = e], OuterViews(V, Len(L)))
           /\ OuterViews(V, Len(L))[Len(Outer(L))] = V[Len(L) - 1]
<1> DEFINE n == Len(L)
           M == Outer(L)
           W == OuterViews(V, n)
           Q == [R EXCEPT !.encoding = e]
<1>1. /\ L \in Seq(Layers) /\ R \in Responses /\ V \in [0..n -> Views] /\ V[0] = Seen(R)
      /\ \A i \in 1..n : Shows(L[i], V[i], V[i - 1])
  BY DEF Stacked
<1>2. n \in Nat /\ n - 1 \in Nat
  BY <1>1, LenProperties
<1>3. M \in Seq(Layers) /\ Len(M) = n - 1 /\ \A i \in 1..(n - 1) : M[i] = L[i]
  BY <1>1, OuterLayers
<1>4. Q \in Responses /\ Seen(Q) = Seen(R)
  BY <1>1 DEF Responses, Seen
<1> HIDE DEF n, M, Q
<1>5. W \in [0..(n - 1) -> Views] /\ \A i \in 0..(n - 1) : W[i] = V[i]
  BY <1>1, <1>2 DEF OuterViews
<1> HIDE DEF W
<1>6. ASSUME NEW i \in 1..(n - 1) PROVE Shows(M[i], W[i], W[i - 1])
  <2>1. i \in 1..n /\ i \in 0..(n - 1) /\ i - 1 \in 0..(n - 1)
    BY <1>2
  <2> QED
    BY <1>1, <1>3, <1>5, <2>1
<1>7. W[0] = Seen(Q) /\ W[n - 1] = V[n - 1]
  BY <1>1, <1>2, <1>4, <1>5
<1>8. Stacked(M, Q, W)
  BY <1>3, <1>4, <1>5, <1>6, <1>7 DEF Stacked
<1> QED
  BY <1>3, <1>7, <1>8 DEF n, M, W, Q

\* Without a new label.
LEMMA OuterStackedSame ==
    ASSUME NEW L, NEW R, NEW V, Stacked(L, R, V), Len(L) > 0
    PROVE  /\ Stacked(Outer(L), R, OuterViews(V, Len(L)))
           /\ OuterViews(V, Len(L))[Len(Outer(L))] = V[Len(L) - 1]
<1>1. R \in Responses
  BY DEF Stacked
<1>2. R.encoding \in Encodings /\ [R EXCEPT !.encoding = R.encoding] = R
  BY <1>1 DEF Responses
<1> QED
  BY <1>2, OuterStacked

LEMMA OuterRecorded ==
    ASSUME NEW L \in Seq(Layers), NEW V, Len(L) > 0, Recorded(L, V)
    PROVE  Recorded(Outer(L), OuterViews(V, Len(L)))
<1>1. Len(L) \in Nat
  BY LenProperties
<1>2. Len(Outer(L)) = Len(L) - 1 /\ \A i \in 1..(Len(L) - 1) : Outer(L)[i] = L[i]
  BY OuterLayers
<1>3. ASSUME NEW i \in 1..(Len(L) - 1) PROVE Records(Outer(L)[i], OuterViews(V, Len(L))[i])
  <2>1. i \in 1..Len(L) /\ i \in 0..(Len(L) - 1)
    BY <1>1
  <2>2. OuterViews(V, Len(L))[i] = V[i]
    BY <2>1 DEF OuterViews
  <2> QED
    BY <1>2, <2>1, <2>2 DEF Recorded
<1> QED
  BY <1>2, <1>3 DEF Recorded

\* The label when a layer that does not compress is left.
LEMMA OuterLabelled ==
    ASSUME NEW L \in Seq(Layers), NEW R, NEW left \in BOOLEAN, Len(L) > 0,
           Labelled(L, R, left), ~ Zipping(L[Len(L)])
    PROVE  Labelled(Outer(L), R, left)
<1>1. Len(L) \in Nat
  BY LenProperties
<1>2. Len(Outer(L)) = Len(L) - 1 /\ \A i \in 1..(Len(L) - 1) : Outer(L)[i] = L[i]
  BY OuterLayers
<1>3. Zips(Outer(L)) = Zips(L)
  <2>1. 1..Len(L) = 1..(Len(L) - 1) \cup {Len(L)}
    BY <1>1
  <2> QED
    BY <1>2, <2>1 DEF Zips, Zipping
<1> QED
  BY <1>3 DEF Labelled

\* And when it is a gzipResponseWriter that is closed.
LEMMA ClosedLabelled ==
    ASSUME NEW L, NEW R, NEW V, Stacked(L, R, V), NEW left \in BOOLEAN, Len(L) > 0,
           Labelled(L, R, left), L[Len(L)].kind = "compress"
    PROVE  LET s == close(L[Len(L)].w, R.encoding)
           IN  /\ Labelled(Outer(L), [R EXCEPT !.encoding = s.encoding], left \/ ~ s.w.skip)
               /\ left => s.w.skip
<1> DEFINE n == Len(L)
           l == L[n]
           s == close(l.w, R.encoding)
           M == Outer(L)
           Q == [R EXCEPT !.encoding = s.encoding]
<1>1. /\ L \in Seq(Layers) /\ R \in Responses /\ V \in [0..n -> Views]
      /\ \A i \in 1..n : Shows(L[i], V[i], V[i - 1])
  BY DEF Stacked
<1>2. n \in Nat /\ n \in 1..n /\ n - 1 \in 0..n
  BY <1>1, LenProperties
<1>3. l \in Layers /\ l.w \in Wrappers /\ R.encoding \in Encodings
  <2>1. l \in Layers
    BY <1>1, <1>2, ElementOfSeq
  <2>2. R.encoding \in Encodings
    BY <1>1 DEF Responses
  <2> HIDE DEF l
  <2> QED
    BY <2>1, <2>2 DEF Layers
<1>4. /\ l.w.decided => s.encoding = R.encoding /\ s.w = l.w
      /\ ~ l.w.decided => s.encoding = (IF s.w.skip THEN R.encoding ELSE "gzip")
      /\ ~ l.w.decided /\ ~ s.w.skip => R.encoding = ""
  BY <1>3, CloseLabel
<1>5. Zipping(l) <=> l.w.decided /\ ~ l.w.skip
  BY DEF Zipping
<1>6. n \in Zips(L) <=> Zipping(l)
  BY <1>2 DEF Zips, Zipping
<1>7. Len(M) = n - 1 /\ \A i \in 1..(n - 1) : M[i] = L[i]
  BY <1>1, OuterLayers
<1>8. Zips(M) = Zips(L) \ {n}
  <2>1. 1..n = 1..(n - 1) \cup {n} /\ n \notin 1..(n - 1)
    BY <1>2
  <2> QED
    BY <1>7, <2>1 DEF Zips, n
<1>9. /\ R.encoding = "gzip" <=> left \/ Zips(L) # {}
      /\ left => Zips(L) = {}
      /\ \A i, j \in Zips(L) : i = j
      /\ R.status # 0 => R.sent = R.encoding
  BY DEF Labelled
<1>10. Q.encoding = s.encoding /\ Q.status = R.status /\ Q.sent = R.sent
  BY <1>1 DEF Responses
<1>11. ~ l.w.decided => R.status = 0
  <2> SUFFICES ASSUME ~ l.w.decided PROVE R.status = 0
    OBVIOUS
  <2>1. HoldsBack(l.w, V[n], V[n - 1])
    BY <1>1, <1>2 DEF Shows
  <2>2. V[n - 1].status = 0
    BY <2>1 DEF HoldsBack, Unsent
  <2> QED
    BY <1>2, <2>2, Unstarted
<1> HIDE DEF n, l, s, M, Q
<1>12. CASE l.w.decided /\ ~ l.w.skip
  <2>1. Zips(M) = {} /\ ~ left /\ R.encoding = "gzip"
    BY <1>5, <1>6, <1>8, <1>9, <1>12
  <2>2. s.encoding = R.encoding /\ ~ s.w.skip
    BY <1>4, <1>12
  <2>3. Labelled(M, Q, left \/ ~ s.w.skip)
    BY <1>9, <1>10, <2>1, <2>2 DEF Labelled
  <2> QED
    BY <2>1, <2>3 DEF n, l, s, M, Q
<1>13. CASE ~ l.w.decided /\ ~ s.w.skip
  <2>1. R.encoding = "" /\ s.encoding = "gzip" /\ R.status = 0
    BY <1>4, <1>11, <1>13
  <2>2. Zips(M) = {} /\ ~ left
    BY <1>8, <1>9, <2>1
  <2>3. Labelled(M, Q, left \/ ~ s.w.skip)
    BY <1>10, <1>13, <2>1, <2>2 DEF Labelled
  <2> QED
    BY <2>2, <2>3 DEF n, l, s, M, Q
<1>14. CASE s.w.skip
  <2>1. ~ Zipping(l)
    BY <1>4, <1>5, <1>14
  <2>2. Zips(M) = Zips(L) /\ s.encoding = R.encoding
    BY <1>4, <1>6, <1>8, <1>14, <2>1
  <2>3. Labelled(M, Q, left)
    BY <1>9, <1>10, <2>2 DEF Labelled
  <2>4. (left \/ ~ s.w.skip) = left
    BY <1>14
  <2>5. Labelled(M, Q, left \/ ~ s.w.skip)
    BY <2>3, <2>4
  <2> QED
    BY <1>14, <2>5 DEF n, l, s, M, Q
<1> QED
  BY <1>4, <1>12, <1>13, <1>14

-----------------------------------------------------------------------------
(* The handler.                                                             *)

\* The views after a call that keep everything said of the layers.
Kept(L, R, V, c, left) ==
    {W \in [0..Len(L) -> Views] :
        /\ Stacked(Call(L, R, c).L, Call(L, R, c).R, W) /\ W[Len(L)] = Then(V[Len(L)], c)
        /\ Labelled(Call(L, R, c).L, Call(L, R, c).R, left)
        /\ Recorded(L, V) /\ (Final(c.code) /\ V[Len(L)].status # 0 => Explicit(L)) =>
              Recorded(Call(L, R, c).L, W)
        /\ Explicit(L) \/ Final(c.code) => Explicit(Call(L, R, c).L)
        /\ Len(Call(L, R, c).L) = Len(L)
        /\ \A i \in 1..Len(L) : Call(L, R, c).L[i].kind = L[i].kind}

LEMMA CallKeeps ==
    ASSUME NEW L, NEW R, NEW V, NEW c \in Asks, Stacked(L, R, V), NEW left \in BOOLEAN,
           Labelled(L, R, left)
    PROVE  Kept(L, R, V, c, left) # {}
<1> DEFINE M == Call(L, R, c).L
           Q == Call(L, R, c).R
<1>1. PICK b \in Runs(L, R, c) : TRUE
  <2>1. L \in Seq(Layers) /\ R \in Responses
    BY DEF Stacked
  <2> QED
    BY <2>1, CallRuns
<1> DEFINE W == After(V, b)
<1>2. /\ Stacked(M, Q, W) /\ W[Len(L)] = Then(V[Len(L)], c) /\ Len(M) = Len(L)
      /\ \A i \in 1..Len(L) : M[i].kind = L[i].kind
  BY CallShows
<1>3. Labelled(M, Q, left)
  BY CallLabels
<1>4. Recorded(L, V) /\ (Final(c.code) /\ V[Len(L)].status # 0 => Explicit(L)) => Recorded(M, W)
  BY CallRecords
<1>5. Explicit(L) \/ Final(c.code) => Explicit(M)
  BY CallExplicit
<1> HIDE DEF M, Q, W
<1>6. W \in [0..Len(L) -> Views]
  BY <1>2 DEF Stacked
<1>7. W \in Kept(L, R, V, c, left)
  BY <1>2, <1>3, <1>4, <1>5, <1>6 DEF Kept, M, Q
<1> QED
  BY <1>7

\* Bytes as the handler writes them.
LEMMA PlainIs == Seq(PlainBytes) \subseteq Seq(Bytes)
<1>1. PlainBytes \subseteq Bytes
  BY DEF PlainBytes, Bytes
<1> QED
  BY <1>1, SeqMonotonic

\* What the handler's calls may do to status, in HandlerWriteHeader and the others.
Set(c) ==
    /\ status' \in {"unset", "explicit", "late"}
    /\ status' # "late" =>
         status # "late" /\ (Final(c.code) /\ bare.status # 0 => status = "explicit")
    /\ status' = "explicit" => status = "explicit" \/ Final(c.code)
    /\ status' = "late" => bare.status # 0

LEMMA BareStep ==
    ASSUME WTyped, NEW c \in Asks, c.bs \in Seq(PlainBytes)
    PROVE  LET R == Serve(bare, c)
           IN  /\ R \in Responses /\ Seen(R) = Then(Seen(bare), c)
               /\ R.body \in Seq(PlainBytes) /\ (R.status = 0 => R.body = <<>>)
               /\ bare.status # 0 => R.status # 0
<1> DEFINE R == Serve(bare, c)
<1>1. bare \in Responses /\ bare.body \in Seq(PlainBytes) /\ (bare.status = 0 => bare.body = <<>>)
  BY DEF WTyped
<1>2. R \in Responses /\ Seen(R) = Then(Seen(bare), c)
  BY <1>1, ServeIs
<1> HIDE DEF R
<1>3. /\ R.body = bare.body \o c.bs
      /\ R.status = IF bare.status # 0 THEN bare.status
                    ELSE IF Final(c.code) THEN c.code
                    ELSE IF c.write \/ c.flush THEN 200 ELSE 0
  BY <1>2 DEF Seen, Then
<1>4. R.body \in Seq(PlainBytes)
  BY <1>1, <1>3, ConcatProperties
<1>5. R.status = 0 => R.body = <<>>
  <2> SUFFICES ASSUME R.status = 0 PROVE R.body = <<>>
    OBVIOUS
  <2>1. bare.status = 0 /\ ~ c.write
    BY <1>3 DEF Final
  <2>2. bare.body = <<>> /\ c.bs = <<>>
    BY <1>1, <2>1 DEF Asks
  <2>3. <<>> \in Seq(Bytes)
    BY EmptySeq
  <2>4. <<>> \o <<>> = <<>>
    BY <2>3, ConcatEmptySeq
  <2> QED
    BY <1>3, <2>2, <2>4
<1> QED
  BY <1>2, <1>3, <1>4, <1>5 DEF R

\* The handler's calls.
LEMMA HandlerStep ==
    ASSUME WTyped, Fits, NEW V, Serving(V), NEW c \in Asks, c.bs \in Seq(PlainBytes),
           HandlerCalls(c), Set(c), written' \in Nat
    PROVE  WTyped' /\ Fits' /\ \E W : Serving(W)'
<1>1. /\ ~ panicked /\ logged = <<>> /\ Len(layers) = Len(chain)
      /\ Stacked(layers, resp, V) /\ V[Len(layers)] = Seen(bare)
      /\ Labelled(layers, resp, FALSE)
      /\ status # "late" => Recorded(layers, V)
      /\ status = "explicit" => Explicit(layers)
  BY DEF Serving
<1>2. PICK n : n = Len(layers)
  OBVIOUS
<1>3. PICK W \in Kept(layers, resp, V, c, FALSE) : TRUE
  BY <1>1, CallKeeps
<1>4. /\ layers' = Call(layers, resp, c).L /\ resp' = Call(layers, resp, c).R
      /\ bare' = Serve(bare, c) /\ calls' = calls + 1
      /\ UNCHANGED <<chain, phase, ctype, panicked, logged, pools, served>>
  BY DEF HandlerCalls, Store
<1>5. /\ Stacked(layers', resp', W) /\ W[n] = Then(V[n], c)
      /\ Labelled(layers', resp', FALSE)
      /\ Recorded(layers, V) /\ (Final(c.code) /\ V[n].status # 0 => Explicit(layers)) =>
            Recorded(layers', W)
      /\ Explicit(layers) \/ Final(c.code) => Explicit(layers')
      /\ Len(layers') = n
      /\ \A i \in 1..n : layers'[i].kind = layers[i].kind
  BY <1>2, <1>3, <1>4 DEF Kept
<1>6. /\ bare' \in Responses /\ Seen(bare') = Then(Seen(bare), c)
      /\ bare'.body \in Seq(PlainBytes) /\ (bare'.status = 0 => bare'.body = <<>>)
      /\ bare.status # 0 => bare'.status # 0
  BY <1>4, BareStep
<1>7. WTyped'
  <2>1. layers' \in Seq(Layers) /\ resp' \in Responses
    BY <1>5 DEF Stacked
  <2>2. status' \in {"unset", "explicit", "late"} /\ (status' = "late" => bare'.status # 0)
    BY <1>6 DEF Set
  <2>3. calls' \in Nat
    BY <1>4 DEF WTyped
  <2> QED
    BY <1>4, <1>6, <2>1, <2>2, <2>3 DEF WTyped
<1>8. Fits'
  BY <1>2, <1>4, <1>5 DEF Fits
<1>9. V[n].status = bare.status
  BY <1>1, <1>2 DEF Seen
<1>10. status' # "late" => Recorded(layers', W)
  BY <1>1, <1>5, <1>9 DEF Set
<1>11. status' = "explicit" => Explicit(layers')
  BY <1>1, <1>5 DEF Set
<1>12. W[n] = Seen(bare')
  BY <1>1, <1>2, <1>5, <1>6
<1>13. Serving(W)'
  BY <1>1, <1>2, <1>4, <1>5, <1>10, <1>11, <1>12 DEF Serving
<1> QED
  BY <1>7, <1>8, <1>13

LEMMA WriteHeaderStep ==
    ASSUME WTyped, Fits, NEW V, Serving(V), HandlerWriteHeader
    PROVE  WTyped' /\ Fits' /\ \E W : Serving(W)'
<1>1. PICK code \in Codes :
        /\ HandlerCalls([Nothing EXCEPT !.code = code])
        /\ status' = IF ~ Final(code) \/ status = "explicit" THEN status
                     ELSE IF bare.status = 0 THEN "explicit" ELSE "late"
  BY DEF HandlerWriteHeader
<1> DEFINE c == [Nothing EXCEPT !.code = code]
<1>2. code \in Nat
  BY WSizes
<1>3. c \in Asks /\ c.code = code /\ c.bs = <<>>
  <2>1. <<>> \in Seq(Bytes)
    BY EmptySeq
  <2> QED
    BY <1>2, <2>1 DEF Nothing, Asks
<1>4. c.bs \in Seq(PlainBytes)
  BY <1>3, EmptySeq
<1>5. written' \in Nat
  BY DEF HandlerWriteHeader, WTyped
<1>6. HandlerCalls(c)
  BY <1>1
<1> HIDE DEF c
<1>7. status \in {"unset", "explicit", "late"} /\ (status = "late" => bare.status # 0)
  BY DEF WTyped
<1>8. Set(c)
  BY <1>1, <1>3, <1>7 DEF Set
<1> QED
  BY <1>3, <1>4, <1>5, <1>6, <1>8, HandlerStep

LEMMA WriteStep ==
    ASSUME WTyped, Fits, NEW V, Serving(V), HandlerWrite
    PROVE  WTyped' /\ Fits' /\ \E W : Serving(W)'
<1>1. PICK n \in ChunkSizes :
        /\ HandlerCalls([Nothing EXCEPT !.write = TRUE,
                                        !.bs = [k \in 1..n |-> Byte(written + k)]])
        /\ written' = written + n
  BY DEF HandlerWrite
<1> DEFINE bs == [k \in 1..n |-> Byte(written + k)]
           c == [Nothing EXCEPT !.write = TRUE, !.bs = bs]
<1>2. n \in Nat /\ written \in Nat
  BY WSizes DEF WTyped
<1>3. bs \in Seq(PlainBytes)
  <2>1. ASSUME NEW k \in 1..n PROVE Byte(written + k) \in PlainBytes
    BY <1>2 DEF Byte, PlainBytes
  <2>2. bs \in [1..n -> PlainBytes]
    BY <2>1
  <2> QED
    BY <1>2, <2>2, SeqDef
<1> HIDE DEF bs
<1>4. bs \in Seq(Bytes)
  BY <1>3, PlainIs
<1>5. c \in Asks /\ c.code = 0 /\ c.bs = bs
  BY <1>4 DEF Nothing, Asks
<1>6. written' \in Nat
  BY <1>1, <1>2
<1>7. HandlerCalls(c)
  BY <1>1 DEF bs
<1> HIDE DEF c
<1>8. /\ status \in {"unset", "explicit", "late"} /\ (status = "late" => bare.status # 0)
      /\ status' = status
  BY DEF WTyped, HandlerWrite
<1>9. Set(c)
  BY <1>5, <1>8 DEF Set, Final
<1> QED
  BY <1>3, <1>5, <1>6, <1>7, <1>9, HandlerStep

LEMMA FlushStep ==
    ASSUME WTyped, Fits, NEW V, Serving(V), HandlerFlush
    PROVE  WTyped' /\ Fits' /\ \E W : Serving(W)'
<1> DEFINE c == [Nothing EXCEPT !.flush = TRUE]
<1>1. c \in Asks /\ c.code = 0 /\ c.bs = <<>>
  <2>1. <<>> \in Seq(Bytes)
    BY EmptySeq
  <2> QED
    BY <2>1 DEF Nothing, Asks
<1>2. c.bs \in Seq(PlainBytes)
  BY <1>1, EmptySeq
<1>3. HandlerCalls(c) /\ status' = status /\ written' = written
  BY DEF HandlerFlush
<1> HIDE DEF c
<1>4. /\ status \in {"unset", "explicit", "late"} /\ (status = "late" => bare.status # 0)
      /\ written \in Nat
  BY DEF WTyped
<1>5. Set(c)
  BY <1>1, <1>3, <1>4 DEF Set, Final
<1> QED
  BY <1>1, <1>2, <1>3, <1>4, <1>5, HandlerStep

LEMMA ReturnsStep ==
    ASSUME WTyped, Fits, NEW V, Serving(V), HandlerReturns
    PROVE  WTyped' /\ Fits' /\ Unwinding(V, FALSE)'
<1>1. /\ phase' = "return"
      /\ UNCHANGED <<chain, layers, resp, bare, ctype, calls, written, status, panicked,
                     logged, pools, served>>
  BY DEF HandlerReturns
<1>2. WTyped'
  BY <1>1 DEF WTyped
<1>3. Fits'
  BY <1>1 DEF Fits
<1>4. ~ panicked' /\ logged' = <<>> /\ V[Len(layers')] = Seen(bare')
  BY <1>1 DEF Serving
<1>5. Wanted' = Seen(bare')
  BY <1>4 DEF Wanted
<1>6. Carries(V[Len(layers)], FALSE)'
  BY <1>4, <1>5 DEF Carries
<1>7. Stacked(layers, resp, V)' /\ Labelled(layers, resp, FALSE)'
  BY <1>1 DEF Serving
<1>8. (status # "late" => Recorded(layers, V) /\ Logged(V[Len(layers)]))'
  <2>1. (\A k \in 1..Len(logged) : FALSE)'
    <3>1. Len(logged') = 0
      BY <1>4, EmptySeq
    <3> QED
      BY <3>1
  <2> QED
    BY <1>1, <2>1 DEF Serving, Logged
<1>9. Unwinding(V, FALSE)'
  BY <1>1, <1>6, <1>7, <1>8 DEF Unwinding
<1> QED
  BY <1>2, <1>3, <1>9

LEMMA PanicsStep ==
    ASSUME WTyped, Fits, NEW V, Serving(V), HandlerPanics
    PROVE  WTyped' /\ Fits' /\ Unwinding(V, FALSE)'
<1>1. /\ phase' = "panic" /\ panicked'
      /\ UNCHANGED <<chain, layers, resp, bare, ctype, calls, written, status,
                     logged, pools, served>>
  BY DEF HandlerPanics
<1>2. WTyped'
  BY <1>1 DEF WTyped, HandlerPanics
<1>3. Fits'
  BY <1>1 DEF Fits
<1>4. logged' = <<>> /\ V[Len(layers')] = Seen(bare') /\ Len(layers') = Len(chain')
  BY <1>1 DEF Serving
<1>5. Wanted' = Seen(bare')
  BY <1>1 DEF Wanted
<1>6. Carries(V[Len(layers)], FALSE)'
  BY <1>4, <1>5 DEF Carries
<1>7. Stacked(layers, resp, V)' /\ Labelled(layers, resp, FALSE)'
  BY <1>1 DEF Serving
<1>8. (status # "late" => Recorded(layers, V) /\ Logged(V[Len(layers)]))'
  <2>1. (\A k \in 1..Len(logged) : FALSE)'
    <3>1. Len(logged') = 0
      BY <1>4, EmptySeq
    <3> QED
      BY <3>1
  <2> QED
    BY <1>1, <2>1 DEF Serving, Logged
<1>9. Without("recoverer", Len(layers) + 1)'
  <2>1. chain \in Seq(LayerKinds)
    BY WSizes DEF WTyped
  <2>2. Len(chain) \in Nat
    BY <2>1, LenProperties
  <2>3. \A j \in (Len(layers') + 1)..Len(chain') : FALSE
    BY <1>1, <1>4, <2>2
  <2> QED
    BY <2>3 DEF Without
<1>10. Unwinding(V, FALSE)'
  BY <1>1, <1>4, <1>6, <1>7, <1>8, <1>9 DEF Unwinding
<1> QED
  BY <1>2, <1>3, <1>10

-----------------------------------------------------------------------------
(* Unwinding.                                                               *)

LEMMA RecycleKeeps ==
    ASSUME WTyped, NEW k \in LayerKinds, NEW w \in Wrappers, k = "compress" => w = Blank,
           Recycle(k, w)
    PROVE  pools' \in [LayerKinds -> SUBSET Wrappers] /\ pools'["compress"] \subseteq {Blank}
<1>1. pools \in [LayerKinds -> SUBSET Wrappers] /\ pools["compress"] \subseteq {Blank}
  BY DEF WTyped
<1>2. pools' = [pools EXCEPT ![k] = @ \cup {w}]
  BY DEF Recycle
<1>3. "compress" \in LayerKinds
  BY DEF LayerKinds
<1>4. pools' \in [LayerKinds -> SUBSET Wrappers]
  BY <1>1, <1>2
<1>5. pools'["compress"] \subseteq {Blank}
  <2>1. CASE k = "compress"
    BY <1>1, <1>2, <1>3, <2>1
  <2>2. CASE k # "compress"
    BY <1>1, <1>2, <1>3, <2>2
  <2> QED
    BY <2>1, <2>2
<1> QED
  BY <1>4, <1>5

\* The layers outside one that does not compress.
LEMMA OuterKeeps ==
    ASSUME NEW L, NEW R, NEW V, Stacked(L, R, V), NEW left \in BOOLEAN, Len(L) > 0,
           Labelled(L, R, left), L[Len(L)].kind # "compress"
    PROVE  /\ Stacked(Outer(L), R, OuterViews(V, Len(L)))
           /\ OuterViews(V, Len(L))[Len(Outer(L))] = V[Len(L)]
           /\ Labelled(Outer(L), R, left)
           /\ Recorded(L, V) => Recorded(Outer(L), OuterViews(V, Len(L)))
<1>1. L \in Seq(Layers) /\ \A i \in 1..Len(L) : Shows(L[i], V[i], V[i - 1])
  BY DEF Stacked
<1>2. Len(L) \in 1..Len(L)
  BY <1>1, LenProperties
<1>3. V[Len(L)] = V[Len(L) - 1]
  BY <1>1, <1>2 DEF Shows
<1>4. /\ Stacked(Outer(L), R, OuterViews(V, Len(L)))
      /\ OuterViews(V, Len(L))[Len(Outer(L))] = V[Len(L) - 1]
  BY OuterStackedSame
<1>5. ~ Zipping(L[Len(L)])
  BY DEF Zipping
<1>6. Labelled(Outer(L), R, left)
  BY <1>1, <1>5, OuterLabelled
<1>7. Recorded(L, V) => Recorded(Outer(L), OuterViews(V, Len(L)))
  BY <1>1, OuterRecorded
<1> QED
  BY <1>3, <1>4, <1>6, <1>7

\* The layer that is left has its place in the chain.
LEMMA Placed ==
    ASSUME WTyped, Fits, Len(layers) > 0
    PROVE  /\ Len(layers) \in Nat /\ Len(chain) \in Nat /\ Len(layers) \in 1..Len(chain)
           /\ Inner.kind # "aside" => chain[Len(layers)] = Inner.kind
           /\ Inner.kind = "aside" => chain[Len(layers)] = "compress"
           /\ Inner \in Layers /\ Inner.w \in Wrappers
<1>1. Len(layers) \in Nat /\ Len(chain) \in Nat
  <2>1. chain \in Seq(LayerKinds) /\ layers \in Seq(Layers)
    BY WSizes DEF WTyped
  <2> QED
    BY <2>1, LenProperties
<1>2. Len(layers) \in 1..Len(layers) /\ Len(layers) \in 1..Len(chain)
  BY <1>1 DEF Fits
<1>3. Inner \in Layers
  BY <1>2, ElementOfSeq DEF Inner, WTyped
<1>4. \/ Inner.kind = chain[Len(layers)]
      \/ Inner.kind = "aside" /\ chain[Len(layers)] = "compress"
  BY <1>2 DEF Fits, Inner
<1>5. chain[Len(layers)] \in LayerKinds
  <2>1. chain \in Seq(LayerKinds)
    BY WSizes DEF WTyped
  <2> QED
    BY <1>2, <2>1, ElementOfSeq
<1> QED
  BY <1>1, <1>2, <1>3, <1>4, <1>5 DEF Layers, LayerKinds

\* The chain beyond the layers that are left.
LEMMA WithoutLess ==
    ASSUME NEW n \in Nat, NEW k, Len(chain) \in Nat
    PROVE  /\ Without(k, n) => Without(k, n + 1)
           /\ Without(k, n + 1) /\ n \in 1..Len(chain) /\ chain[n] # k => Without(k, n)
<1>1. Without(k, n) => Without(k, n + 1)
  <2>1. \A j \in (n + 1)..Len(chain) : j \in n..Len(chain)
    OBVIOUS
  <2> QED
    BY <2>1 DEF Without
<1>2. Without(k, n + 1) /\ n \in 1..Len(chain) /\ chain[n] # k => Without(k, n)
  <2>1. \A j \in n..Len(chain) : j = n \/ j \in (n + 1)..Len(chain)
    OBVIOUS
  <2> QED
    BY <2>1 DEF Without
<1> QED
  BY <1>1, <1>2

LEMMA FitsOuter ==
    ASSUME WTyped, Fits, Len(layers) > 0, chain' = chain, Len(layers') = Len(layers) - 1,
           \A i \in 1..(Len(layers) - 1) : layers'[i].kind = layers[i].kind
    PROVE  Fits'
<1>1. Len(layers) \in Nat /\ Len(chain) \in Nat
  BY Placed
<1>2. \A i \in 1..(Len(layers) - 1) : i \in 1..Len(layers)
  BY <1>1
<1> QED
  BY <1>1, <1>2 DEF Fits

\* A layer is left that neither compresses nor changes what the client gets.
LEMMA LeaveKeeps ==
    ASSUME WTyped, Fits, NEW V, NEW left \in BOOLEAN, Unwinding(V, left), Len(layers) > 0,
           Inner.kind # "compress", layers' = Outer(layers), resp' = resp,
           phase \in {"return", "panic"}, phase' = phase,
           UNCHANGED <<chain, bare, panicked, status>>,
           NEW v, v = V[Len(layers)], status # "late" => Logged(v)',
           phase = "panic" => Inner.kind # "recoverer" /\ logged' = logged
    PROVE  Fits' /\ \E W : \E l \in BOOLEAN : Unwinding(W, l)'
<1>1. PICK n : n = Len(layers)
  OBVIOUS
<1> DEFINE W == OuterViews(V, n)
<1>2. /\ n \in Nat /\ Len(chain) \in Nat /\ n \in 1..Len(chain)
      /\ Inner.kind # "aside" => chain[n] = Inner.kind
      /\ Inner.kind = "aside" => chain[n] = "compress"
  BY <1>1, Placed
<1>3. /\ phase = "panic" => panicked /\ logged = <<>> /\ Without("recoverer", n + 1)
      /\ Stacked(layers, resp, V) /\ Labelled(layers, resp, left)
      /\ left => ~ Without("compress", n + 1)
      /\ Known => Carries(V[n], left)
      /\ status # "late" => Recorded(layers, V) /\ Logged(V[n])
  BY <1>1 DEF Unwinding
<1>4. /\ Stacked(layers', resp', W) /\ W[Len(layers')] = V[n] /\ Labelled(layers', resp', left)
      /\ Recorded(layers, V) => Recorded(layers', W)
  BY <1>1, <1>3, OuterKeeps DEF Inner
<1>5. Len(layers') = n - 1 /\ \A i \in 1..(n - 1) : layers'[i] = layers[i]
  BY <1>1, OuterLayers DEF WTyped
<1>6. Fits'
  BY <1>1, <1>5, FitsOuter
<1>7. Len(layers') + 1 = n
  BY <1>2, <1>5
<1>8. \A k : (Without(k, n) <=> Without(k, n)') /\ (Without(k, n) => Without(k, n + 1))
  BY <1>2, WithoutLess DEF Without
<1>9. ASSUME phase' = "panic"
      PROVE  panicked' /\ logged' = <<>> /\ Without("recoverer", Len(layers) + 1)'
  <2>1. chain[n] # "recoverer" /\ Without("recoverer", n + 1)
    BY <1>2, <1>3, <1>9
  <2>2. Without("recoverer", n)
    BY <1>2, <2>1, WithoutLess
  <2>3. Without("recoverer", n)'
    BY <1>8, <2>2
  <2>4. Without("recoverer", Len(layers) + 1)'
    BY <1>7, <2>3
  <2> QED
    BY <1>3, <1>9, <2>4
<1>10. left => ~ Without("compress", Len(layers) + 1)'
  <2>1. left => ~ Without("compress", n)'
    BY <1>3, <1>8
  <2> QED
    BY <1>7, <2>1
<1>11. Wanted' = Wanted
  BY DEF Wanted
<1>12. Known' => Known
  <2>1. Without("compress", Len(layers) + 1)' => Without("compress", Len(layers) + 1)
    BY <1>1, <1>7, <1>8
  <2>2. ASSUME NEW i PROVE Without("compress", i)' <=> Without("compress", i)
    BY DEF Without
  <2> QED
    BY <2>1, <2>2 DEF Known
<1> HIDE DEF W
<1>13. Known' => Carries(W[Len(layers)], left)'
  <2>1. Known' => Carries(V[n], left)
    BY <1>3, <1>12
  <2> QED
    BY <1>4, <1>11, <2>1 DEF Carries
<1>14. (status # "late" => Recorded(layers, W) /\ Logged(W[Len(layers)]))'
    BY <1>1, <1>3, <1>4 DEF Logged
<1>15. Unwinding(W, left)'
  BY <1>4, <1>9, <1>10, <1>13, <1>14 DEF Unwinding
<1> QED
  BY <1>6, <1>15

LEMMA LoggerStep ==
    ASSUME WTyped, Fits, NEW V, NEW left \in BOOLEAN, Unwinding(V, left), LeaveLogger
    PROVE  WTyped' /\ Fits' /\ \E W : \E l \in BOOLEAN : Unwinding(W, l)'
<1>1. /\ phase \in {"return", "panic"} /\ Len(layers) > 0 /\ Inner.kind = "logger"
      /\ layers' = Outer(layers) /\ resp' = resp /\ phase' = phase
      /\ UNCHANGED <<chain, bare, ctype, calls, written, status, panicked, served>>
  BY DEF LeaveLogger, In, Aside
<1>2. Inner \in Layers /\ Inner.w \in Wrappers
  BY <1>1, Placed
<1>3. IF phase = "return"
      THEN /\ logged' = Append(logged, Inner.w.status)
           /\ Recycle("logger", [Inner.w EXCEPT !.status = 0, !.wroteHeader = FALSE])
      ELSE UNCHANGED <<logged, pools>>
  BY DEF LeaveLogger
<1>4. WTyped'
  <2>1. logged \in Seq(Nat) /\ Inner.w.status \in Nat
    BY <1>2 DEF WTyped, Wrappers
  <2>2. logged' \in Seq(Nat)
    BY <1>3, <2>1, AppendProperties
  <2>3. [Inner.w EXCEPT !.status = 0, !.wroteHeader = FALSE] \in Wrappers
    BY <1>2 DEF Wrappers
  <2>4. pools' \in [LayerKinds -> SUBSET Wrappers] /\ pools'["compress"] \subseteq {Blank}
    <3>1. CASE phase = "return"
      <4>1. "logger" \in LayerKinds
        BY DEF LayerKinds
      <4> QED
        BY <1>3, <2>3, <3>1, <4>1, RecycleKeeps
    <3>2. CASE phase # "return"
      BY <1>3, <3>2 DEF WTyped
    <3> QED
      BY <3>1, <3>2
  <2>5. layers' \in Seq(Layers)
    BY <1>1, OuterLayers DEF WTyped
  <2> QED
    BY <1>1, <2>2, <2>4, <2>5 DEF WTyped
<1> PICK v : v = V[Len(layers)]
  OBVIOUS
<1>5. status # "late" => Logged(v)'
  <2> SUFFICES ASSUME status # "late" PROVE Logged(v)'
    OBVIOUS
  <2>2. Recorded(layers, V) /\ \A k \in 1..Len(logged) :
                                  logged[k] = IF v.status = 0 THEN 200 ELSE v.status
    BY DEF Unwinding, Logged
  <2>3. CASE phase = "return"
    <3>1. Len(layers) \in 1..Len(layers)
      BY <1>1, Placed
    <3>2. Records(Inner, v)
      BY <2>2, <3>1 DEF Recorded, Inner
    <3>3. Inner.w.status = IF v.status = 0 THEN 200 ELSE v.status
      BY <1>1, <3>2 DEF Records
    <3>4. logged \in Seq(Nat) /\ Inner.w.status \in Nat /\ logged' = Append(logged, Inner.w.status)
      BY <1>2, <1>3, <2>3 DEF WTyped, Wrappers
    <3>5. /\ Len(logged') = Len(logged) + 1 /\ Len(logged) \in Nat
          /\ \A k \in 1..Len(logged) : logged'[k] = logged[k]
          /\ logged'[Len(logged) + 1] = Inner.w.status
      BY <3>4, AppendProperties, LenProperties
    <3>6. \A k \in 1..(Len(logged) + 1) : k \in 1..Len(logged) \/ k = Len(logged) + 1
      BY <3>5
    <3>7. \A k \in 1..Len(logged') : logged'[k] = IF v.status = 0 THEN 200 ELSE v.status
      BY <2>2, <3>3, <3>5, <3>6
    <3> QED
      BY <3>7 DEF Logged
  <2>4. CASE phase # "return"
    BY <1>3, <2>2, <2>4 DEF Logged
  <2> QED
    BY <2>3, <2>4
<1>6. phase = "panic" => Inner.kind # "recoverer" /\ logged' = logged
  BY <1>1, <1>3
<1>7. Fits' /\ \E W : \E l \in BOOLEAN : Unwinding(W, l)'
  BY <1>1, <1>5, <1>6, LeaveKeeps
<1> QED
  BY <1>4, <1>7

LEMMA AsideStep ==
    ASSUME WTyped, Fits, NEW V, NEW left \in BOOLEAN, Unwinding(V, left), LeaveAside
    PROVE  WTyped' /\ Fits' /\ \E W : \E l \in BOOLEAN : Unwinding(W, l)'
<1>1. /\ phase \in {"return", "panic"} /\ Len(layers) > 0 /\ Inner.kind = "aside"
      /\ layers' = Outer(layers) /\ resp' = resp /\ phase' = phase
      /\ UNCHANGED <<chain, bare, ctype, calls, written, status, panicked, served, logged, pools>>
  BY DEF LeaveAside, In, Aside
<1>2. layers' \in Seq(Layers)
  BY <1>1, OuterLayers DEF WTyped
<1>3. WTyped'
  BY <1>1, <1>2 DEF WTyped
<1> PICK v : v = V[Len(layers)]
  OBVIOUS
<1>4. status # "late" => Logged(v)'
  BY <1>1 DEF Unwinding, Logged
<1>5. Fits' /\ \E W : \E l \in BOOLEAN : Unwinding(W, l)'
  BY <1>1, <1>4, LeaveKeeps
<1> QED
  BY <1>3, <1>5

\* What a Recoverer that no Compress follows finds, if nothing was sent.
LEMMA PanicFinds ==
    ASSUME WTyped, Fits, NEW V, NEW left \in BOOLEAN, Unwinding(V, left), Len(layers) > 0,
           phase = "panic", bare.status = 0,
           NEW i \in 1..Len(chain), chain[i] = "recoverer", Without("compress", i)
    PROVE  ~ left /\ V[Len(layers)].status = 0 /\ V[Len(layers)].body = <<>>
<1> DEFINE n == Len(layers)
<1>1. n \in Nat /\ Len(chain) \in Nat
  BY Placed
<1>2. /\ Without("recoverer", n + 1) /\ (left => ~ Without("compress", n + 1))
      /\ Known => Carries(V[n], left)
  BY DEF Unwinding
<1> HIDE DEF n
<1>3. i <= n
  <2> SUFFICES ASSUME i > n PROVE FALSE
    BY <1>1
  <2>1. i \in (n + 1)..Len(chain)
    BY <1>1
  <2> QED
    BY <1>2, <2>1 DEF Without
<1>4. Without("compress", n + 1)
  <2>1. \A j \in (n + 1)..Len(chain) : j \in i..Len(chain)
    BY <1>1, <1>3
  <2> QED
    BY <2>1 DEF Without
<1>5. ~ left
  BY <1>2, <1>4
<1>6. Carries(V[n], left)
  BY <1>2, <1>4 DEF Known, n
<1>7. Wanted = Seen(bare) /\ bare.body = <<>>
  BY DEF Wanted, WTyped
<1>8. V[n].body = <<>> /\ V[n].status = 0
  BY <1>5, <1>6, <1>7 DEF Carries, Seen
<1> QED
  BY <1>5, <1>8 DEF n

\* What a Recoverer leaves of a panic.
LEMMA RecoveredUnwinds ==
    ASSUME WTyped, Fits, NEW V, NEW left \in BOOLEAN, Unwinding(V, left), Len(layers) > 0,
           phase = "panic", phase' = "return", UNCHANGED <<chain, bare, panicked, status, logged>>,
           NEW W, Stacked(layers', resp', W), Labelled(layers', resp', left),
           Len(layers') = Len(layers) - 1, status # "late" => Recorded(layers', W),
           NEW x, x = W[Len(layers')],
           bare.status # 0 => x = V[Len(layers)],
           bare.status = 0 => \A i \in 1..Len(chain) :
              chain[i] = "recoverer" /\ Without("compress", i) =>
                 ~ left /\ x = [status |-> 500, body |-> <<ErrText>>]
    PROVE  Unwinding(W, left)'
<1>1. PICK n : n = Len(layers)
  OBVIOUS
<1>2. n \in Nat /\ Len(chain) \in Nat
  BY <1>1, Placed
<1>3. /\ panicked /\ logged = <<>> /\ (left => ~ Without("compress", n + 1))
      /\ Known => Carries(V[n], left)
  BY <1>1 DEF Unwinding
<1>4. left => ~ Without("compress", Len(layers) + 1)'
  <2>1. Len(layers') + 1 = n
    BY <1>1, <1>2
  <2>2. Without("compress", n)' => Without("compress", n + 1)
    BY <1>2, WithoutLess DEF Without
  <2> QED
    BY <1>3, <2>1, <2>2
<1>5. Known' => Carries(W[Len(layers)], left)'
  <2> SUFFICES ASSUME Known' PROVE Carries(x, left)'
    BY DEF Carries
  <2>1. CASE bare.status # 0
    <3>1. Carries(V[n], left) /\ x = V[n]
      BY <1>1, <1>3, <2>1 DEF Known
    <3>2. Wanted' = Seen(bare) /\ Wanted = Seen(bare)
      BY <2>1 DEF Wanted
    <3> QED
      BY <3>1, <3>2 DEF Carries
  <2>2. CASE bare.status = 0
    <3>1. PICK i \in 1..Len(chain) : chain[i] = "recoverer" /\ Without("compress", i)
      <4>1. \E i \in 1..Len(chain') : chain'[i] = "recoverer" /\ Without("compress", i)'
        BY <1>3, <2>2 DEF Known
      <4>2. \A i : Without("compress", i)' <=> Without("compress", i)
        BY DEF Without
      <4> QED
        BY <4>1, <4>2
    <3>2. ~ left /\ x = [status |-> 500, body |-> <<ErrText>>]
      BY <2>2, <3>1
    <3>3. Wanted' = [status |-> 500, body |-> <<ErrText>>]
      BY <1>3, <2>2 DEF Wanted
    <3> QED
      BY <3>2, <3>3 DEF Carries
  <2> QED
    BY <2>1, <2>2
<1>6. Logged(W[Len(layers)])'
  <2>1. Len(logged') = 0
    BY <1>3, EmptySeq
  <2>2. \A k \in 1..Len(logged') : FALSE
    BY <2>1
  <2> QED
    BY <2>2 DEF Logged
<1> QED
  BY <1>4, <1>5, <1>6 DEF Unwinding

LEMMA RecovererStep ==
    ASSUME WTyped, Fits, NEW V, NEW left \in BOOLEAN, Unwinding(V, left), LeaveRecoverer
    PROVE  WTyped' /\ Fits' /\ \E W : \E l \in BOOLEAN : Unwinding(W, l)'
<1> DEFINE c == [code |-> 500, write |-> TRUE, bs |-> <<ErrText>>, flush |-> FALSE]
           st == Call(layers, resp, c)
<1>1. /\ phase \in {"return", "panic"} /\ Len(layers) > 0 /\ Inner.kind = "recoverer"
      /\ phase' = "return"
      /\ UNCHANGED <<chain, bare, ctype, calls, written, status, panicked, served, logged>>
      /\ Recycle("recoverer", [Inner.w EXCEPT !.started = FALSE])
  BY DEF LeaveRecoverer, In, Aside
<1>2. IF phase = "panic" /\ ~ Inner.w.started
      THEN layers' = Outer(st.L) /\ resp' = st.R
      ELSE layers' = Outer(layers) /\ resp' = resp
  BY DEF LeaveRecoverer
<1>3. PICK n : n = Len(layers)
  OBVIOUS
<1>4. /\ n \in Nat /\ n \in 1..n /\ Inner \in Layers /\ Inner.w \in Wrappers
      /\ Inner = layers[n]
  BY <1>1, <1>3, Placed DEF Inner
<1>5. /\ Stacked(layers, resp, V) /\ Labelled(layers, resp, left)
      /\ status # "late" => Recorded(layers, V)
  BY DEF Unwinding
<1>6. Inner.w.started <=> V[n].status # 0
  BY <1>1, <1>3, <1>4, <1>5 DEF Stacked, Shows
<1>7. pools' \in [LayerKinds -> SUBSET Wrappers] /\ pools'["compress"] \subseteq {Blank}
  <2>1. [Inner.w EXCEPT !.started = FALSE] \in Wrappers
    BY <1>4 DEF Wrappers
  <2>2. "recoverer" \in LayerKinds
    BY DEF LayerKinds
  <2> QED
    BY <1>1, <2>1, <2>2, RecycleKeeps
<1> HIDE DEF st, c
<1>8. ASSUME layers' \in Seq(Layers), resp' \in Responses PROVE WTyped'
  BY <1>1, <1>7, <1>8 DEF WTyped
<1>9. CASE ~ (phase = "panic" /\ ~ Inner.w.started)
  <2> PICK v : v = V[Len(layers)]
    OBVIOUS
  <2>1. layers' = Outer(layers) /\ resp' = resp
    BY <1>2, <1>9
  <2>2. layers \in Seq(Layers) /\ resp \in Responses
    BY DEF WTyped
  <2>3. /\ layers' \in Seq(Layers) /\ Len(layers') = n - 1
        /\ \A i \in 1..(n - 1) : layers'[i] = layers[i]
    BY <1>1, <1>3, <2>1, <2>2, OuterLayers
  <2>4. WTyped'
    BY <1>8, <2>1, <2>2, <2>3
  <2>5. CASE phase = "return"
    <3>1. status # "late" => Logged(v)'
      BY <1>1 DEF Unwinding, Logged
    <3>2. Fits' /\ \E W : \E l \in BOOLEAN : Unwinding(W, l)'
      BY <1>1, <2>1, <2>5, <3>1, LeaveKeeps
    <3> QED
      BY <2>4, <3>2
  <2>6. CASE phase = "panic"
    <3> DEFINE W == OuterViews(V, n)
    <3>1. /\ Stacked(layers', resp', W) /\ W[Len(layers')] = V[n]
          /\ Labelled(layers', resp', left) /\ (Recorded(layers, V) => Recorded(layers', W))
      BY <1>1, <1>3, <1>4, <1>5, <2>1, OuterKeeps
    <3> HIDE DEF W
    <3>2. Fits'
      BY <1>1, <1>3, <2>3, FitsOuter
    <3>3. ASSUME bare.status = 0, NEW i \in 1..Len(chain), chain[i] = "recoverer",
                 Without("compress", i)
          PROVE  FALSE
      <4>1. V[n].status = 0
        BY <1>1, <1>3, <2>6, <3>3, PanicFinds
      <4> QED
        BY <1>6, <1>9, <2>6, <4>1
    <3>4. Unwinding(W, left)'
      <4> PICK x : x = W[Len(layers')]
        OBVIOUS
      <4>1. Len(layers') = Len(layers) - 1 /\ (status # "late" => Recorded(layers', W))
        BY <1>3, <1>5, <2>3, <3>1
      <4>2. x = V[Len(layers)]
        BY <1>3, <3>1
      <4> QED
        BY <1>1, <2>6, <3>1, <3>3, <4>1, <4>2, RecoveredUnwinds
    <3> QED
      BY <2>4, <3>2, <3>4
  <2> QED
    BY <1>1, <2>5, <2>6
<1>10. CASE phase = "panic" /\ ~ Inner.w.started
  <2>1. layers' = Outer(st.L) /\ resp' = st.R /\ V[n].status = 0
    BY <1>2, <1>6, <1>10
  <2>2. c \in Asks /\ c.code = 500 /\ c.bs = <<ErrText>>
    <3>1. <<ErrText>> \in Seq(Bytes)
      BY DEF ErrText, Bytes
    <3> QED
      BY <3>1 DEF c, Asks
  <2>3. PICK W \in Kept(layers, resp, V, c, left) : TRUE
    BY <1>5, <2>2, CallKeeps
  <2>4. /\ Stacked(st.L, st.R, W) /\ W[n] = Then(V[n], c) /\ Labelled(st.L, st.R, left)
        /\ Recorded(layers, V) => Recorded(st.L, W)
        /\ Len(st.L) = n /\ \A i \in 1..n : st.L[i].kind = layers[i].kind
    BY <1>3, <2>1, <2>3 DEF Kept, st
  <2>5. st.L[Len(st.L)].kind # "compress" /\ Len(st.L) > 0
    BY <1>1, <1>3, <1>4, <2>4
  <2> DEFINE X == OuterViews(W, n)
  <2>6. /\ Stacked(layers', resp', X) /\ X[Len(layers')] = W[n]
        /\ Labelled(layers', resp', left) /\ (Recorded(st.L, W) => Recorded(layers', X))
    BY <2>1, <2>4, <2>5, OuterKeeps
  <2> HIDE DEF X
  <2>7. Len(layers') = n - 1 /\ \A i \in 1..(n - 1) : layers'[i] = st.L[i]
    BY <2>1, <2>4, <2>5, OuterLayers DEF Stacked
  <2>8. WTyped'
    BY <1>8, <2>6 DEF Stacked
  <2>9. Fits'
    <3>1. \A i \in 1..(n - 1) : i \in 1..n
      BY <1>4
    <3> QED
      BY <1>1, <1>3, <2>4, <2>7, <3>1, FitsOuter
  <2>10. Unwinding(X, left)'
    <3> PICK x : x = X[Len(layers')]
      OBVIOUS
    <3>1. Len(layers') = Len(layers) - 1 /\ (status # "late" => Recorded(layers', X))
      BY <1>3, <1>5, <2>4, <2>6, <2>7
    <3>2. x = Then(V[n], c)
      BY <2>4, <2>6
    <3>3. ASSUME bare.status # 0 PROVE FALSE
      <4>1. Carries(V[n], left) /\ Wanted = Seen(bare)
        BY <1>3, <3>3 DEF Unwinding, Known, Wanted
      <4> QED
        BY <2>1, <3>3, <4>1 DEF Carries, Seen
    <3>4. ASSUME bare.status = 0, NEW i \in 1..Len(chain), chain[i] = "recoverer",
                 Without("compress", i)
          PROVE  ~ left /\ x = [status |-> 500, body |-> <<ErrText>>]
      <4>1. ~ left /\ V[n].body = <<>>
        BY <1>1, <1>3, <1>10, <3>4, PanicFinds
      <4>2. <<>> \o <<ErrText>> = <<ErrText>>
        <5>1. <<ErrText>> \in Seq(Bytes)
          BY DEF ErrText, Bytes
        <5> QED
          BY <5>1, ConcatEmptySeq
      <4>3. Then(V[n], c) = [status |-> 500, body |-> <<ErrText>>]
        BY <2>1, <2>2, <4>1, <4>2 DEF Then, Final
      <4> QED
        BY <3>2, <4>1, <4>3
    <3> QED
      BY <1>1, <1>10, <2>6, <3>1, <3>3, <3>4, RecoveredUnwinds
  <2> QED
    BY <2>8, <2>9, <2>10
<1> QED
  BY <1>9, <1>10

LEMMA CompressStep ==
    ASSUME WTyped, Fits, NEW V, NEW left \in BOOLEAN, Unwinding(V, left), LeaveCompress
    PROVE  WTyped' /\ Fits' /\ \E W : \E l \in BOOLEAN : Unwinding(W, l)'
<1>1. /\ phase \in {"return", "panic"} /\ Len(layers) > 0 /\ Inner.kind = "compress"
      /\ phase' = phase /\ Store(Closed)
      /\ UNCHANGED <<chain, bare, ctype, calls, written, status, panicked, served, logged>>
      /\ Recycle("compress", Blank)
  BY DEF LeaveCompress, In, Aside
<1>2. PICK n : n = Len(layers)
  OBVIOUS
<1>3. PICK s : s = close(Inner.w, resp.encoding)
  OBVIOUS
<1>4. /\ n \in Nat /\ n \in 1..n /\ Len(chain) \in Nat /\ n \in 1..Len(chain)
      /\ chain[n] = "compress" /\ Inner = layers[n] /\ Inner.w \in Wrappers
  BY <1>1, <1>2, Placed DEF Inner
<1>5. /\ phase = "panic" => panicked /\ logged = <<>> /\ Without("recoverer", n + 1)
      /\ Stacked(layers, resp, V) /\ Labelled(layers, resp, left)
      /\ left => ~ Without("compress", n + 1)
      /\ Known => Carries(V[n], left)
      /\ status # "late" => Recorded(layers, V) /\ Logged(V[n])
  BY <1>2 DEF Unwinding
<1>6. layers \in Seq(Layers) /\ resp \in Responses /\ resp.encoding \in Encodings
  BY DEF WTyped, Responses
<1> DEFINE M == Outer(layers)
           Q == [resp EXCEPT !.encoding = s.encoding]
           X == OuterViews(V, n)
<1>7. PICK skip \in BOOLEAN : skip = s.w.skip
  <2>1. Rest(Inner.w, resp.encoding) \in Answers /\ s.w = Rest(Inner.w, resp.encoding).w
    BY <1>3, <1>4, <1>6, CloseIs, ClosePart
  <2>2. s.w.skip \in BOOLEAN
    BY <2>1 DEF Answers, Wrappers
  <2> QED
    BY <2>2
<1>8. PICK l \in BOOLEAN : l = (left \/ ~ skip)
  OBVIOUS
<1>9. s.c \in Asks /\ s.encoding \in Encodings
  BY <1>3, <1>4, <1>6, ClosePart
<1>10. Labelled(M, Q, l) /\ (left => skip)
  <2>1. /\ Labelled(Outer(layers),
                    [resp EXCEPT !.encoding = close(layers[n].w, resp.encoding).encoding],
                    left \/ ~ close(layers[n].w, resp.encoding).w.skip)
        /\ left => close(layers[n].w, resp.encoding).w.skip
    BY <1>1, <1>2, <1>4, <1>5, ClosedLabelled
  <2> QED
    BY <1>3, <1>4, <1>7, <1>8, <2>1
<1>11. /\ M \in Seq(Layers) /\ Len(M) = n - 1 /\ \A i \in 1..(n - 1) : M[i] = layers[i]
  BY <1>1, <1>2, <1>6, OuterLayers
<1>12. Stacked(M, Q, X) /\ X[n - 1] = V[n - 1]
  BY <1>1, <1>2, <1>5, <1>9, <1>11, OuterStacked
<1>13. Recorded(layers, V) => Recorded(M, X)
  BY <1>1, <1>2, <1>6, OuterRecorded
<1>14. /\ V[n] \in Views /\ V[n - 1] \in Views /\ Shows(Inner, V[n], V[n - 1])
  BY <1>2, <1>4, <1>5 DEF Stacked
<1>15. /\ ~ Inner.w.decided => HoldsBack(Inner.w, V[n], V[n - 1])
       /\ Inner.w.decided => PassesOn(Inner.w, V[n], V[n - 1])
  BY <1>1, <1>14 DEF Shows
<1>16. Then(V[n - 1], s.c) = Finished(V[n], skip)
  BY <1>3, <1>4, <1>6, <1>7, <1>14, <1>15, CloseShows
<1>17. Final(s.c.code) => V[n - 1].status = 0
  <2>1. Final(s.c.code) => ~ Inner.w.decided
    BY <1>3, <1>4, <1>6, CloseLabel
  <2> QED
    BY <1>15, <2>1 DEF HoldsBack, Unsent
<1> HIDE DEF M, Q, X
<1>18. PICK W \in Kept(M, Q, X, s.c, l) : TRUE
  BY <1>9, <1>10, <1>12, CallKeeps
<1>19. layers' = Call(M, Q, s.c).L /\ resp' = Call(M, Q, s.c).R
  BY <1>1, <1>3 DEF Store, Closed, M, Q
<1>20. /\ Stacked(layers', resp', W) /\ W[n - 1] = Finished(V[n], skip)
       /\ Labelled(layers', resp', l)
       /\ Recorded(M, X) => Recorded(layers', W)
       /\ Len(layers') = n - 1
       /\ \A i \in 1..(n - 1) : layers'[i].kind = layers[i].kind
  <2>1. /\ Stacked(layers', resp', W) /\ W[n - 1] = Then(X[n - 1], s.c)
        /\ Labelled(layers', resp', l)
        /\ Recorded(M, X) /\ (Final(s.c.code) /\ X[n - 1].status # 0 => Explicit(M)) =>
              Recorded(layers', W)
        /\ Len(layers') = n - 1
        /\ \A i \in 1..(n - 1) : layers'[i].kind = M[i].kind
    BY <1>11, <1>18, <1>19 DEF Kept
  <2> QED
    BY <1>11, <1>12, <1>16, <1>17, <2>1
<1>21. WTyped'
  <2>1. layers' \in Seq(Layers) /\ resp' \in Responses
    BY <1>20 DEF Stacked
  <2>2. pools' \in [LayerKinds -> SUBSET Wrappers] /\ pools'["compress"] \subseteq {Blank}
    <3>1. "compress" \in LayerKinds /\ Blank \in Wrappers
      BY NothingTypes DEF LayerKinds
    <3> QED
      BY <1>1, <3>1, RecycleKeeps
  <2> QED
    BY <1>1, <2>1, <2>2 DEF WTyped
<1>22. Fits'
  BY <1>1, <1>2, <1>20, FitsOuter
<1>23. Len(layers') + 1 = n
  BY <1>4, <1>20
<1>24. \A k, i : Without(k, i) <=> Without(k, i)'
  BY <1>1 DEF Without
<1>25. ~ Without("compress", n)
  <2>1. n \in n..Len(chain)
    BY <1>4
  <2> QED
    BY <1>4, <2>1 DEF Without
<1>26. ASSUME phase' = "panic"
       PROVE  panicked' /\ logged' = <<>> /\ Without("recoverer", Len(layers) + 1)'
  <2>1. Without("recoverer", n)
    BY <1>1, <1>4, <1>5, <1>26, WithoutLess
  <2>2. Without("recoverer", Len(layers) + 1)'
    BY <1>23, <1>24, <2>1
  <2> QED
    BY <1>1, <1>5, <1>26, <2>2
<1>27. ~ Without("compress", Len(layers) + 1)'
  BY <1>23, <1>24, <1>25
<1>28. Known' => Carries(W[Len(layers)], l)'
  <2> SUFFICES ASSUME Known' PROVE Carries(W[n - 1], l)'
    BY <1>20 DEF Carries
  <2>1. Known /\ (phase = "panic" => bare.status # 0)
    <3>1. \A i : Without("compress", i)' <=> Without("compress", i)
      BY <1>24
    <3>2. ~ (phase = "panic" /\ Without("compress", Len(layers) + 1)')
      BY <1>27
    <3> QED
      BY <1>1, <1>5, <3>1, <3>2 DEF Known
  <2>2. Carries(V[n], left) /\ Wanted' = Wanted
    BY <1>1, <1>5, <2>1 DEF Wanted
  <2>3. phase = "panic" => Wanted.status # 0
    BY <2>1 DEF Wanted, Seen
  <2>4. V[n].status = Wanted.status \/ (phase = "return" /\ Wanted.status = 0 /\ V[n].status = 200)
    BY <2>2 DEF Carries
  <2>5. W[n - 1].status = (IF V[n].status = 0 THEN 200 ELSE V[n].status)
    BY <1>20 DEF Finished
  <2>6. \/ W[n - 1].status = Wanted.status
        \/ phase = "return" /\ Wanted.status = 0 /\ W[n - 1].status = 200
    BY <1>1, <2>3, <2>4, <2>5
  <2>7. W[n - 1].body = IF skip THEN V[n].body ELSE Append(Gz(V[n].body), GzipEnd)
    BY <1>20 DEF Finished
  <2>8. V[n].body = IF left THEN Append(Gz(Wanted.body), GzipEnd) ELSE Wanted.body
    BY <2>2 DEF Carries
  <2>9. W[n - 1].body = IF l THEN Append(Gz(Wanted.body), GzipEnd) ELSE Wanted.body
    <3>1. CASE skip
      BY <1>8, <2>7, <2>8, <3>1
    <3>2. CASE ~ skip
      <4>1. ~ left /\ l
        BY <1>8, <1>10, <3>2
      <4> QED
        BY <2>7, <2>8, <3>2, <4>1
    <3> QED
      BY <3>1, <3>2
  <2> QED
    BY <1>1, <2>2, <2>6, <2>9 DEF Carries
<1>29. (status # "late" => Recorded(layers, W) /\ Logged(W[Len(layers)]))'
  <2> SUFFICES ASSUME status # "late" PROVE Recorded(layers', W) /\ Logged(W[n - 1])'
    BY <1>1, <1>20 DEF Logged
  <2>1. Recorded(layers', W)
    BY <1>5, <1>13, <1>20
  <2>2. \A k \in 1..Len(logged) : logged[k] = IF V[n].status = 0 THEN 200 ELSE V[n].status
    BY <1>5 DEF Logged
  <2>3. W[n - 1].status = (IF V[n].status = 0 THEN 200 ELSE V[n].status)
    BY <1>20 DEF Finished
  <2>4. (IF W[n - 1].status = 0 THEN 200 ELSE W[n - 1].status)
          = (IF V[n].status = 0 THEN 200 ELSE V[n].status)
    BY <2>3
  <2>5. Logged(W[n - 1])'
    BY <1>1, <2>2, <2>4 DEF Logged
  <2> QED
    BY <2>1, <2>5
<1>30. Unwinding(W, l)'
  BY <1>20, <1>26, <1>27, <1>28, <1>29 DEF Unwinding
<1> QED
  BY <1>21, <1>22, <1>30

-----------------------------------------------------------------------------
(* The beginning and the end of a request.                                  *)

LEMMA BlankTypes == Blank \in Wrappers /\ NewResponse \in Responses /\ Unsent \in Views
<1>1. <<>> \in Seq(Bytes)
  BY EmptySeq
<1> QED
  BY <1>1 DEF Blank, Wrappers, NewResponse, Responses, Encodings, Unsent, Views

LEMMA PreparedIs ==
    ASSUME NEW k \in LayerKinds, NEW w \in Wrappers, k = "compress" => w = Blank
    PROVE  LET l == [kind |-> k, w |-> Prepared(k, w)]
           IN  l \in Layers /\ Shows(l, Unsent, Unsent) /\ Records(l, Unsent) /\ ~ Zipping(l)
<1>1. <<>> \in Seq(Bytes) /\ Len(<<>>) = 0
  BY EmptySeq
<1>2. sniffBufSize \in Nat
  BY WSizes
<1>3. Prepared(k, w) \in Wrappers
  <2>1. CASE k = "logger"
    <3>1. Prepared(k, w) = [w EXCEPT !.status = 200, !.wroteHeader = FALSE]
      BY <2>1 DEF Prepared
    <3>2. PICK s \in Nat : s = 200
      OBVIOUS
    <3>3. [w EXCEPT !.status = s, !.wroteHeader = FALSE] \in Wrappers
      BY DEF Wrappers
    <3>4. Prepared(k, w) = [w EXCEPT !.status = s, !.wroteHeader = FALSE]
      BY <3>1, <3>2
    <3> QED
      BY <3>3, <3>4
  <2>2. CASE k = "recoverer"
    <3>1. Prepared(k, w) = [w EXCEPT !.started = FALSE]
      BY <2>2 DEF Prepared
    <3>2. [w EXCEPT !.started = FALSE] \in Wrappers
      BY DEF Wrappers
    <3> QED
      BY <3>1, <3>2
  <2>3. CASE k = "compress"
    <3>1. Prepared(k, w) = [w EXCEPT !.buf = <<>>]
      BY <2>3 DEF Prepared
    <3>2. [w EXCEPT !.buf = <<>>] \in Wrappers
      BY <1>1 DEF Wrappers
    <3> QED
      BY <3>1, <3>2
  <2> QED
    BY <2>1, <2>2, <2>3 DEF LayerKinds
<1>4. [kind |-> k, w |-> Prepared(k, w)] \in Layers
  BY <1>3 DEF Layers
<1>5. CASE k = "logger"
  <2>1. Prepared(k, w) = [w EXCEPT !.status = 200, !.wroteHeader = FALSE]
    BY <1>5 DEF Prepared
  <2>2. Prepared(k, w).status = 200 /\ ~ Prepared(k, w).wroteHeader
    BY <2>1 DEF Wrappers
  <2> QED
    BY <1>4, <1>5, <2>2 DEF Shows, Records, Zipping, Unsent
<1>6. CASE k = "recoverer"
  <2>1. ~ Prepared(k, w).started
    BY <1>6 DEF Prepared, Wrappers
  <2> QED
    BY <1>4, <1>6, <2>1 DEF Shows, Records, Zipping, Unsent
<1>7. CASE k = "compress"
  <2>1. Prepared(k, w) = Blank
    <3>1. Prepared(k, w) = [w EXCEPT !.buf = <<>>]
      BY <1>7 DEF Prepared
    <3>2. w = Blank /\ [Blank EXCEPT !.buf = <<>>] = Blank
      BY <1>7 DEF Blank
    <3> QED
      BY <3>1, <3>2
  <2>2. HoldsBack(Blank, Unsent, Unsent) /\ ~ Blank.decided
    BY <1>1, <1>2 DEF HoldsBack, Blank, Unsent
  <2> QED
    BY <1>4, <1>7, <2>1, <2>2 DEF Shows, Records, Zipping
<1> QED
  BY <1>5, <1>6, <1>7 DEF LayerKinds

LEMMA BeginStep ==
    ASSUME WTyped, Begin
    PROVE  WTyped' /\ Fits' /\ \E V : Serving(V)'
<1> DEFINE n == Len(chain)
<1>1. PICK gzip \in BOOLEAN :
        \E ws \in [1..n -> {Blank} \cup UNION {pools[k] : k \in LayerKinds}] :
          /\ \A i \in 1..n :
                ws[i] \in {Blank} \cup IF gzip \/ chain[i] # "compress" THEN pools[chain[i]] ELSE {}
          /\ layers' = [i \in 1..n |->
                          IF gzip \/ chain[i] # "compress"
                          THEN [kind |-> chain[i], w |-> Prepared(chain[i], ws[i])]
                          ELSE [kind |-> "aside", w |-> Blank]]
          /\ pools' = [k \in LayerKinds |-> pools[k] \ {ws[i] : i \in 1..n}]
  BY DEF Begin
<1>2. PICK ws :
          /\ \A i \in 1..n :
                ws[i] \in {Blank} \cup IF gzip \/ chain[i] # "compress" THEN pools[chain[i]] ELSE {}
          /\ layers' = [i \in 1..n |->
                          IF gzip \/ chain[i] # "compress"
                          THEN [kind |-> chain[i], w |-> Prepared(chain[i], ws[i])]
                          ELSE [kind |-> "aside", w |-> Blank]]
          /\ pools' = [k \in LayerKinds |-> pools[k] \ {ws[i] : i \in 1..n}]
  BY <1>1
<1>3. /\ resp' = NewResponse /\ bare' = NewResponse /\ phase' = "run" /\ calls' = 0
      /\ written' = 0 /\ status' = "unset" /\ panicked' = FALSE /\ logged' = <<>>
      /\ chain' = chain /\ served' = served
  BY DEF Begin
<1>4. n \in Nat /\ \A i \in 1..n : chain[i] \in LayerKinds
  <2>1. chain \in Seq(LayerKinds)
    BY WSizes DEF WTyped
  <2> QED
    BY <2>1, LenProperties, ElementOfSeq
<1>5. pools \in [LayerKinds -> SUBSET Wrappers] /\ pools["compress"] \subseteq {Blank}
  BY DEF WTyped
<1> HIDE DEF n
<1>6. ASSUME NEW i \in 1..n
      PROVE  /\ layers'[i] \in Layers /\ Shows(layers'[i], Unsent, Unsent)
             /\ Records(layers'[i], Unsent) /\ ~ Zipping(layers'[i])
             /\ layers'[i].kind = chain[i] \/ (layers'[i].kind = "aside" /\ chain[i] = "compress")
  <2>1. CASE gzip \/ chain[i] # "compress"
    <3>1. ws[i] \in {Blank} \cup pools[chain[i]] /\ chain[i] \in LayerKinds
      BY <1>2, <1>4, <2>1
    <3>2. ws[i] \in Wrappers /\ (chain[i] = "compress" => ws[i] = Blank)
      BY <1>5, <3>1, BlankTypes
    <3>3. layers'[i] = [kind |-> chain[i], w |-> Prepared(chain[i], ws[i])]
      BY <1>2, <2>1
    <3> QED
      BY <3>1, <3>2, <3>3, PreparedIs
  <2>2. CASE ~ (gzip \/ chain[i] # "compress")
    <3>1. layers'[i] = [kind |-> "aside", w |-> Blank]
      BY <1>2, <2>2
    <3> QED
      BY <2>2, <3>1, BlankTypes DEF Layers, Shows, Records, Zipping
  <2> QED
    BY <2>1, <2>2
<1>7. layers' \in Seq(Layers) /\ Len(layers') = n
  <2>1. layers' = [i \in 1..n |-> layers'[i]]
    BY <1>2
  <2>2. layers' \in [1..n -> Layers]
    BY <1>6, <2>1
  <2> QED
    BY <1>4, <2>2, SeqDef, LenProperties
<1>8. PICK V : V = [i \in 0..n |-> Unsent]
  OBVIOUS
<1>9. V \in [0..n -> Views] /\ \A i \in 0..n : V[i] = Unsent
  BY <1>8, BlankTypes
<1>10. Seen(NewResponse) = Unsent
  BY DEF Seen, NewResponse, Unsent
<1>11. Stacked(layers', resp', V)
  <2>1. ASSUME NEW i \in 1..n PROVE Shows(layers'[i], V[i], V[i - 1])
    <3>1. i \in 0..n /\ i - 1 \in 0..n
      BY <1>4
    <3> QED
      BY <1>6, <1>9, <3>1
  <2>2. 0 \in 0..n
    BY <1>4
  <2> QED
    BY <1>3, <1>7, <1>9, <1>10, <2>1, <2>2, BlankTypes DEF Stacked
<1>12. Labelled(layers', resp', FALSE)
  <2>1. Zips(layers') = {}
    BY <1>6, <1>7 DEF Zips, Zipping
  <2>2. resp'.encoding = "" /\ resp'.status = 0
    BY <1>3 DEF NewResponse
  <2> QED
    BY <2>1, <2>2 DEF Labelled
<1>13. Recorded(layers', V)
  <2>1. ASSUME NEW i \in 1..n PROVE Records(layers'[i], V[i])
    <3>1. i \in 0..n
      BY <1>4
    <3> QED
      BY <1>6, <1>9, <3>1
  <2> QED
    BY <1>7, <2>1 DEF Recorded
<1>14. V[Len(layers')] = Seen(bare')
  BY <1>3, <1>4, <1>7, <1>9, <1>10
<1>15. Serving(V)'
  BY <1>3, <1>7, <1>11, <1>12, <1>13, <1>14 DEF Serving, n
<1>16. Fits'
  BY <1>3, <1>4, <1>6, <1>7 DEF Fits, n
<1>17. WTyped'
  <2>1. resp' \in Responses /\ bare' \in Responses /\ bare'.body = <<>>
    BY <1>3, BlankTypes DEF NewResponse
  <2>2. pools' \in [LayerKinds -> SUBSET Wrappers] /\ pools'["compress"] \subseteq {Blank}
    BY <1>2, <1>5 DEF LayerKinds
  <2>3. bare'.body \in Seq(PlainBytes) /\ logged' \in Seq(Nat)
    BY <1>3, <2>1, EmptySeq
  <2> QED
    BY <1>3, <1>7, <2>1, <2>2, <2>3 DEF WTyped
<1> QED
  BY <1>15, <1>16, <1>17

\* What the client reads of bytes that were not compressed, and of those that were.
LEMMA DecodedPlain ==
    ASSUME NEW b \in Seq(PlainBytes), NEW R, R.body = b, R.sent = ""
    PROVE  Decoded(R) = {b}
<1>1. \A k \in 1..Len(b) : b[k].gz = 0
  <2> SUFFICES ASSUME NEW k \in 1..Len(b) PROVE b[k].gz = 0
    OBVIOUS
  <2>1. b[k] \in PlainBytes
    BY ElementOfSeq
  <2> QED
    BY <2>1 DEF PlainBytes
<1> QED
  BY <1>1 DEF Decoded

LEMMA DecodedGz ==
    ASSUME NEW b \in Seq(PlainBytes), NEW R, R.body = Append(Gz(b), GzipEnd), R.sent = "gzip"
    PROVE  Decoded(R) = {b}
<1> DEFINE g == Append(Gz(b), GzipEnd)
           d == [k \in 1..(Len(g) - 1) |-> Byte(g[k].n)]
<1>1. b \in Seq(Bytes) /\ Len(b) \in Nat
  BY PlainIs, LenProperties
<1>2. /\ Gz(b) \in Seq(Bytes) /\ Len(Gz(b)) = Len(b)
      /\ \A k \in 1..Len(b) : Gz(b)[k] = [n |-> b[k].n, gz |-> b[k].gz + 1]
  BY <1>1, GzType
<1>3. GzipEnd \in Bytes
  BY DEF GzipEnd, Bytes
<1>4. /\ g \in Seq(Bytes) /\ Len(g) = Len(b) + 1 /\ g # <<>>
      /\ \A k \in 1..Len(b) : g[k] = Gz(b)[k]
      /\ g[Len(b) + 1] = GzipEnd
  BY <1>2, <1>3, AppendProperties
<1>5. ASSUME NEW k \in 1..Len(b)
      PROVE  g[k].gz = 1 /\ g[k].n # 0 /\ g[k] # GzipEnd /\ Byte(g[k].n) = b[k]
  <2>1. b[k] \in PlainBytes
    BY ElementOfSeq
  <2>2. g[k] = [n |-> b[k].n, gz |-> b[k].gz + 1]
    BY <1>2, <1>4
  <2>3. b[k].gz = 0 /\ b[k].n # 0 /\ b[k] = [n |-> b[k].n, gz |-> b[k].gz]
    BY <2>1 DEF PlainBytes
  <2>4. g[k].gz = 1 /\ g[k].n = b[k].n
    BY <2>2, <2>3
  <2>5. GzipEnd.n = 0
    BY DEF GzipEnd
  <2>6. g[k] # GzipEnd
    BY <2>3, <2>4, <2>5
  <2>7. Byte(g[k].n) = [n |-> b[k].n, gz |-> b[k].gz]
    BY <2>3, <2>4 DEF Byte
  <2> QED
    BY <2>3, <2>4, <2>6, <2>7
<1>6. Len(g) - 1 = Len(b) /\ \A k \in 1..Len(g) : k \in 1..Len(b) \/ k = Len(b) + 1
  BY <1>1, <1>4
<1>7. d = b
  <2>1. ASSUME NEW k \in 1..Len(b) PROVE d[k] = b[k]
    BY <1>5, <1>6
  <2>2. b \in [1..Len(b) -> PlainBytes]
    BY LenProperties
  <2> QED
    BY <1>6, <2>1, <2>2
<1>8. GzipEnd.gz = 1
  BY DEF GzipEnd
<1> HIDE DEF g
<1>9. /\ g # <<>> /\ g[Len(g)] = GzipEnd
      /\ \A k \in 1..Len(g) : g[k].gz = 1
      /\ \A k \in 1..(Len(g) - 1) : g[k] # GzipEnd
  BY <1>1, <1>4, <1>5, <1>6, <1>8
<1>10. R.body = g
  BY DEF g
<1>11. Decoded(R) = {d}
  BY <1>9, <1>10 DEF Decoded
<1> QED
  BY <1>7, <1>11

LEMMA FinishStep ==
    ASSUME WTyped, Fits, NEW V, NEW left \in BOOLEAN, Unwinding(V, left), Finish
    PROVE  WTyped' /\ Answered'
<1>1. /\ phase \in {"return", "panic"} /\ layers = <<>> /\ phase' = "done" /\ served' = served + 1
      /\ resp' = IF phase = "return" THEN ServerWriteHeader(resp, 200) ELSE resp
      /\ UNCHANGED <<chain, layers, bare, ctype, calls, written, status, panicked, logged, pools>>
  BY DEF Finish
<1>2. Len(layers) = 0
  BY <1>1, EmptySeq
<1>3. /\ phase = "panic" => panicked /\ logged = <<>> /\ Without("recoverer", 1)
      /\ Stacked(layers, resp, V) /\ Labelled(layers, resp, left)
      /\ Known => Carries(V[0], left)
      /\ status # "late" => Logged(V[0])
  BY <1>2 DEF Unwinding
<1>4. resp \in Responses /\ V[0] = Seen(resp)
  BY <1>3 DEF Stacked
<1>5. Zips(layers) = {}
  BY <1>2 DEF Zips
<1>6. /\ resp.encoding = IF left THEN "gzip" ELSE ""
      /\ resp.status # 0 => resp.sent = resp.encoding
  BY <1>3, <1>4, <1>5 DEF Labelled, Responses, Encodings
<1>7. /\ resp' \in Responses /\ resp'.body = resp.body
      /\ resp'.status = (IF phase = "return" /\ resp.status = 0 THEN 200 ELSE resp.status)
      /\ resp'.status # 0 => resp'.sent = IF left THEN "gzip" ELSE ""
  <2>1. CASE phase = "return"
    <3>1. resp' = ServerWriteHeader(resp, 200) /\ Final(200)
      BY <1>1, <2>1 DEF Final
    <3>2. /\ resp' \in Responses /\ resp'.body = resp.body
          /\ resp'.status = (IF resp.status = 0 THEN 200 ELSE resp.status)
          /\ resp'.sent = (IF resp.status = 0 THEN resp.encoding ELSE resp.sent)
      BY <1>4, <3>1, ServerWriteHeaderIs
    <3> QED
      BY <1>6, <2>1, <3>2
  <2>2. CASE phase # "return"
    <3>1. resp' = resp
      BY <1>1, <2>2
    <3> QED
      BY <1>4, <1>6, <2>2, <3>1
  <2> QED
    BY <2>1, <2>2
<1>8. WTyped'
  <2>1. served' \in Nat
    BY <1>1 DEF WTyped
  <2> QED
    BY <1>1, <1>7, <2>1 DEF WTyped
<1>9. ASSUME NEW b \in Seq(PlainBytes), resp'.status # 0,
             resp.body = IF left THEN Append(Gz(b), GzipEnd) ELSE b
      PROVE  Decoded(resp') = {b}
  <2>1. CASE left
    <3>1. resp'.body = Append(Gz(b), GzipEnd) /\ resp'.sent = "gzip"
      BY <1>7, <1>9, <2>1
    <3> QED
      BY <3>1, DecodedGz
  <2>2. CASE ~ left
    <3>1. resp'.body = b /\ resp'.sent = ""
      BY <1>7, <1>9, <2>2
    <3> QED
      BY <3>1, DecodedPlain
  <2> QED
    BY <2>1, <2>2
<1>10. ASSUME Known
       PROVE  /\ resp.body = IF left THEN Append(Gz(Wanted.body), GzipEnd) ELSE Wanted.body
              /\ \/ resp.status = Wanted.status
                 \/ phase = "return" /\ Wanted.status = 0 /\ resp.status = 200
  <2>1. Carries(Seen(resp), left)
    BY <1>3, <1>4, <1>10
  <2> QED
    BY <2>1 DEF Carries, Seen
<1>11. Transparent'
  <2> SUFFICES ASSUME ~ panicked \/ bare.status # 0
               PROVE  /\ resp'.status = (IF bare.status = 0 THEN 200 ELSE bare.status)
                      /\ Decoded(resp') = {bare.body}
    BY <1>1 DEF Transparent
  <2>1. Known /\ Wanted = Seen(bare) /\ (phase = "panic" => bare.status # 0)
    BY <1>3 DEF Known, Wanted
  <2>2. /\ resp.body = IF left THEN Append(Gz(bare.body), GzipEnd) ELSE bare.body
        /\ \/ resp.status = bare.status
           \/ phase = "return" /\ bare.status = 0 /\ resp.status = 200
    BY <1>10, <2>1 DEF Seen
  <2>3. resp'.status = (IF bare.status = 0 THEN 200 ELSE bare.status)
    <3>1. CASE phase = "return"
      BY <1>7, <2>2, <3>1
    <3>2. CASE phase = "panic"
      BY <1>7, <2>1, <2>2, <3>2
    <3> QED
      BY <1>1, <3>1, <3>2
  <2>4. Decoded(resp') = {bare.body}
    BY <1>9, <2>2, <2>3 DEF WTyped
  <2> QED
    BY <2>3, <2>4
<1>12. PanicAnswered'
  <2> SUFFICES ASSUME panicked, bare.status = 0, NEW i \in 1..Len(chain), chain[i] = "recoverer",
                      \A j \in i..Len(chain) : chain[j] # "compress"
               PROVE  resp'.status = 500 /\ Decoded(resp') = {<<ErrText>>}
    BY <1>1 DEF PanicAnswered
  <2>1. phase = "return"
    <3> SUFFICES ASSUME phase = "panic" PROVE FALSE
      BY <1>1
    <3> QED
      BY <1>3 DEF Without
  <2>2. Known
    BY <2>1 DEF Known, Without
  <2>3. Wanted = [status |-> 500, body |-> <<ErrText>>]
    BY <2>1 DEF Wanted
  <2>4. PICK b \in Seq(PlainBytes) : b = <<ErrText>>
    <3>1. ErrText \in PlainBytes
      BY DEF ErrText, PlainBytes
    <3>2. <<ErrText>> \in Seq(PlainBytes)
      BY <3>1
    <3> QED
      BY <3>2
  <2>5. Wanted.status = 500 /\ Wanted.body = b
    BY <2>3, <2>4
  <2>6. resp.body = IF left THEN Append(Gz(b), GzipEnd) ELSE b
    BY <1>10, <2>2, <2>5
  <2>7. resp.status = 500
    BY <1>10, <2>2, <2>5
  <2>8. resp'.status = 500
    <3>1. resp'.status = (IF phase = "return" /\ resp.status = 0 THEN 200 ELSE resp.status)
      BY <1>7
    <3> QED
      BY <2>7, <3>1
  <2>9. Decoded(resp') = {b}
    BY <1>9, <2>6, <2>8
  <2> QED
    BY <2>4, <2>8, <2>9
<1>13. LoggedIsSent'
  <2> SUFFICES ASSUME status # "late", NEW k \in 1..Len(logged)
               PROVE  logged[k] = resp'.status
    BY <1>1 DEF LoggedIsSent
  <2>1. logged[k] = IF resp.status = 0 THEN 200 ELSE resp.status
    BY <1>3, <1>4 DEF Logged, Seen
  <2>2. phase = "return"
    <3> SUFFICES ASSUME phase = "panic" PROVE FALSE
      BY <1>1
    <3>1. Len(logged) = 0
      BY <1>3, EmptySeq
    <3> QED
      BY <3>1
  <2> QED
    BY <1>7, <2>1, <2>2
<1> QED
  BY <1>8, <1>11, <1>12, <1>13 DEF Answered

-----------------------------------------------------------------------------
(* The invariant of the layers.                                             *)

WInv ==
    /\ WTyped
    /\ phase \in {"run", "return", "panic"} => Fits
    /\ phase = "run" => \E V : Serving(V)
    /\ phase \in {"return", "panic"} => \E V : \E left \in BOOLEAN : Unwinding(V, left)
    /\ phase = "done" => Answered

LEMMA WInitial ==
    ASSUME WritersInit
    PROVE  WInv
<1>1. <<>> \in Seq(Layers) /\ <<>> \in Seq(PlainBytes) /\ <<>> \in Seq(Nat)
  BY EmptySeq
<1>2. layers = <<>> /\ bare = NewResponse /\ resp = NewResponse /\ phase = "idle"
  BY DEF WritersInit
<1>3. bare.body = <<>>
  BY <1>2 DEF NewResponse
<1>4. pools \in [LayerKinds -> SUBSET Wrappers] /\ pools["compress"] \subseteq {Blank}
  BY DEF WritersInit, LayerKinds
<1>5. WTyped
  BY <1>1, <1>2, <1>3, <1>4, BlankTypes DEF WTyped, WritersInit
<1> QED
  BY <1>2, <1>5 DEF WInv

\* The steps of a request that runs or unwinds.
LEMMA WStep ==
    ASSUME WInv, WritersNext
    PROVE  WInv'
<1>1. WTyped
  BY DEF WInv
<1>2. CASE Begin
  <2>1. phase' = "run" /\ WTyped' /\ Fits' /\ \E V : Serving(V)'
    BY <1>1, <1>2, BeginStep DEF Begin
  <2> QED
    BY <2>1 DEF WInv
<1>3. CASE HandlerWriteHeader \/ HandlerWrite \/ HandlerFlush
  <2>1. phase = "run" /\ phase' = "run"
    BY <1>3 DEF HandlerWriteHeader, HandlerWrite, HandlerFlush, HandlerCalls
  <2>2. PICK V : Serving(V)
    BY <2>1 DEF WInv
  <2>3. Fits
    BY <2>1 DEF WInv
  <2>4. WTyped' /\ Fits' /\ \E W : Serving(W)'
    BY <1>1, <1>3, <2>2, <2>3, WriteHeaderStep, WriteStep, FlushStep
  <2> QED
    BY <2>1, <2>4 DEF WInv
<1>4. CASE HandlerReturns \/ HandlerPanics
  <2>1. phase = "run" /\ phase' \in {"return", "panic"}
    BY <1>4 DEF HandlerReturns, HandlerPanics
  <2>2. PICK V : Serving(V)
    BY <2>1 DEF WInv
  <2>3. Fits
    BY <2>1 DEF WInv
  <2>4. WTyped' /\ Fits' /\ Unwinding(V, FALSE)'
    BY <1>1, <1>4, <2>2, <2>3, ReturnsStep, PanicsStep
  <2>5. PICK left \in BOOLEAN : left = FALSE
    OBVIOUS
  <2>6. Unwinding(V, left)'
    BY <2>4, <2>5
  <2> QED
    BY <2>1, <2>4, <2>6 DEF WInv
<1>5. CASE LeaveLogger \/ LeaveRecoverer \/ LeaveCompress \/ LeaveAside
  <2>1. phase \in {"return", "panic"} /\ phase' \in {"return", "panic"}
    BY <1>5 DEF LeaveLogger, LeaveRecoverer, LeaveCompress, LeaveAside, In
  <2>2. PICK V : \E left \in BOOLEAN : Unwinding(V, left)
    BY <2>1 DEF WInv
  <2>3. PICK left \in BOOLEAN : Unwinding(V, left)
    BY <2>2
  <2>4. Fits
    BY <2>1 DEF WInv
  <2>5. WTyped' /\ Fits' /\ \E W : \E l \in BOOLEAN : Unwinding(W, l)'
    <3>1. CASE LeaveLogger
      BY <1>1, <2>3, <2>4, <3>1, LoggerStep
    <3>2. CASE LeaveRecoverer
      BY <1>1, <2>3, <2>4, <3>2, RecovererStep
    <3>3. CASE LeaveCompress
      BY <1>1, <2>3, <2>4, <3>3, CompressStep
    <3>4. CASE LeaveAside
      BY <1>1, <2>3, <2>4, <3>4, AsideStep
    <3> QED
      BY <1>5, <3>1, <3>2, <3>3, <3>4
  <2> QED
    BY <2>1, <2>5 DEF WInv
<1>6. CASE Finish
  <2>1. phase \in {"return", "panic"} /\ phase' = "done"
    BY <1>6 DEF Finish
  <2>2. PICK V : \E left \in BOOLEAN : Unwinding(V, left)
    BY <2>1 DEF WInv
  <2>3. PICK left \in BOOLEAN : Unwinding(V, left)
    BY <2>2
  <2>4. Fits
    BY <2>1 DEF WInv
  <2>5. WTyped' /\ Answered'
    BY <1>1, <1>6, <2>3, <2>4, FinishStep
  <2> QED
    BY <2>1, <2>5 DEF WInv
<1> QED
  BY <1>2, <1>3, <1>4, <1>5, <1>6 DEF WritersNext

LEMMA WStutter ==
    ASSUME WInv, UNCHANGED writersVars
    PROVE  WInv'
<1>1. UNCHANGED <<chain, layers, resp, bare, phase, ctype, calls, written, status, panicked,
                  logged, pools, served>>
  BY DEF writersVars
<1>2. WTyped' <=> WTyped
  BY <1>1 DEF WTyped
<1>3. Fits' <=> Fits
  BY <1>1 DEF Fits
<1>4. ASSUME NEW V PROVE Serving(V)' <=> Serving(V)
  BY <1>1 DEF Serving
<1>5. ASSUME NEW V, NEW left \in BOOLEAN PROVE Unwinding(V, left)' <=> Unwinding(V, left)
  <2>1. \A k, i : Without(k, i)' <=> Without(k, i)
    BY <1>1 DEF Without
  <2>2. Wanted' = Wanted
    BY <1>1 DEF Wanted
  <2>3. Known' <=> Known
    BY <1>1, <2>1 DEF Known
  <2>4. \A v : Carries(v, left)' <=> Carries(v, left)
    BY <1>1, <2>2 DEF Carries
  <2>5. \A v : Logged(v)' <=> Logged(v)
    BY <1>1 DEF Logged
  <2> QED
    BY <1>1, <2>1, <2>3, <2>4, <2>5 DEF Unwinding
<1>6. Answered' <=> Answered
  BY <1>1 DEF Answered, Transparent, PanicAnswered, LoggedIsSent, Decoded
<1> QED
  BY <1>1, <1>2, <1>3, <1>4, <1>5, <1>6 DEF WInv

\* While the handler runs every layer shows it what it would have without layers, and
\* while they unwind they carry what the client should get.
THEOREM LayersInvariant == WritersSpec => []WInv
<1>1. WritersInit => WInv
  BY WInitial
<1>2. WInv /\ [WritersNext]_writersVars => WInv'
  BY WStep, WStutter
<1> QED
  BY <1>1, <1>2, PTL DEF WritersSpec

LEMMA WInvAnswers ==
    ASSUME WInv
    PROVE  Transparent /\ PanicAnswered /\ LoggedIsSent
<1>1. CASE phase = "done"
  BY <1>1 DEF WInv, Answered
<1>2. CASE phase # "done"
  BY <1>2 DEF Transparent, PanicAnswered, LoggedIsSent
<1> QED
  BY <1>1, <1>2

\* Logger, Recoverer and Compress in every order, any number of each: the client gets
\* what the handler's calls would have made of a response without them.
THEOREM LayersAreTransparent == WritersSpec => []Transparent
<1>1. WInv => Transparent
  BY WInvAnswers
<1> QED
  BY <1>1, LayersInvariant, PTL

\* A panic before anything was sent gets one 500, when no Compress is inside a Recoverer.
THEOREM PanicsAreAnswered == WritersSpec => []PanicAnswered
<1>1. WInv => PanicAnswered
  BY WInvAnswers
<1> QED
  BY <1>1, LayersInvariant, PTL

\* What Logger writes is what was sent, unless the handler set a status too late.
THEOREM LoggedStatusIsSent == WritersSpec => []LoggedIsSent
<1>1. WInv => LoggedIsSent
  BY WInvAnswers
<1> QED
  BY <1>1, LayersInvariant, PTL
=============================================================================
