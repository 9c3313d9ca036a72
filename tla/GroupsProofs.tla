---------------------------- MODULE GroupsProofs ----------------------------
(***************************************************************************)
(* Every route runs exactly the middleware it should, and no fast route    *)
(* runs past a standard one, for any prefixes, paths and methods and any   *)
(* number of groups and of middleware: no two of the slices that the Mux   *)
(* and its groups append to ever share a backing array.                    *)
(***************************************************************************)
EXTENDS Groups, SequenceTheorems, WellFoundedInduction, TLAPS

Arrays == Seq(Seq(Nat))
Slices == [arr : Nat, len : Nat]
Patterns == Seq(STRING)
Kinds == {"std", "fast", "mount", "files"}

Owner == [prefix : Patterns, middleware : Slices, fastMiddleware : Slices,
          wantStd : Seq(Nat), wantFast : Seq(Nat), parts : Seq(Patterns)]

\* A route that runs what it should, and no standard middleware is bypassed.
ExactRoute ==
    {r \in [method : Methods \cup {"*"}, kind : Kinds, pattern : Patterns,
            parts : Seq(Patterns), chain : Seq(Nat), want : Seq(Nat), bypassed : Seq(Nat)] :
        r.chain = r.want /\ r.bypassed = <<>>}

\* In the arrays a, the slice s has the elements w.
Holds(a, s, w) ==
    /\ s \in Slices /\ w \in Seq(Nat) /\ Len(w) = s.len
    /\ IF s.arr = 0 THEN s.len = 0
       ELSE /\ s.arr \in 1..Len(a) /\ s.len \in 1..Len(a[s.arr])
            /\ \A k \in 1..s.len : a[s.arr][k] = w[k]

\* Two slices have nothing in common.
Apart(s, u) == s.arr = u.arr => s.arr = 0

Kept == \A o \in Ids : /\ Holds(arrays, owners[o].middleware, owners[o].wantStd)
                       /\ Holds(arrays, owners[o].fastMiddleware, owners[o].wantFast)
Unshared ==
    \A o, p \in Ids :
       /\ Apart(owners[o].middleware, owners[p].fastMiddleware)
       /\ o # p => /\ Apart(owners[o].middleware, owners[p].middleware)
                   /\ Apart(owners[o].fastMiddleware, owners[p].fastMiddleware)

\* The inductive invariant.
Inv == /\ arrays \in Arrays /\ owners \in Seq(Owner) /\ Len(owners) > 0
       /\ used \in Nat /\ usedFast \in Nat
       /\ routes \in Seq(ExactRoute)
       /\ Kept /\ Unshared

-----------------------------------------------------------------------------
(* Slices.                                                                 *)

\* A function on 1..n is a sequence.
LEMMA FunIsSeq ==
    ASSUME NEW S, NEW n \in Nat, NEW f \in [1..n -> S]
    PROVE  f \in Seq(S) /\ Len(f) = n
OBVIOUS

\* A slice reads as the elements it holds.
LEMMA ElementsAre ==
    ASSUME arrays \in Arrays, NEW s, NEW w, Holds(arrays, s, w)
    PROVE  Elements(s) = w
<1>1. s.arr \in Nat /\ s.len \in Nat /\ w \in Seq(Nat) /\ Len(w) = s.len
  BY DEF Holds, Slices
<1>2. CASE s.arr = 0
  BY <1>1, <1>2 DEF Holds, Elements
<1>3. CASE s.arr # 0
  <2> DEFINE b == arrays[s.arr]
             n == s.len
  <2>1. /\ b \in Seq(Nat) /\ n \in 1..Len(b) /\ \A k \in 1..n : b[k] = w[k]
    <3>1. s.arr \in 1..Len(arrays) /\ n \in 1..Len(b) /\ \A k \in 1..n : b[k] = w[k]
      BY <1>3 DEF Holds
    <3>2. b \in Seq(Nat)
      BY <3>1, ElementOfSeq DEF Arrays
    <3> QED
      BY <3>1, <3>2
  <2>2. Elements(s) = SubSeq(b, 1, n)
    BY <1>3 DEF Elements
  <2> HIDE DEF b, n
  <2>3. /\ SubSeq(b, 1, n) \in Seq(Nat) /\ Len(SubSeq(b, 1, n)) = n
        /\ \A k \in 1..n : SubSeq(b, 1, n)[k] = b[k]
    BY <2>1
  <2>4. Len(w) = n
    BY <1>1 DEF n
  <2> QED
    BY <2>1, <2>2, <2>3, <2>4, <1>1, SeqEqual
<1> QED
  BY <1>2, <1>3

\* A nil slice has no elements.
LEMMA NilHolds ==
    ASSUME NEW a PROVE Holds(a, Nil, <<>>)
BY DEF Holds, Nil, Slices

\* append gives the slice one element more, and changes no slice apart from it.
LEMMA AppendHolds ==
    ASSUME arrays \in Arrays, NEW s, NEW w, Holds(arrays, s, w), NEW x \in Nat,
           NEW r, r = AppendTo(s, x)
    PROVE  /\ r.arrays \in Arrays /\ Holds(r.arrays, r.slice, Append(w, x))
           /\ \A u, v : Holds(arrays, u, v) /\ Apart(s, u) =>
                 Holds(r.arrays, u, v) /\ Apart(r.slice, u)
<1>1. /\ s \in Slices /\ s.arr \in Nat /\ s.len \in Nat
      /\ w \in Seq(Nat) /\ Len(w) = s.len
  BY DEF Holds, Slices
<1>2. /\ Append(w, x) \in Seq(Nat) /\ Len(Append(w, x)) = s.len + 1
      /\ Append(w, x)[s.len + 1] = x /\ \A k \in 1..s.len : Append(w, x)[k] = w[k]
  BY <1>1
<1>3. \A u, v : Holds(arrays, u, v) => u.arr \in Nat /\ (u.arr # 0 => u.arr \in 1..Len(arrays))
  BY DEF Holds, Slices
<1>4. CASE s.len < Cap(s)
  <2> DEFINE n == s.len
             b == arrays[s.arr]
             c == [b EXCEPT ![n + 1] = x]
             d == [arrays EXCEPT ![s.arr] = c]
             z == [s EXCEPT !.len = n + 1]
  <2>1. s.arr # 0 /\ n < Len(b)
    BY <1>1, <1>4 DEF Cap
  <2>2. s.arr \in 1..Len(arrays) /\ b \in Seq(Nat) /\ \A k \in 1..n : b[k] = w[k]
    <3>1. s.arr \in 1..Len(arrays) /\ \A k \in 1..n : b[k] = w[k]
      BY <2>1 DEF Holds
    <3>2. b \in Seq(Nat)
      BY <3>1, ElementOfSeq DEF Arrays
    <3> QED
      BY <3>1, <3>2
  <2>3. r.arrays = d /\ r.slice = z
    BY <1>4 DEF AppendTo
  <2>4. z \in Slices /\ z.arr = s.arr /\ z.len = n + 1
    BY <1>1 DEF Slices
  <2> HIDE DEF b, n, z
  <2>5. /\ c \in Seq(Nat) /\ Len(c) = Len(b) /\ n + 1 \in 1..Len(b)
        /\ c[n + 1] = x /\ \A k \in 1..n : c[k] = b[k]
    <3>1. n + 1 \in 1..Len(b) /\ n \in Nat
      BY <2>1, <2>2, <1>1 DEF n
    <3> QED
      BY <3>1, <2>2, ExceptSeq
  <2> HIDE DEF c
  <2>6. /\ d \in Arrays /\ Len(d) = Len(arrays) /\ d[s.arr] = c
        /\ \A i \in 1..Len(arrays) : i # s.arr => d[i] = arrays[i]
    BY <2>2, <2>5, ExceptSeq DEF Arrays
  <2> HIDE DEF d
  <2>7. Holds(d, z, Append(w, x))
    <3>1. \A k \in 1..(n + 1) : c[k] = Append(w, x)[k]
      <4>1. \A k \in 1..(n + 1) : k \in 1..n \/ k = n + 1
        BY <1>1 DEF n
      <4> QED
        BY <4>1, <1>2, <2>2, <2>5 DEF n
    <3>2. /\ Append(w, x) \in Seq(Nat) /\ Len(Append(w, x)) = z.len
          /\ z.len = n + 1 /\ z.len \in 1..Len(c)
      BY <1>2, <2>2, <2>4, <2>5 DEF n
    <3>3. z.arr # 0 /\ z.arr \in 1..Len(d) /\ d[z.arr] = c
      BY <2>1, <2>2, <2>4, <2>6
    <3> QED
      BY <3>1, <3>2, <3>3, <2>4 DEF Holds
  <2>8. ASSUME NEW u, NEW v, Holds(arrays, u, v), Apart(s, u)
        PROVE  Holds(d, u, v) /\ Apart(z, u)
    <3>1. Apart(z, u) /\ u.arr # s.arr
      BY <2>1, <2>4, <2>8 DEF Apart
    <3>2. Holds(d, u, v)
      BY <3>1, <2>6, <2>8 DEF Holds
    <3> QED
      BY <3>1, <3>2
  <2> QED
    BY <2>3, <2>6, <2>7, <2>8
<1>5. CASE ~ (s.len < Cap(s))
  <2> DEFINE n == s.len
             e == Append(w, x)
             m == IF n = 0 THEN 1 ELSE 2 * n
             b == Pad(e, m)
             d == Append(arrays, b)
             z == [arr |-> Len(arrays) + 1, len |-> n + 1]
  <2>1. r.arrays = d /\ r.slice = z
    BY <1>5, ElementsAre DEF AppendTo
  <2>2. m \in Nat /\ n + 1 <= m /\ n \in Nat
    BY <1>1
  <2> HIDE DEF e, m, n
  <2>3. e \in Seq(Nat) /\ Len(e) = n + 1 /\ e = Append(w, x)
    BY <1>2 DEF e, n
  <2>4. b \in [1..m -> Nat] /\ \A k \in 1..(n + 1) : b[k] = e[k]
    BY <2>2, <2>3 DEF Pad
  <2>5. b \in Seq(Nat) /\ Len(b) = m
    BY <2>2, <2>4, FunIsSeq
  <2> HIDE DEF b
  <2>6. /\ d \in Arrays /\ Len(arrays) \in Nat /\ Len(d) = Len(arrays) + 1
        /\ d[Len(arrays) + 1] = b /\ \A i \in 1..Len(arrays) : d[i] = arrays[i]
    BY <2>5 DEF Arrays
  <2>7. z \in Slices /\ z.arr = Len(arrays) + 1 /\ z.len = n + 1
    BY <2>2, <2>6 DEF Slices
  <2> HIDE DEF d, z
  <2>8. Holds(d, z, e)
    <3>1. z.arr # 0 /\ z.arr \in 1..Len(d) /\ d[z.arr] = b
      BY <2>6, <2>7
    <3>2. z.len \in 1..Len(b) /\ \A k \in 1..z.len : b[k] = e[k]
      BY <2>2, <2>4, <2>5, <2>7
    <3> QED
      BY <3>1, <3>2, <2>3, <2>7 DEF Holds
  <2>9. ASSUME NEW u, NEW v, Holds(arrays, u, v) PROVE Holds(d, u, v) /\ Apart(z, u)
    <3>1. Apart(z, u)
      BY <1>3, <2>6, <2>7, <2>9 DEF Apart
    <3>2. Holds(d, u, v)
      <4>1. CASE u.arr = 0
        BY <2>9, <4>1 DEF Holds
      <4>2. CASE u.arr # 0
        <5>1. u.arr \in 1..Len(arrays) /\ u.arr \in 1..Len(d) /\ d[u.arr] = arrays[u.arr]
          BY <2>6, <2>9, <4>2 DEF Holds
        <5> QED
          BY <2>9, <4>2, <5>1 DEF Holds
      <4> QED
        BY <4>1, <4>2
    <3> QED
      BY <3>1, <3>2
  <2> QED
    BY <2>1, <2>3, <2>6, <2>8, <2>9
<1> QED
  BY <1>4, <1>5

\* A copy is apart from every slice there is.
LEMMA CopyHolds ==
    ASSUME NEW a \in Arrays, NEW e \in Seq(Nat)
    PROVE  /\ CopyInto(a, e) \in Arrays /\ Holds(CopyInto(a, e), CopySlice(a, e), e)
           /\ \A u, v : Holds(a, u, v) => Holds(CopyInto(a, e), u, v) /\ Apart(CopySlice(a, e), u)
<1>1. CASE e = <<>>
  BY <1>1, NilHolds DEF CopyInto, CopySlice, Apart, Nil
<1>2. CASE e # <<>>
  <2> DEFINE d == Append(a, e)
             z == [arr |-> Len(a) + 1, len |-> Len(e)]
  <2>1. CopyInto(a, e) = d /\ CopySlice(a, e) = z
    BY <1>2 DEF CopyInto, CopySlice
  <2>2. /\ d \in Arrays /\ Len(a) \in Nat /\ Len(d) = Len(a) + 1
        /\ d[Len(a) + 1] = e /\ \A i \in 1..Len(a) : d[i] = a[i]
    BY DEF Arrays
  <2>3. Len(e) \in Nat /\ Len(e) > 0
    BY <1>2, EmptySeq
  <2>4. z \in Slices /\ z.arr = Len(a) + 1 /\ z.len = Len(e)
    BY <2>2, <2>3 DEF Slices
  <2> HIDE DEF d, z
  <2>5. Holds(d, z, e)
    BY <2>2, <2>3, <2>4 DEF Holds
  <2>6. ASSUME NEW u, NEW v, Holds(a, u, v) PROVE Holds(d, u, v) /\ Apart(z, u)
    <3>1. u.arr \in Nat /\ (u.arr # 0 => u.arr \in 1..Len(a))
      BY <2>6 DEF Holds, Slices
    <3>2. Holds(d, u, v)
      BY <3>1, <2>2, <2>6 DEF Holds
    <3> QED
      BY <3>1, <3>2, <2>2, <2>4 DEF Apart
  <2> QED
    BY <2>1, <2>2, <2>5, <2>6
<1> QED
  BY <1>1, <1>2

-----------------------------------------------------------------------------
(* Every action keeps the invariant.                                       *)

\* What the invariant says of one owner.
LEMMA OwnersAre ==
    ASSUME Inv, NEW o \in Ids
    PROVE  /\ owners[o] \in Owner /\ Len(owners) \in Nat /\ arrays \in Arrays
           /\ Holds(arrays, owners[o].middleware, owners[o].wantStd)
           /\ Holds(arrays, owners[o].fastMiddleware, owners[o].wantFast)
BY ElementOfSeq DEF Inv, Kept, Ids

\* What middleware is added to leaves prefixes and parts alone.
SameParts == \A p \in Ids : /\ owners'[p].prefix = owners[p].prefix
                            /\ owners'[p].parts = owners[p].parts

\* An append of standard middleware writes into no array that anybody else has.
LEMMA UseKeeps ==
    ASSUME Inv, NEW o \in Ids, Use(o) PROVE Inv' /\ SameParts /\ Ids' = Ids
<1> DEFINE x == used + 1
           s == owners[o].middleware
           r == AppendTo(s, x)
           w == Append(owners[o].wantStd, x)
           g == [owners[o] EXCEPT !.middleware = r.slice, !.wantStd = w]
<1>1. /\ x \in Nat /\ arrays' = r.arrays /\ used' = x
      /\ owners' = [owners EXCEPT ![o].middleware = r.slice, ![o].wantStd = Append(@, x)]
      /\ UNCHANGED <<routes, usedFast>>
  BY DEF Inv, Use
<1>2. /\ owners \in Seq(Owner) /\ owners[o] \in Owner /\ Len(owners) \in Nat
      /\ Holds(arrays, s, owners[o].wantStd) /\ arrays \in Arrays
  BY OwnersAre DEF Inv
<1>3. /\ r.arrays \in Arrays /\ Holds(r.arrays, r.slice, w)
      /\ \A u, v : Holds(arrays, u, v) /\ Apart(s, u) =>
            Holds(r.arrays, u, v) /\ Apart(r.slice, u)
  BY <1>1, <1>2, AppendHolds
<1> HIDE DEF r, w, x
<1>4. /\ g \in Owner /\ g.middleware = r.slice /\ g.wantStd = w
      /\ g.fastMiddleware = owners[o].fastMiddleware /\ g.wantFast = owners[o].wantFast
      /\ g.prefix = owners[o].prefix /\ g.parts = owners[o].parts
  <2>1. r.slice \in Slices /\ w \in Seq(Nat)
    BY <1>3 DEF Holds
  <2> QED
    BY <2>1, <1>2 DEF Owner
<1>5. /\ owners' \in Seq(Owner) /\ Len(owners') = Len(owners) /\ owners'[o] = g
      /\ \A p \in Ids : p # o => owners'[p] = owners[p]
  <2> DEFINE h == [owners[o] EXCEPT !.middleware = r.slice]
             k == [owners EXCEPT ![o] = h]
  <2>1. h \in Owner /\ g = [h EXCEPT !.wantStd = w] /\ h.wantStd = owners[o].wantStd
    BY <1>2, <1>3 DEF Owner, Holds
  <2>2. owners' = [k EXCEPT ![o] = [k[o] EXCEPT !.wantStd = Append(k[o].wantStd, x)]]
    BY <1>1
  <2> HIDE DEF h, g
  <2>3. k \in Seq(Owner) /\ Len(k) = Len(owners) /\ k[o] = h
        /\ \A p \in Ids : p # o => k[p] = owners[p]
    BY <1>2, <2>1, ExceptSeq DEF Ids
  <2>4. owners' = [k EXCEPT ![o] = g]
    BY <2>1, <2>2, <2>3 DEF w
  <2> HIDE DEF k
  <2> QED
    BY <1>4, <2>3, <2>4, ExceptSeq DEF Ids
<1> HIDE DEF g
<1>6. \A p \in Ids : /\ Holds(arrays, owners[p].middleware, owners[p].wantStd)
                     /\ Holds(arrays, owners[p].fastMiddleware, owners[p].wantFast)
                     /\ p # o => Apart(s, owners[p].middleware)
                     /\ Apart(s, owners[p].fastMiddleware)
  BY DEF Inv, Kept, Unshared, Apart
<1>7. Kept'
  <2> SUFFICES ASSUME NEW p \in Ids
               PROVE  /\ Holds(r.arrays, owners'[p].middleware, owners'[p].wantStd)
                      /\ Holds(r.arrays, owners'[p].fastMiddleware, owners'[p].wantFast)
    BY <1>1, <1>5 DEF Kept, Ids
  <2>1. CASE p = o
    BY <2>1, <1>3, <1>4, <1>5, <1>6
  <2>2. CASE p # o
    BY <2>2, <1>3, <1>5, <1>6
  <2> QED
    BY <2>1, <2>2
<1>8. Unshared'
  <2>1. \A p \in Ids : /\ p # o => Apart(r.slice, owners[p].middleware)
                       /\ Apart(r.slice, owners[p].fastMiddleware)
    BY <1>3, <1>6
  <2> SUFFICES ASSUME NEW p \in Ids, NEW q \in Ids
               PROVE  /\ Apart(owners'[p].middleware, owners'[q].fastMiddleware)
                      /\ p # q => /\ Apart(owners'[p].middleware, owners'[q].middleware)
                                  /\ Apart(owners'[p].fastMiddleware, owners'[q].fastMiddleware)
    BY <1>5 DEF Unshared, Ids
  <2>2. /\ Apart(owners[p].middleware, owners[q].fastMiddleware)
        /\ p # q => /\ Apart(owners[p].middleware, owners[q].middleware)
                    /\ Apart(owners[p].fastMiddleware, owners[q].fastMiddleware)
    BY DEF Inv, Unshared
  <2> QED
    BY <2>1, <2>2, <1>4, <1>5 DEF Apart
<1>9. SameParts /\ Ids' = Ids
  BY <1>4, <1>5 DEF SameParts, Ids
<1> QED
  BY <1>1, <1>3, <1>5, <1>7, <1>8, <1>9 DEF Inv

\* The same for an append of fast middleware.
LEMMA UseFastKeeps ==
    ASSUME Inv, NEW o \in Ids, UseFast(o) PROVE Inv' /\ SameParts /\ Ids' = Ids
<1> DEFINE x == usedFast + 1
           s == owners[o].fastMiddleware
           r == AppendTo(s, x)
           w == Append(owners[o].wantFast, x)
           g == [owners[o] EXCEPT !.fastMiddleware = r.slice, !.wantFast = w]
<1>1. /\ x \in Nat /\ arrays' = r.arrays /\ usedFast' = x
      /\ owners' = [owners EXCEPT ![o].fastMiddleware = r.slice, ![o].wantFast = Append(@, x)]
      /\ UNCHANGED <<routes, used>>
  BY DEF Inv, UseFast
<1>2. /\ owners \in Seq(Owner) /\ owners[o] \in Owner /\ Len(owners) \in Nat
      /\ Holds(arrays, s, owners[o].wantFast) /\ arrays \in Arrays
  BY OwnersAre DEF Inv
<1>3. /\ r.arrays \in Arrays /\ Holds(r.arrays, r.slice, w)
      /\ \A u, v : Holds(arrays, u, v) /\ Apart(s, u) =>
            Holds(r.arrays, u, v) /\ Apart(r.slice, u)
  BY <1>1, <1>2, AppendHolds
<1> HIDE DEF r, w, x
<1>4. /\ g \in Owner /\ g.fastMiddleware = r.slice /\ g.wantFast = w
      /\ g.middleware = owners[o].middleware /\ g.wantStd = owners[o].wantStd
      /\ g.prefix = owners[o].prefix /\ g.parts = owners[o].parts
  <2>1. r.slice \in Slices /\ w \in Seq(Nat)
    BY <1>3 DEF Holds
  <2> QED
    BY <2>1, <1>2 DEF Owner
<1>5. /\ owners' \in Seq(Owner) /\ Len(owners') = Len(owners) /\ owners'[o] = g
      /\ \A p \in Ids : p # o => owners'[p] = owners[p]
  <2> DEFINE h == [owners[o] EXCEPT !.fastMiddleware = r.slice]
             k == [owners EXCEPT ![o] = h]
  <2>1. h \in Owner /\ g = [h EXCEPT !.wantFast = w] /\ h.wantFast = owners[o].wantFast
    BY <1>2, <1>3 DEF Owner, Holds
  <2>2. owners' = [k EXCEPT ![o] = [k[o] EXCEPT !.wantFast = Append(k[o].wantFast, x)]]
    BY <1>1
  <2> HIDE DEF h, g
  <2>3. k \in Seq(Owner) /\ Len(k) = Len(owners) /\ k[o] = h
        /\ \A p \in Ids : p # o => k[p] = owners[p]
    BY <1>2, <2>1, ExceptSeq DEF Ids
  <2>4. owners' = [k EXCEPT ![o] = g]
    BY <2>1, <2>2, <2>3 DEF w
  <2> HIDE DEF k
  <2> QED
    BY <1>4, <2>3, <2>4, ExceptSeq DEF Ids
<1> HIDE DEF g
<1>6. \A p \in Ids : /\ Holds(arrays, owners[p].middleware, owners[p].wantStd)
                     /\ Holds(arrays, owners[p].fastMiddleware, owners[p].wantFast)
                     /\ p # o => Apart(s, owners[p].fastMiddleware)
                     /\ Apart(s, owners[p].middleware)
  BY DEF Inv, Kept, Unshared, Apart
<1>7. Kept'
  <2> SUFFICES ASSUME NEW p \in Ids
               PROVE  /\ Holds(r.arrays, owners'[p].middleware, owners'[p].wantStd)
                      /\ Holds(r.arrays, owners'[p].fastMiddleware, owners'[p].wantFast)
    BY <1>1, <1>5 DEF Kept, Ids
  <2>1. CASE p = o
    BY <2>1, <1>3, <1>4, <1>5, <1>6
  <2>2. CASE p # o
    BY <2>2, <1>3, <1>5, <1>6
  <2> QED
    BY <2>1, <2>2
<1>8. Unshared'
  <2>1. \A p \in Ids : /\ p # o => Apart(r.slice, owners[p].fastMiddleware)
                       /\ Apart(r.slice, owners[p].middleware)
    BY <1>3, <1>6
  <2> SUFFICES ASSUME NEW p \in Ids, NEW q \in Ids
               PROVE  /\ Apart(owners'[p].middleware, owners'[q].fastMiddleware)
                      /\ p # q => /\ Apart(owners'[p].middleware, owners'[q].middleware)
                                  /\ Apart(owners'[p].fastMiddleware, owners'[q].fastMiddleware)
    BY <1>5 DEF Unshared, Ids
  <2>2. /\ Apart(owners[p].middleware, owners[q].fastMiddleware)
        /\ p # q => /\ Apart(owners[p].middleware, owners[q].middleware)
                    /\ Apart(owners[p].fastMiddleware, owners[q].fastMiddleware)
    BY DEF Inv, Unshared
  <2> QED
    BY <2>1, <2>2, <1>4, <1>5 DEF Apart
<1>9. SameParts /\ Ids' = Ids
  BY <1>4, <1>5 DEF SameParts, Ids
<1> QED
  BY <1>1, <1>3, <1>5, <1>7, <1>8, <1>9 DEF Inv

\* A new group, whose slices are apart from all others.
LEMMA GroupKeeps ==
    ASSUME Inv, NEW g \in Owner, owners' = Append(owners, g), arrays' \in Arrays,
           Holds(arrays', g.middleware, g.wantStd), Holds(arrays', g.fastMiddleware, g.wantFast),
           Apart(g.middleware, g.fastMiddleware),
           \A u, v : Holds(arrays, u, v) =>
              Holds(arrays', u, v) /\ Apart(g.middleware, u) /\ Apart(g.fastMiddleware, u),
           used' \in Nat, usedFast' \in Nat, routes' = routes
    PROVE  Inv'
<1> DEFINE n == Len(owners)
<1>1. /\ owners \in Seq(Owner) /\ n \in Nat /\ n > 0
      /\ owners' \in Seq(Owner) /\ Len(owners') = n + 1 /\ owners'[n + 1] = g
      /\ \A p \in 1..n : owners'[p] = owners[p]
  BY DEF Inv
<1>2. \A p \in 1..n : /\ Holds(arrays, owners[p].middleware, owners[p].wantStd)
                      /\ Holds(arrays, owners[p].fastMiddleware, owners[p].wantFast)
  BY DEF Inv, Kept, Ids
<1>3. \A p \in 1..(n + 1) : p \in 1..n \/ p = n + 1
  BY <1>1
<1>4. Ids' = 1..(n + 1)
  BY <1>1 DEF Ids
<1> HIDE DEF n
<1>5. Kept'
  <2> SUFFICES ASSUME NEW p \in 1..(n + 1)
               PROVE  /\ Holds(arrays', owners'[p].middleware, owners'[p].wantStd)
                      /\ Holds(arrays', owners'[p].fastMiddleware, owners'[p].wantFast)
    BY <1>4 DEF Kept
  <2>1. CASE p \in 1..n
    BY <2>1, <1>1, <1>2
  <2>2. CASE p = n + 1
    BY <2>2, <1>1
  <2> QED
    BY <2>1, <2>2, <1>3
<1>6. Unshared'
  <2> SUFFICES ASSUME NEW p \in 1..(n + 1), NEW q \in 1..(n + 1)
               PROVE  /\ Apart(owners'[p].middleware, owners'[q].fastMiddleware)
                      /\ p # q => /\ Apart(owners'[p].middleware, owners'[q].middleware)
                                  /\ Apart(owners'[p].fastMiddleware, owners'[q].fastMiddleware)
    BY <1>4 DEF Unshared
  <2>1. \A m \in 1..n : /\ Apart(g.middleware, owners[m].middleware)
                        /\ Apart(g.middleware, owners[m].fastMiddleware)
                        /\ Apart(g.fastMiddleware, owners[m].middleware)
                        /\ Apart(g.fastMiddleware, owners[m].fastMiddleware)
    BY <1>2
  <2>2. CASE p \in 1..n /\ q \in 1..n
    BY <2>2, <1>1 DEF Inv, Unshared, Ids, n
  <2>3. CASE p = n + 1 \/ q = n + 1
    BY <2>1, <2>3, <1>1, <1>3 DEF Apart
  <2> QED
    BY <2>2, <2>3, <1>3
<1> QED
  BY <1>1, <1>5, <1>6 DEF Inv

\* A group with copies of two chains.
LEMMA CopiesKeep ==
    ASSUME Inv, NEW std \in Seq(Nat), NEW fst \in Seq(Nat), NEW prefix \in Patterns,
           NEW parts \in Seq(Patterns),
           arrays' = CopyInto(CopyInto(arrays, std), fst),
           owners' = Append(owners,
              [NewOwner(prefix, CopySlice(arrays, std), CopySlice(CopyInto(arrays, std), fst),
                        std, fst) EXCEPT !.parts = parts]),
           used' \in Nat, usedFast' \in Nat, routes' = routes
    PROVE  Inv'
<1> DEFINE a == CopyInto(arrays, std)
           s == CopySlice(arrays, std)
           b == CopyInto(a, fst)
           t == CopySlice(a, fst)
           g == [NewOwner(prefix, s, t, std, fst) EXCEPT !.parts = parts]
<1>1. /\ a \in Arrays /\ Holds(a, s, std)
      /\ \A u, v : Holds(arrays, u, v) => Holds(a, u, v) /\ Apart(s, u)
  BY CopyHolds DEF Inv
<1>2. arrays' = b /\ owners' = Append(owners, g)
  OBVIOUS
<1> HIDE DEF a, s
<1>3. /\ b \in Arrays /\ Holds(b, t, fst)
      /\ \A u, v : Holds(a, u, v) => Holds(b, u, v) /\ Apart(t, u)
  BY <1>1, CopyHolds
<1> HIDE DEF b, t
<1>4. s \in Slices /\ t \in Slices
  BY <1>1, <1>3 DEF Holds
<1>5. /\ g \in Owner /\ g.middleware = s /\ g.fastMiddleware = t
      /\ g.wantStd = std /\ g.wantFast = fst
  BY <1>4 DEF NewOwner, Owner
<1> HIDE DEF g
<1>6. Holds(b, s, std) /\ Apart(s, t)
  BY <1>1, <1>3 DEF Apart
<1>7. \A u, v : Holds(arrays, u, v) => Holds(b, u, v) /\ Apart(s, u) /\ Apart(t, u)
  BY <1>1, <1>3
<1> QED
  BY <1>2, <1>3, <1>5, <1>6, <1>7, GroupKeeps

\* A joined prefix is a sequence of path elements.
LEMMA JoinType ==
    ASSUME NEW l \in Patterns, NEW r \in Patterns PROVE joinPrefix(l, r) \in Patterns
<1>1. CASE r = <<>>
  BY <1>1, ConcatProperties DEF joinPrefix, Patterns
<1>2. CASE r # <<>>
  <2>1. Tail(r) \in Patterns
    BY <1>2, HeadTailProperties DEF Patterns
  <2> QED
    BY <2>1, ConcatProperties DEF joinPrefix, Patterns
<1> QED
  BY <1>1, <1>2

\* What a slice reads as is what its owner should run.
LEMMA OwnElements ==
    ASSUME Inv, NEW o \in Ids
    PROVE  /\ Elements(owners[o].middleware) = owners[o].wantStd
           /\ Elements(owners[o].fastMiddleware) = owners[o].wantFast
           /\ owners[o].wantStd \in Seq(Nat) /\ owners[o].wantFast \in Seq(Nat)
           /\ owners[o].prefix \in Patterns /\ owners[o].parts \in Seq(Patterns)
<1>1. /\ Elements(owners[o].middleware) = owners[o].wantStd
      /\ Elements(owners[o].fastMiddleware) = owners[o].wantFast
  BY OwnersAre, ElementsAre
<1> QED
  BY <1>1, OwnersAre DEF Owner

\* A new group starts with slices of its own, in arrays made for it.
LEMMA NewGroupKeeps ==
    ASSUME Inv, NewGroup PROVE Inv'
<1>0. Prefixes \subseteq Patterns /\ Mux \in Ids /\ <<>> \in Seq(Nat) /\ <<>> \in Seq(Patterns)
  BY BoundsAssumption DEF BoundsAssumption, Patterns, Inv, Ids, Mux
<1>1. ASSUME NEW prefix \in Prefixes, MuxGroup(prefix) PROVE Inv'
  <2>1. /\ arrays' = CopyInto(CopyInto(arrays, <<>>), <<>>)
        /\ owners' = Append(owners,
              [NewOwner(prefix, CopySlice(arrays, <<>>), CopySlice(CopyInto(arrays, <<>>), <<>>),
                        <<>>, <<>>) EXCEPT !.parts = <<prefix>>])
        /\ UNCHANGED <<used, usedFast, routes>>
    BY <1>1 DEF MuxGroup, CopyInto, CopySlice
  <2>2. prefix \in Patterns /\ <<prefix>> \in Seq(Patterns)
    BY <1>0
  <2>3. used' \in Nat /\ usedFast' \in Nat
    BY <2>1 DEF Inv
  <2> QED
    BY <1>0, <2>1, <2>2, <2>3, CopiesKeep
<1>2. ASSUME NEW o \in Ids, NEW prefix \in Prefixes, SubGroup(o, prefix) PROVE Inv'
  <2> DEFINE std == owners[o].wantStd
             fst == owners[o].wantFast
             pre == joinPrefix(owners[o].prefix, prefix)
             parts == Append(owners[o].parts, prefix)
  <2>1. /\ arrays' = CopyInto(CopyInto(arrays, std), fst)
        /\ owners' = Append(owners,
              [NewOwner(pre, CopySlice(arrays, std), CopySlice(CopyInto(arrays, std), fst),
                        std, fst) EXCEPT !.parts = parts])
        /\ UNCHANGED <<used, usedFast, routes>>
    BY <1>2, OwnElements DEF SubGroup
  <2>2. std \in Seq(Nat) /\ fst \in Seq(Nat) /\ pre \in Patterns /\ parts \in Seq(Patterns)
    BY <1>0, OwnElements, JoinType, AppendProperties
  <2>3. used' \in Nat /\ usedFast' \in Nat
    BY <2>1 DEF Inv
  <2> HIDE DEF std, fst, pre, parts
  <2> QED
    BY <2>1, <2>2, <2>3, CopiesKeep
<1>3. ASSUME NEW o \in Ids, With(o) PROVE Inv'
  <2> DEFINE std == IF o = Mux THEN <<used + 1>> ELSE Append(owners[o].wantStd, used + 1)
             fst == IF o = Mux THEN <<>> ELSE owners[o].wantFast
             pre == owners[o].prefix
             parts == owners[o].parts
  <2>1. /\ arrays' = CopyInto(CopyInto(arrays, std), fst)
        /\ owners' = Append(owners,
              [NewOwner(pre, CopySlice(arrays, std), CopySlice(CopyInto(arrays, std), fst),
                        std, fst) EXCEPT !.parts = parts])
        /\ used' = used + 1 /\ UNCHANGED <<usedFast, routes>>
    <3>1. CASE o = Mux
      BY <1>3, <3>1 DEF With
    <3>2. CASE o # Mux
      BY <1>3, <3>2, OwnElements DEF With
    <3> QED
      BY <3>1, <3>2
  <2>2. used + 1 \in Nat
    BY DEF Inv
  <2>3. std \in Seq(Nat) /\ fst \in Seq(Nat) /\ pre \in Patterns /\ parts \in Seq(Patterns)
    <3>1. <<used + 1>> \in Seq(Nat) /\ Append(owners[o].wantStd, used + 1) \in Seq(Nat)
      BY <2>2, OwnElements, AppendProperties
    <3> QED
      BY <3>1, <1>0, OwnElements
  <2>4. used' \in Nat /\ usedFast' \in Nat
    BY <2>1, <2>2 DEF Inv
  <2> HIDE DEF std, fst, pre, parts
  <2> QED
    BY <2>1, <2>3, <2>4, CopiesKeep
<1> QED
  BY <1>1, <1>2, <1>3 DEF NewGroup

-----------------------------------------------------------------------------
(* Routes.                                                                 *)

\* A trimmed prefix is a sequence of path elements.
LEMMA TrimRightType ==
    ASSUME NEW p \in Patterns PROVE TrimRight(p) \in Patterns
<1> DEFINE Clean(m) == \A k \in (m + 1)..Len(p) : p[k] = Slash
           Ends(m) == (m > 0 => p[m] # Slash) /\ Clean(m)
           T == {m \in 0..Len(p) : Clean(m)}
           n == CHOOSE m \in 0..Len(p) : Ends(m)
<1>1. Len(p) \in Nat /\ T \subseteq Nat /\ Len(p) \in T
  BY DEF Patterns
<1>2. PICK m \in T : \A j \in T : ~ (<<j, m>> \in OpToRel(<, Nat))
  <2> HIDE DEF T
  <2> QED
    BY <1>1, NatLessThanWellFounded, WFMin
<1>3. ASSUME m > 0, p[m] = Slash PROVE FALSE
  <2>1. m \in Nat /\ m \in 0..Len(p) /\ m - 1 \in 0..Len(p)
    BY <1>1, <1>3
  <2>2. \A k \in ((m - 1) + 1)..Len(p) : k = m \/ k \in (m + 1)..Len(p)
    BY <2>1, <1>1
  <2>3. m - 1 \in T
    BY <2>1, <2>2, <1>3
  <2>4. <<m - 1, m>> \in Nat \X Nat /\ m - 1 < m
    BY <2>1, <1>1, <2>3
  <2> QED
    BY <2>3, <2>4, <1>2, Zenon DEF OpToRel
<1>4. Ends(m) /\ m \in 0..Len(p)
  BY <1>3
<1>5. n \in 0..Len(p)
  <2> HIDE DEF Ends
  <2> QED
    BY <1>4
<1>6. TrimRight(p) = SubSeq(p, 1, n)
  BY DEF TrimRight
<1> HIDE DEF n
<1>7. \A k \in 1..n : p[k] \in STRING
  BY <1>1, <1>5, ElementOfSeq DEF Patterns
<1> QED
  BY <1>1, <1>5, <1>6, <1>7, SubSeqProperties DEF Patterns

\* A route registered now is exact.
LEMMA RouteExact ==
    ASSUME Inv, NEW o \in Ids, NEW m \in Methods \cup {"*"}, NEW path \in Paths, NEW kind \in Kinds,
           kind = "fast" => /\ Elements(owners[o].middleware) = <<>>
                            /\ Elements(owners[Mux].middleware) = <<>>
    PROVE  Route(o, m, path, kind) \in ExactRoute
<1>0. Paths \subseteq Patterns /\ Mux \in Ids /\ Slash \in STRING /\ CatchAll \in STRING
  BY BoundsAssumption DEF BoundsAssumption, Patterns, Inv, Ids, Mux
<1>1. Std(o) = WantStd(o) /\ Fast(o) = WantFast(o)
  BY <1>0, OwnElements DEF Std, WantStd, Fast, WantFast, Own
<1>2. WantStd(o) \in Seq(Nat) /\ WantFast(o) \in Seq(Nat)
  BY <1>0, OwnElements, ConcatProperties, EmptySeq DEF WantStd, WantFast, Own
<1>3. kind = "fast" => WantStd(o) = <<>>
  BY <1>0, OwnElements DEF WantStd, Own
<1>4. Pattern(o, path) \in Patterns
  BY <1>0, OwnElements, JoinType DEF Pattern
<1>5. MountPattern(Pattern(o, path)) \in Patterns
  <2>1. TrimRight(Pattern(o, path)) \in Patterns /\ <<Slash, CatchAll>> \in Patterns
    BY <1>0, <1>4, TrimRightType DEF Patterns
  <2> QED
    BY <2>1, ConcatProperties DEF MountPattern, Patterns
<1>6. Append(owners[o].parts, path) \in Seq(Patterns)
  BY <1>0, OwnElements, AppendProperties
<1>7. <<>> \in Seq(Nat)
  OBVIOUS
<1> QED
  BY <1>1, <1>2, <1>3, <1>4, <1>5, <1>6, <1>7 DEF Route, ExactRoute

\* Whatever methods are registered together.
LEMMA AddKeeps ==
    ASSUME Inv, NEW o \in Ids, NEW ms \in Seq(Methods \cup {"*"}), NEW path \in Paths,
           NEW kind \in Kinds, Add(o, ms, path, kind),
           kind = "fast" => /\ Elements(owners[o].middleware) = <<>>
                            /\ Elements(owners[Mux].middleware) = <<>>
    PROVE  Inv'
<1>1. PICK n \in 0..Len(ms) : routes' = routes \o [k \in 1..n |-> Route(o, ms[k], path, kind)]
  BY DEF Add
<1>2. UNCHANGED <<arrays, owners, used, usedFast>>
  BY DEF Add
<1> DEFINE f == [k \in 1..n |-> Route(o, ms[k], path, kind)]
<1>3. n \in Nat /\ \A k \in 1..n : ms[k] \in Methods \cup {"*"}
  OBVIOUS
<1>4. f \in [1..n -> ExactRoute]
  BY <1>3, RouteExact
<1> HIDE DEF f
<1>5. f \in Seq(ExactRoute)
  BY <1>3, <1>4, FunIsSeq
<1>6. routes' \in Seq(ExactRoute)
  BY <1>1, <1>5, ConcatProperties DEF Inv, f
<1> QED
  BY <1>2, <1>6 DEF Inv, Kept, Unshared, Ids

\* Every registration adds routes that run what they should.
LEMMA RegisterKeeps ==
    ASSUME Inv, NEW o \in Ids, NEW path \in Paths, Register(o, path) PROVE Inv'
<1>1. ASSUME NEW m \in Methods, Handle(o, m, path) PROVE Inv'
  <2>1. <<m>> \in Seq(Methods \cup {"*"}) /\ "std" \in Kinds
    BY DEF Kinds
  <2> QED
    BY <1>1, <2>1, AddKeeps DEF Handle
<1>2. ASSUME NEW m \in Methods, HandleFast(o, m, path) PROVE Inv'
  <2>1. <<m>> \in Seq(Methods \cup {"*"}) /\ "fast" \in Kinds
    BY DEF Kinds
  <2> QED
    BY <1>2, <2>1, AddKeeps DEF HandleFast
<1>3. ASSUME NEW ms \in Methods \X Methods, Match(o, ms, path) PROVE Inv'
  <2>1. PICK a \in Methods, b \in Methods : ms = <<a, b>>
    OBVIOUS
  <2>2. <<a, b>> \in Seq(Methods \cup {"*"})
    OBVIOUS
  <2>3. ms \in Seq(Methods \cup {"*"}) /\ "std" \in Kinds
    BY <2>1, <2>2 DEF Kinds
  <2> QED
    BY <1>3, <2>3, AddKeeps DEF Match
<1>4. CASE Mount(o, path)
  <2>1. <<"*">> \in Seq(Methods \cup {"*"}) /\ "mount" \in Kinds
    BY DEF Kinds
  <2> QED
    BY <1>4, <2>1, AddKeeps DEF Mount
<1>5. CASE ServeFiles(o, path)
  <2>1. <<"GET", "HEAD">> \in Seq(Methods \cup {"*"}) /\ "files" \in Kinds
    BY BoundsAssumption DEF BoundsAssumption, Kinds
  <2> QED
    BY <1>5, <2>1, AddKeeps DEF ServeFiles
<1> QED
  BY <1>1, <1>2, <1>3, <1>4, <1>5 DEF Register

-----------------------------------------------------------------------------
\* The Mux starts with no group, no route and no middleware.
LEMMA InvInit == Init => Inv
<1> SUFFICES ASSUME Init PROVE Inv
  OBVIOUS
<1> DEFINE g == NewOwner(<<>>, Nil, Nil, <<>>, <<>>)
<1>1. g \in Owner
  BY DEF Owner, NewOwner, Nil, Slices, Patterns
<1>2. /\ g.middleware = Nil /\ g.fastMiddleware = Nil /\ g.wantStd = <<>> /\ g.wantFast = <<>>
  BY DEF NewOwner
<1>3. arrays = <<>> /\ routes = <<>> /\ used = 0 /\ usedFast = 0 /\ owners = <<g>>
  BY DEF Init
<1> HIDE DEF g
<1>4. owners \in Seq(Owner) /\ Len(owners) = 1 /\ owners[1] = g
  BY <1>1, <1>3
<1>5. \A o \in Ids : o = 1
  BY <1>4 DEF Ids
<1>6. Kept
  BY <1>2, <1>4, <1>5, NilHolds DEF Kept
<1>7. Unshared
  BY <1>2, <1>4, <1>5 DEF Unshared, Apart, Nil
<1> QED
  BY <1>3, <1>4, <1>6, <1>7 DEF Inv, Arrays

\* Every action keeps the invariant.
LEMMA InvStep == Inv /\ [Next]_vars => Inv'
<1> SUFFICES ASSUME Inv, [Next]_vars PROVE Inv'
  OBVIOUS
<1>1. CASE UNCHANGED vars
  BY <1>1 DEF vars, Inv, Kept, Unshared, Ids
<1>2. CASE Next
  BY <1>2, UseKeeps, UseFastKeeps, NewGroupKeeps, RegisterKeeps DEF Next
<1> QED
  BY <1>1, <1>2

\* The invariant holds in every reachable state.
LEMMA InvAlways == Spec => []Inv
BY InvInit, InvStep, PTL DEF Spec

\* Every route that was registered runs exactly the middleware that the Mux and the
\* groups around it had, in order, and so would a route registered now: no append
\* of a parent or of a sibling writes into an array that another group reads.
THEOREM ChainsAreExact == Spec => []ChainsExact
<1>1. Inv => ChainsExact
  <2> SUFFICES ASSUME Inv PROVE ChainsExact
    OBVIOUS
  <2>1. \A k \in 1..Len(routes) : routes[k].chain = routes[k].want
    BY DEF Inv, ExactRoute
  <2> QED
    BY <2>1, OwnElements DEF ChainsExact
<1> QED
  BY <1>1, InvAlways, PTL

\* HandleFast registers nothing that would run without standard middleware that is
\* in force on the Mux or on a group around it.
THEOREM FastRoutesBypassNothing == Spec => []FastNeverBypasses
<1>1. Inv => FastNeverBypasses
  BY DEF Inv, ExactRoute, FastNeverBypasses
<1> QED
  BY <1>1, InvAlways, PTL
-----------------------------------------------------------------------------
(* Patterns.                                                               *)

\* The number of slashes that are left out between l and r.
Glue(l, r) == IF l # <<>> /\ r # <<>> /\ l[Len(l)] = Slash /\ r[1] = Slash THEN 1 ELSE 0

\* s is l and then r, without the first d elements of r.
Pasted(s, l, r, d) ==
    /\ s \in Patterns /\ Len(s) = Len(l) + Len(r) - d
    /\ \A i \in 1..Len(s) : s[i] = IF i <= Len(l) THEN l[i] ELSE r[i - Len(l) + d]

\* Only a single slash disappears altogether.
LEMMA Swallowed ==
    ASSUME NEW m \in Nat, NEW n \in Nat, NEW d \in 0..1, n >= 1, m + n - d <= m
    PROVE  d = 1 /\ n = 1 /\ m + n - d = m
OBVIOUS

\* What joinPrefix returns, and what it begins and ends with.
LEMMA JoinIs ==
    ASSUME NEW l \in Patterns, NEW r \in Patterns
    PROVE  /\ Pasted(joinPrefix(l, r), l, r, Glue(l, r))
           /\ l # <<>> => joinPrefix(l, r) # <<>> /\ joinPrefix(l, r)[1] = l[1]
           /\ r # <<>> => /\ joinPrefix(l, r) # <<>>
                          /\ joinPrefix(l, r)[Len(joinPrefix(l, r))] = r[Len(r)]
<1> DEFINE s == joinPrefix(l, r)
           d == Glue(l, r)
<1>1. /\ Len(l) \in Nat /\ Len(r) \in Nat /\ (l # <<>> => Len(l) >= 1) /\ (r # <<>> => Len(r) >= 1)
      /\ l \in Seq(STRING) /\ r \in Seq(STRING) /\ d \in 0..1
  BY DEF Patterns, Glue
<1>2. Pasted(s, l, r, d)
  <2>1. CASE d = 1
    <3>1. r # <<>> /\ s = l \o Tail(r)
      BY <2>1 DEF Glue, joinPrefix
    <3>2. /\ Tail(r) \in Seq(STRING) /\ Len(Tail(r)) = Len(r) - 1
          /\ \A i \in 1..(Len(r) - 1) : Tail(r)[i] = r[i + 1]
      BY <1>1, <3>1, HeadTailProperties
    <3>3. /\ s \in Seq(STRING) /\ Len(s) = Len(l) + (Len(r) - 1)
          /\ \A i \in 1..(Len(l) + (Len(r) - 1)) :
                s[i] = IF i <= Len(l) THEN l[i] ELSE Tail(r)[i - Len(l)]
      BY <1>1, <3>1, <3>2, ConcatProperties
    <3>4. ASSUME NEW i \in 1..Len(s) PROVE s[i] = IF i <= Len(l) THEN l[i] ELSE r[i - Len(l) + d]
      <4>1. i <= Len(l) \/ (~ (i <= Len(l)) /\ i - Len(l) \in 1..(Len(r) - 1))
        BY <1>1, <3>3
      <4> QED
        BY <2>1, <3>2, <3>3, <4>1
    <3> HIDE DEF s, d
    <3> QED
      BY <1>1, <2>1, <3>3, <3>4 DEF Pasted, Patterns
  <2>2. CASE d = 0
    <3>1. s = l \o r
      BY <2>2 DEF Glue, joinPrefix
    <3>2. /\ s \in Seq(STRING) /\ Len(s) = Len(l) + Len(r)
          /\ \A i \in 1..(Len(l) + Len(r)) : s[i] = IF i <= Len(l) THEN l[i] ELSE r[i - Len(l)]
      BY <1>1, <3>1, ConcatProperties
    <3> HIDE DEF s, d
    <3> QED
      BY <1>1, <2>2, <3>2 DEF Pasted, Patterns
  <2> QED
    BY <1>1, <2>1, <2>2
<1>3. d = 1 => l # <<>> /\ r # <<>> /\ l[Len(l)] = Slash /\ r[1] = Slash
  BY DEF Glue
<1> HIDE DEF s, d
<1>4. l # <<>> => s # <<>> /\ s[1] = l[1]
  <2> SUFFICES ASSUME l # <<>> PROVE Len(s) >= 1 /\ s[1] = l[1]
    BY <1>2 DEF Pasted, Patterns
  <2>1. Len(s) \in Nat /\ Len(s) >= 1 /\ 1 <= Len(l)
    BY <1>1, <1>2, <1>3 DEF Pasted
  <2> QED
    BY <1>2, <2>1 DEF Pasted
<1>5. r # <<>> => s # <<>> /\ s[Len(s)] = r[Len(r)]
  <2> SUFFICES ASSUME r # <<>> PROVE Len(s) >= 1 /\ s[Len(s)] = r[Len(r)]
    BY <1>2 DEF Pasted, Patterns
  <2>1. Len(s) \in Nat /\ Len(s) >= 1 /\ Len(s) = Len(l) + Len(r) - d
    BY <1>1, <1>2, <1>3 DEF Pasted
  <2>2. CASE Len(s) <= Len(l)
    <3>1. d = 1 /\ Len(r) = 1 /\ Len(s) = Len(l)
      <4>1. Len(r) >= 1 /\ Len(l) + Len(r) - d <= Len(l)
        BY <1>1, <2>1, <2>2
      <4> QED
        BY <1>1, <2>1, <4>1, Swallowed
    <3> QED
      BY <1>2, <1>3, <2>1, <3>1 DEF Pasted
  <2>3. CASE ~ (Len(s) <= Len(l))
    <3>1. Len(s) - Len(l) + d = Len(r) /\ Len(s) \in 1..Len(s)
      BY <1>1, <2>1
    <3> QED
      BY <1>2, <2>3, <3>1 DEF Pasted
  <2> QED
    BY <2>2, <2>3
<1> QED
  BY <1>2, <1>4, <1>5 DEF s, d

\* There is one such sequence.
LEMMA PastedSame ==
    ASSUME NEW l, NEW r, NEW d, NEW s, NEW t, Pasted(s, l, r, d), Pasted(t, l, r, d)
    PROVE  s = t
<1>1. /\ s \in Seq(STRING) /\ t \in Seq(STRING) /\ Len(s) = Len(t)
      /\ \A i \in 1..Len(s) : s[i] = t[i]
  BY DEF Pasted, Patterns
<1> QED
  BY <1>1, SeqEqual

\* A joint is made from either side alike.
LEMMA JointIs ==
    ASSUME NEW l \in Patterns, NEW r \in Patterns PROVE Joint(l, r) = joinPrefix(l, r)
<1>1. CASE Glue(l, r) = 0
  BY <1>1 DEF Glue, Joint, joinPrefix
<1>2. CASE Glue(l, r) = 1
  <2> DEFINE n == Len(l)
             h == SubSeq(l, 1, n - 1)
             s == h \o r
  <2>1. /\ l # <<>> /\ r # <<>> /\ l[n] = Slash /\ r[1] = Slash /\ Joint(l, r) = s
        /\ n \in Nat /\ n >= 1 /\ Len(r) \in Nat /\ Len(r) >= 1
        /\ l \in Seq(STRING) /\ r \in Seq(STRING)
    BY <1>2 DEF Glue, Joint, Patterns
  <2>2. h \in Seq(STRING) /\ Len(h) = n - 1 /\ \A i \in 1..(n - 1) : h[i] = l[i]
    <3>1. \A i \in 1..(n - 1) : l[i] \in STRING /\ 1 + i - 1 = i
      BY <2>1, ElementOfSeq
    <3>2. 1 \in Int /\ n - 1 \in Int /\ (n - 1) - 1 + 1 = n - 1 /\ (1 <= n - 1 \/ n - 1 = 0)
      <4>1. n \in Nat /\ n >= 1
        BY <2>1
      <4> HIDE DEF n
      <4> QED
        BY ONLY <4>1
    <3> QED
      BY <2>1, <3>1, <3>2, SubSeqProperties
  <2>3. /\ s \in Seq(STRING) /\ Len(s) = (n - 1) + Len(r)
        /\ \A i \in 1..((n - 1) + Len(r)) : s[i] = IF i <= n - 1 THEN h[i] ELSE r[i - (n - 1)]
    BY <2>1, <2>2, ConcatProperties
  <2>4. ASSUME NEW i \in 1..Len(s) PROVE s[i] = IF i <= n THEN l[i] ELSE r[i - n + 1]
    <3>1. CASE i <= n - 1
      BY <2>1, <2>2, <2>3, <3>1
    <3>2. CASE i = n
      <4>1. ~ (i <= n - 1) /\ i - (n - 1) = 1 /\ i <= n
        BY <2>1, <3>2
      <4> QED
        BY <2>1, <2>3, <3>2, <4>1
    <3>3. CASE i > n
      <4>1. ~ (i <= n - 1) /\ ~ (i <= n) /\ i - (n - 1) = i - n + 1
        BY <2>1, <2>3, <3>3
      <4> QED
        BY <2>3, <4>1
    <3> QED
      BY <2>1, <2>3, <3>1, <3>2, <3>3
  <2>5. Pasted(s, l, r, 1)
    <3> HIDE DEF s, h
    <3> QED
      BY <2>1, <2>3, <2>4 DEF Pasted, Patterns
  <2> QED
    <3>1. Pasted(joinPrefix(l, r), l, r, 1)
      BY <1>2, JoinIs
    <3> HIDE DEF s
    <3> QED
      BY <2>1, <2>5, <3>1, PastedSame
<1> QED
  BY <1>1, <1>2 DEF Glue

\* It does not matter which joint is made first.
LEMMA JoinAssociative ==
    ASSUME NEW a \in Patterns, NEW b \in Patterns, NEW c \in Patterns
    PROVE  joinPrefix(joinPrefix(a, b), c) = joinPrefix(a, joinPrefix(b, c))
<1> DEFINE ab == joinPrefix(a, b)
           bc == joinPrefix(b, c)
           s  == joinPrefix(ab, c)
           t  == joinPrefix(a, bc)
           d  == Glue(a, b)
           e  == Glue(b, c)
<1>1. ab \in Patterns /\ bc \in Patterns
  BY JoinType
<1>2. CASE b = <<>>
  <2>1. \A x \in Patterns : joinPrefix(x, <<>>) = x /\ joinPrefix(<<>>, x) = x
    BY ConcatEmptySeq DEF joinPrefix, Patterns
  <2> QED
    BY <1>2, <2>1
<1>3. CASE b # <<>>
  <2>1. Pasted(ab, a, b, d) /\ Pasted(bc, b, c, e)
    BY JoinIs
  <2>2. Glue(ab, c) = e /\ Glue(a, bc) = d
    <3>1. ab # <<>> /\ ab[Len(ab)] = b[Len(b)] /\ bc # <<>> /\ bc[1] = b[1]
      BY <1>3, JoinIs
    <3> QED
      BY <1>3, <3>1 DEF Glue
  <2>3. Pasted(s, ab, c, e) /\ Pasted(t, a, bc, d)
    <3> HIDE DEF ab, bc, d, e
    <3> QED
      BY <1>1, <2>2, JoinIs
  <2>4. /\ Len(a) \in Nat /\ Len(b) \in Nat /\ Len(c) \in Nat /\ Len(b) >= 1
        /\ d \in 0..1 /\ e \in 0..1
    BY <1>3 DEF Patterns, Glue
  <2> HIDE DEF ab, bc, s, t, d, e
  <2> DEFINE la == Len(a)
             lb == Len(b)
             lc == Len(c)
  <2>5. /\ Len(ab) = la + lb - d /\ Len(bc) = lb + lc - e /\ Len(s) = la + lb - d + lc - e
        /\ Len(t) = Len(s) /\ s \in Seq(STRING) /\ t \in Seq(STRING)
    BY <2>1, <2>3, <2>4 DEF Pasted, Patterns
  <2>6. ASSUME NEW i \in 1..Len(s) PROVE s[i] = t[i]
    <3>1. /\ s[i] = IF i <= Len(ab) THEN ab[i] ELSE c[i - Len(ab) + e]
          /\ t[i] = IF i <= la THEN a[i] ELSE bc[i - la + d]
      BY <2>3, <2>5 DEF Pasted
    <3>2. /\ \A j \in 1..Len(ab) : ab[j] = IF j <= la THEN a[j] ELSE b[j - la + d]
          /\ \A j \in 1..Len(bc) : bc[j] = IF j <= lb THEN b[j] ELSE c[j - lb + e]
      BY <2>1 DEF Pasted
    <3> HIDE DEF la, lb, lc
    <3>0. la \in Nat /\ lb \in Nat /\ lc \in Nat /\ lb >= 1
      BY <2>4 DEF la, lb, lc
    <3>3. CASE i <= la
      <4>1. i <= Len(ab) /\ i \in 1..Len(ab)
        BY <2>4, <2>5, <3>0, <3>3
      <4> QED
        BY <3>1, <3>2, <3>3, <4>1
    <3>4. CASE ~ (i <= la) /\ i <= la + lb - d
      <4>1. i \in 1..Len(ab) /\ i <= Len(ab) /\ i - la + d \in 1..Len(bc) /\ i - la + d <= lb
        BY <2>4, <2>5, <3>0, <3>4
      <4> QED
        BY <3>1, <3>2, <3>4, <4>1
    <3>5. CASE ~ (i <= la) /\ ~ (i <= la + lb - d)
      <4> DEFINE j == i - la + d
      <4>1. /\ ~ (i <= Len(ab)) /\ j \in 1..Len(bc) /\ ~ (j <= lb)
            /\ i - Len(ab) + e = j - lb + e
        BY <2>4, <2>5, <3>0, <3>5
      <4>2. s[i] = c[j - lb + e]
        BY <3>1, <4>1
      <4>3. t[i] = bc[j]
        BY <3>1, <3>5
      <4> HIDE DEF j
      <4>4. bc[j] = c[j - lb + e]
        BY <3>2, <4>1
      <4> QED
        BY <4>2, <4>3, <4>4
    <3> QED
      BY <3>3, <3>4, <3>5
  <2>7. s = t
    BY <2>5, <2>6, SeqEqual
  <2> QED
    BY <2>7 DEF s, t, ab, bc
<1> QED
  BY <1>2, <1>3

\* A set of numbers has a least one.
LEMMA Least ==
    ASSUME NEW S, S \subseteq Nat, S # {}
    PROVE  \E i \in S : \A j \in S : i <= j
<1>1. PICK i \in S : \A j \in S : ~ (<<j, i>> \in OpToRel(<, Nat))
  BY NatLessThanWellFounded, WFMin
<1>2. ASSUME NEW j \in S PROVE i <= j
  <2>1. <<j, i>> \in Nat \X Nat
    OBVIOUS
  <2>2. ~ (j < i)
    BY <1>1, <2>1, Zenon DEF OpToRel
  <2> QED
    BY <2>1, <2>2
<1> QED
  BY <1>2

\* f joins the parts from the last one forwards, n of them.
Lasts(f, parts, n) ==
    /\ f \in [0..n -> Patterns] /\ f[0] = <<>>
    /\ \A k \in 1..n : f[k] = joinPrefix(parts[Len(parts) + 1 - k], f[k - 1])

\* What Joined returns.
LEMMA JoinedIs ==
    ASSUME NEW parts \in Seq(Patterns)
    PROVE  \E f : Lasts(f, parts, Len(parts)) /\ Joined(parts) = f[Len(parts)]
<1> DEFINE n == Len(parts)
           Def(f) == [k \in 0..n |-> IF k = 0 THEN <<>> ELSE Joint(parts[n + 1 - k], f[k - 1])]
           a == CHOOSE f : f = Def(f)
<1>1. Joined(parts) = a[n]
  BY DEF Joined
<1>2. n \in Nat /\ n \in 0..n
  OBVIOUS
<1>3. /\ \A k \in 1..n : parts[n + 1 - k] \in Patterns /\ k - 1 \in 0..n /\ ~ (k <= k - 1)
      /\ \A k \in 0..n : k # 0 => k \in 1..n
  <2>1. \A k \in 1..n : n + 1 - k \in 1..n /\ k - 1 \in 0..n /\ ~ (k <= k - 1)
    <3> HIDE DEF n
    <3> QED
      BY <1>2
  <2> QED
    BY <2>1, <1>2, ElementOfSeq
<1> HIDE DEF n
<1> DEFINE Bad == {m \in 0..n : ~ \E f : Lasts(f, parts, m)}
<1>4. Bad = {}
  <2> SUFFICES ASSUME Bad # {} PROVE FALSE
    OBVIOUS
  <2>1. PICK m \in Bad : \A j \in Bad : m <= j
    <3>1. Bad \subseteq Nat
      BY <1>2
    <3> HIDE DEF Bad
    <3> QED
      BY <3>1, Least
  <2>2. m # 0
    <3>1. Lasts([k \in 0..0 |-> <<>>], parts, 0)
      BY DEF Lasts, Patterns
    <3> QED
      BY <3>1
  <2>3. m \in 1..n /\ m - 1 \in 0..n /\ ~ (m <= m - 1) /\ m \in Nat
    BY <1>2, <1>3, <2>2
  <2>4. PICK f : Lasts(f, parts, m - 1)
    BY <2>1, <2>3
  <2> DEFINE x == joinPrefix(parts[n + 1 - m], f[m - 1])
             g == [k \in 0..m |-> IF k = m THEN x ELSE f[k]]
  <2>5. /\ m - 1 \in 0..(m - 1) /\ 0 \in 0..(m - 1) /\ 0 # m
        /\ \A k \in 0..m : k = m \/ k \in 0..(m - 1)
        /\ \A k \in 1..m : k - 1 \in 0..m /\ k - 1 # m /\ k \in 0..m /\ (k = m \/ k \in 1..(m - 1))
    BY <2>3
  <2>6. x \in Patterns
    BY <1>3, <2>3, <2>4, <2>5, JoinType DEF Lasts
  <2>7. Lasts(g, parts, m)
    <3>1. g \in [0..m -> Patterns] /\ g[0] = <<>>
      BY <2>4, <2>5, <2>6 DEF Lasts
    <3>2. \A k \in 1..m : g[k] = joinPrefix(parts[Len(parts) + 1 - k], g[k - 1])
      BY <2>4, <2>5 DEF Lasts, n
    <3> QED
      BY <3>1, <3>2 DEF Lasts
  <2> QED
    BY <2>7
<1>5. PICK f : Lasts(f, parts, n)
  BY <1>2, <1>4
<1>6. \A k \in 1..n : f[k - 1] \in Patterns /\ f[k] = Joint(parts[n + 1 - k], f[k - 1])
  <2>1. \A k \in 1..n : f[k - 1] \in Patterns /\ f[k] = joinPrefix(parts[n + 1 - k], f[k - 1])
    BY <1>3, <1>5 DEF Lasts, n
  <2> QED
    BY <2>1, <1>3, JointIs
<1>7. f = Def(f)
  BY <1>3, <1>5, <1>6 DEF Lasts
<1>8. a = Def(a)
  BY <1>7
<1> HIDE DEF a
<1>9. /\ a = [k \in 0..n |-> a[k]] /\ a[0] = <<>>
      /\ \A k \in 1..n : a[k] = Joint(parts[n + 1 - k], a[k - 1])
  <2>1. 0 \in 0..n /\ \A k \in 1..n : k \in 0..n /\ k # 0
    BY <1>2
  <2>2. a[0] = <<>> /\ a = [k \in 0..n |-> a[k]]
    BY <1>8, <2>1
  <2>3. ASSUME NEW k \in 1..n PROVE a[k] = Joint(parts[n + 1 - k], a[k - 1])
    BY <1>8, <2>1
  <2> QED
    BY <2>2, <2>3
<1> DEFINE Off == {k \in 0..n : a[k] # f[k]}
<1>10. Off = {}
  <2> SUFFICES ASSUME Off # {} PROVE FALSE
    OBVIOUS
  <2>1. PICK k \in Off : \A j \in Off : k <= j
    <3>1. Off \subseteq Nat
      BY <1>2
    <3> HIDE DEF Off
    <3> QED
      BY <3>1, Least
  <2>2. k # 0
    BY <1>5, <1>9 DEF Lasts
  <2>3. k \in 1..n /\ k - 1 \in 0..n /\ ~ (k <= k - 1)
    BY <1>3, <2>2
  <2>4. a[k - 1] = f[k - 1]
    BY <2>1, <2>3
  <2> QED
    BY <1>6, <1>9, <2>3, <2>4
<1> QED
  BY <1>1, <1>2, <1>5, <1>10 DEF n

\* One part more is joined at the end.
LEMMA JoinedAppend ==
    ASSUME NEW parts \in Seq(Patterns), NEW p \in Patterns
    PROVE  Joined(Append(parts, p)) = joinPrefix(Joined(parts), p)
<1> DEFINE n == Len(parts)
           more == Append(parts, p)
<1>1. /\ n \in Nat /\ more \in Seq(Patterns) /\ Len(more) = n + 1 /\ more[n + 1] = p
      /\ \A k \in 1..n : more[k] = parts[k] /\ parts[k] \in Patterns
  BY AppendProperties, ElementOfSeq
<1>2. PICK f : Lasts(f, parts, n) /\ Joined(parts) = f[n]
  BY JoinedIs
<1> HIDE DEF more
<1>3. PICK g : Lasts(g, more, n + 1) /\ Joined(more) = g[n + 1]
  BY <1>1, JoinedIs
<1>4. \A x \in Patterns : joinPrefix(x, <<>>) = x /\ joinPrefix(<<>>, x) = x
  BY ConcatEmptySeq DEF joinPrefix, Patterns
<1>5. f[0] = <<>> /\ \A k \in 1..n : f[k] = joinPrefix(parts[n + 1 - k], f[k - 1])
  BY <1>2 DEF Lasts
<1>6. g[0] = <<>> /\ \A k \in 1..(n + 1) : g[k] = joinPrefix(more[(n + 1) + 1 - k], g[k - 1])
  BY <1>1, <1>3 DEF Lasts
<1>7. \A k \in 0..n : f[k] \in Patterns
  BY <1>2 DEF Lasts
<1> HIDE DEF n
<1> DEFINE Off == {k \in 0..n : g[k + 1] # joinPrefix(f[k], p)}
<1>8. Off = {}
  <2> SUFFICES ASSUME Off # {} PROVE FALSE
    OBVIOUS
  <2>1. PICK k \in Off : \A j \in Off : k <= j
    <3>1. Off \subseteq Nat
      BY <1>1
    <3> HIDE DEF Off
    <3> QED
      BY <3>1, Least
  <2>2. k \in 0..n /\ g[k + 1] # joinPrefix(f[k], p)
    OBVIOUS
  <2> HIDE DEF Off
  <2>3. CASE k = 0
    <3>1. 1 \in 1..(n + 1) /\ (n + 1) + 1 - 1 = n + 1 /\ 1 - 1 = 0 /\ k + 1 = 1
      BY <1>1, <2>3
    <3>2. g[1] = joinPrefix(more[n + 1], g[0])
      BY <1>6, <3>1
    <3> QED
      BY <1>1, <1>4, <1>5, <1>6, <2>2, <2>3, <3>1, <3>2
  <2>4. CASE k # 0
    <3> DEFINE q == parts[n + 1 - k]
    <3>1. /\ k \in 1..n /\ k - 1 \in 0..n /\ ~ (k <= k - 1) /\ (k - 1) + 1 = k /\ (k + 1) - 1 = k
          /\ k + 1 \in 1..(n + 1) /\ (n + 1) + 1 - (k + 1) = n + 1 - k /\ n + 1 - k \in 1..n
      BY <1>1, <2>2, <2>4
    <3>2. g[k] = joinPrefix(f[k - 1], p)
      <4>1. k - 1 \notin Off
        BY <2>1, <3>1
      <4> QED
        BY <3>1, <4>1 DEF Off
    <3>3. g[k + 1] = joinPrefix(more[n + 1 - k], g[k])
      BY <1>6, <3>1
    <3>4. more[n + 1 - k] = q /\ q \in Patterns
      BY <1>1, <3>1
    <3>5. f[k] = joinPrefix(q, f[k - 1]) /\ f[k - 1] \in Patterns
      BY <1>5, <1>7, <3>1
    <3> HIDE DEF q
    <3>6. joinPrefix(joinPrefix(q, f[k - 1]), p) = joinPrefix(q, joinPrefix(f[k - 1], p))
      BY <3>4, <3>5, JoinAssociative
    <3> QED
      BY <2>2, <3>2, <3>3, <3>4, <3>5, <3>6
  <2> QED
    BY <2>3, <2>4
<1>9. n \in 0..n
  BY <1>1
<1> QED
  BY <1>2, <1>3, <1>8, <1>9 DEF more

\* No parts give no prefix.
LEMMA JoinedEmpty == Joined(<<>>) = <<>>
<1>1. PICK f : Lasts(f, <<>>, Len(<<>>)) /\ Joined(<<>>) = f[Len(<<>>)]
  <2>1. <<>> \in Seq(Patterns)
    OBVIOUS
  <2> QED
    BY <2>1, JoinedIs
<1> QED
  BY <1>1 DEF Lasts

\* Every prefix is its parts, joined.
Parted == \A o \in Ids : owners[o].prefix = Joined(owners[o].parts)

\* The route r has the pattern that its parts give.
JoinedRoute(r) == r.pattern = IF r.kind = "mount" THEN MountPattern(Joined(r.parts))
                              ELSE Joined(r.parts)

\* Owners that are not touched, and a new one whose parts give its prefix.
LEMMA PartedGrows ==
    ASSUME Inv, Parted, NEW g, owners' = Append(owners, g), g.prefix = Joined(g.parts)
    PROVE  Parted'
<1> DEFINE n == Len(owners)
<1>1. /\ n \in Nat /\ Len(owners') = n + 1 /\ owners'[n + 1] = g
      /\ \A p \in 1..n : owners'[p] = owners[p]
  BY DEF Inv
<1>2. \A p \in 1..(n + 1) : p \in 1..n \/ p = n + 1
  BY <1>1
<1>3. Ids' = 1..(n + 1)
  BY <1>1 DEF Ids
<1> QED
  BY <1>1, <1>2, <1>3 DEF Parted, Ids

\* Groups.
LEMMA PartedNewGroup ==
    ASSUME Inv, Parted, NewGroup PROVE Parted'
<1>0. Prefixes \subseteq Patterns
  BY BoundsAssumption DEF BoundsAssumption, Patterns
<1>1. ASSUME NEW prefix \in Prefixes, MuxGroup(prefix) PROVE Parted'
  <2> DEFINE g == [NewOwner(prefix, Nil, Nil, <<>>, <<>>) EXCEPT !.parts = <<prefix>>]
  <2>1. owners' = Append(owners, g)
    BY <1>1 DEF MuxGroup
  <2>2. g.prefix = prefix /\ g.parts = <<prefix>>
    BY DEF NewOwner
  <2>3. Joined(<<prefix>>) = prefix
    <3>1. <<prefix>> = Append(<<>>, prefix) /\ <<>> \in Seq(Patterns) /\ prefix \in Patterns
      BY <1>0
    <3>2. joinPrefix(<<>>, prefix) = prefix
      BY <3>1, ConcatEmptySeq DEF joinPrefix, Patterns
    <3> QED
      BY <3>1, <3>2, JoinedAppend, JoinedEmpty
  <2> HIDE DEF g
  <2> QED
    BY <2>1, <2>2, <2>3, PartedGrows
<1>2. ASSUME NEW o \in Ids, NEW prefix \in Prefixes, SubGroup(o, prefix) PROVE Parted'
  <2> DEFINE pre == joinPrefix(owners[o].prefix, prefix)
             parts == Append(owners[o].parts, prefix)
  <2>1. PICK s, t : owners' = Append(owners,
                       [NewOwner(pre, s, t, owners[o].wantStd, owners[o].wantFast)
                        EXCEPT !.parts = parts])
    BY <1>2 DEF SubGroup
  <2> DEFINE g == [NewOwner(pre, s, t, owners[o].wantStd, owners[o].wantFast) EXCEPT !.parts = parts]
  <2>2. pre = Joined(parts)
    BY <1>0, OwnElements, JoinedAppend DEF Parted
  <2> HIDE DEF pre, parts
  <2>3. g.prefix = pre /\ g.parts = parts
    BY DEF NewOwner
  <2> HIDE DEF g
  <2> QED
    BY <2>1, <2>2, <2>3, PartedGrows DEF g
<1>3. ASSUME NEW o \in Ids, With(o) PROVE Parted'
  <2>1. PICK s, t, u, v : owners' = Append(owners,
                             [NewOwner(owners[o].prefix, s, t, u, v) EXCEPT !.parts = owners[o].parts])
    BY <1>3 DEF With
  <2> DEFINE g == [NewOwner(owners[o].prefix, s, t, u, v) EXCEPT !.parts = owners[o].parts]
  <2>2. g.prefix = owners[o].prefix /\ g.parts = owners[o].parts
    BY DEF NewOwner
  <2> HIDE DEF g
  <2> QED
    BY <2>1, <2>2, PartedGrows DEF Parted, g
<1> QED
  BY <1>1, <1>2, <1>3 DEF NewGroup

\* Routes.
LEMMA PatternsAdded ==
    ASSUME Inv, Parted, PatternsJoined, NEW o \in Ids, NEW ms, NEW path \in Paths, NEW kind,
           Add(o, ms, path, kind)
    PROVE  Parted' /\ PatternsJoined'
<1>0. Paths \subseteq Patterns
  BY BoundsAssumption DEF BoundsAssumption, Patterns
<1>1. PICK n \in 0..Len(ms) : routes' = routes \o [k \in 1..n |-> Route(o, ms[k], path, kind)]
  BY DEF Add
<1>2. UNCHANGED owners
  BY DEF Add
<1>3. Pattern(o, path) = Joined(Append(owners[o].parts, path))
  BY <1>0, OwnElements, JoinedAppend DEF Parted, Pattern
<1>4. \A m : JoinedRoute(Route(o, m, path, kind))
  BY <1>3 DEF Route, JoinedRoute
<1> DEFINE f == [k \in 1..n |-> Route(o, ms[k], path, kind)]
           T == {routes[i] : i \in 1..Len(routes)} \cup {f[k] : k \in 1..n}
           all == routes \o f
<1>5. routes \in Seq(T) /\ Len(routes) \in Nat
  <2>1. routes \in [1..Len(routes) -> T] /\ Len(routes) \in Nat
    BY DEF Inv
  <2> QED
    BY <2>1, FunIsSeq
<1>6. f \in Seq(T) /\ Len(f) = n /\ n \in Nat
  <2>1. f \in [1..n -> T] /\ n \in Nat
    OBVIOUS
  <2> QED
    BY <2>1, FunIsSeq
<1>7. \A k \in 1..n : JoinedRoute(f[k])
  BY <1>4
<1>8. \A k \in 1..Len(routes) : JoinedRoute(routes[k])
  BY DEF PatternsJoined, JoinedRoute
<1> HIDE DEF f, T
<1>9. /\ Len(all) = Len(routes) + n
      /\ \A k \in 1..(Len(routes) + n) : all[k] = IF k <= Len(routes) THEN routes[k]
                                                  ELSE f[k - Len(routes)]
  BY <1>5, <1>6, ConcatProperties
<1>10. routes' = all
  BY <1>1 DEF f
<1> HIDE DEF all
<1>11. \A k \in 1..Len(all) : JoinedRoute(all[k])
  <2> SUFFICES ASSUME NEW k \in 1..Len(all) PROVE JoinedRoute(all[k])
    OBVIOUS
  <2>1. k \in 1..Len(routes) \/ (~ (k <= Len(routes)) /\ k - Len(routes) \in 1..n)
    BY <1>5, <1>6, <1>9
  <2> QED
    BY <1>7, <1>8, <1>9, <2>1
<1> QED
  BY <1>2, <1>10, <1>11 DEF PatternsJoined, JoinedRoute, Parted, Ids

\* Every action keeps prefixes and patterns what their parts give.
LEMMA PartedStep ==
    Inv /\ Parted /\ PatternsJoined /\ [Next]_vars => Parted' /\ PatternsJoined'
<1> SUFFICES ASSUME Inv, Parted, PatternsJoined, [Next]_vars PROVE Parted' /\ PatternsJoined'
  OBVIOUS
<1>1. ASSUME NEW o \in Ids, Use(o) \/ UseFast(o) PROVE Parted' /\ PatternsJoined'
  <2>1. SameParts /\ Ids' = Ids
    BY <1>1, UseKeeps, UseFastKeeps
  <2>2. routes' = routes
    BY <1>1 DEF Use, UseFast
  <2> QED
    BY <2>1, <2>2 DEF Parted, PatternsJoined, SameParts
<1>2. CASE NewGroup
  <2>1. routes' = routes
    BY <1>2 DEF NewGroup, MuxGroup, SubGroup, With
  <2> QED
    BY <1>2, <2>1, PartedNewGroup DEF PatternsJoined
<1>3. ASSUME NEW o \in Ids, NEW path \in Paths, Register(o, path) PROVE Parted' /\ PatternsJoined'
  <2>1. \E ms, kind : Add(o, ms, path, kind)
    BY <1>3 DEF Register, Handle, HandleFast, Match, Mount, ServeFiles
  <2> QED
    BY <2>1, PatternsAdded
<1>4. CASE UNCHANGED vars
  BY <1>4 DEF vars, Parted, PatternsJoined, Ids
<1> QED
  BY <1>1, <1>2, <1>3, <1>4 DEF Next

\* A route's pattern does not depend on how its prefix was cut into nested groups: it is
\* the parts written out with one '/' at each joint (joinPrefix of Group, With, Mount and
\* Handle), for any prefixes and paths and groups nested to any depth.
THEOREM PatternsAreJoined == Spec => []PatternsJoined
<1>1. Init => Parted /\ PatternsJoined
  <2> SUFFICES ASSUME Init PROVE Parted /\ PatternsJoined
    OBVIOUS
  <2>1. /\ Ids = {1} /\ routes = <<>>
        /\ owners[1].prefix = <<>> /\ owners[1].parts = <<>>
    BY DEF Init, Ids, NewOwner
  <2> QED
    BY <2>1, JoinedEmpty DEF Parted, PatternsJoined
<1>2. Spec => [](Inv /\ Parted /\ PatternsJoined)
  BY <1>1, InvInit, InvStep, PartedStep, PTL DEF Spec
<1> QED
  BY <1>2, PTL
=============================================================================
