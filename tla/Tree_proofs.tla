---------------------------- MODULE Tree_proofs ----------------------------
(***************************************************************************)
(* The arrays of a TREE follow the tree of win32, and implement ItemTree,  *)
(* for any number of items on any number of levels.  The first part is     *)
(* about trees: what is above and below an item, and what becomes of it    *)
(* when an item is added or taken out.  Then the map: in tree order a      *)
(* branch is a block of places.  Then the actions, with the walk by which  *)
(* _AddItem finds the place of a new item, and last the refinement.        *)
(***************************************************************************)
EXTENDS TreeControlProps, FiniteSetTheorems, SequenceTheorems, WellFoundedInduction, TLAPS

-----------------------------------------------------------------------------
(* A set of natural numbers that is not empty has a least element.         *)
LEMMA LeastNat ==
  ASSUME NEW T, T \subseteq Nat, T # {}
  PROVE  \E x \in T : \A y \in T : x <= y
<1>1. PICK k \in T : \A j \in T : ~ (<<j, k>> \in OpToRel(<, Nat))
  BY WFMin, NatLessThanWellFounded
<1>2. \A j \in T : ~ (<<j, k>> \in {ss \in Nat \X Nat : ss[1] < ss[2]})
  BY ONLY <1>1, Zenon DEF OpToRel
<1>3. \A j \in T : ~ (j < k)
  BY <1>2
<1>4. \A j \in T : k <= j
  BY <1>3
<1> QED
  BY <1>4

-----------------------------------------------------------------------------
(* Items with numbers above those of their parents; up[x] is x and all     *)
(* above it, 0 included.                                                   *)
Hierarchy(D, par, up) ==
  /\ \A x \in D : x \in Nat /\ x # 0
  /\ \A x \in D : par[x] \in D \cup {0} /\ par[x] < x
  /\ up[0] = {0}
  /\ \A x \in D : up[x] = {x} \cup up[par[x]]

(* All above an item are items with smaller numbers, or 0, which is above  *)
(* all.                                                                    *)
LEMMA UpIsBelow ==
  ASSUME NEW D, NEW par, NEW up, Hierarchy(D, par, up)
  PROVE  \A x \in D \cup {0} :
           x \in up[x] /\ 0 \in up[x] /\ \A a \in up[x] : a \in D \cup {0} /\ a <= x
<1> DEFINE Ok(x) == x \in up[x] /\ 0 \in up[x] /\ \A a \in up[x] : a \in D \cup {0} /\ a <= x
           T == {x \in D \cup {0} : ~Ok(x)}
<1>0. \A x \in D : x \in Nat /\ x # 0
  BY DEF Hierarchy
<1> SUFFICES ASSUME T # {} PROVE FALSE
  OBVIOUS
<1>1. PICK x \in T : \A y \in T : x <= y
  <2>1. T \subseteq Nat
    BY <1>0
  <2> QED
    BY <2>1, LeastNat
<1>2. x # 0
  <2>1. Ok(0)
    BY DEF Hierarchy
  <2> QED
    BY <2>1
<1>3. x \in D /\ x \in Nat /\ par[x] \in D \cup {0} /\ par[x] < x /\ up[x] = {x} \cup up[par[x]]
  BY <1>0, <1>2 DEF Hierarchy
<1>4. par[x] \in Nat
  <2>1. par[x] \in D \cup {0}
    BY <1>3
  <2> QED
    BY <2>1, <1>0
<1>5. Ok(par[x])
  <2>1. par[x] \notin T
    <3>1. \A y \in T : x <= y
      BY <1>1
    <3> HIDE DEF T
    <3> QED
      BY <3>1, <1>3, <1>4
  <2> QED
    BY <2>1, <1>3
<1>6. \A a \in up[par[x]] : a \in D \cup {0} /\ a <= par[x] /\ a \in Nat
  BY <1>5, <1>0
<1>7. \A a \in up[x] : a \in D \cup {0} /\ a <= x
  BY <1>6, <1>3, <1>4
<1>8. Ok(x)
  BY <1>5, <1>7, <1>3
<1> QED
  BY <1>8

(* What is above an item that is above another is above that too. *)
LEMMA UpUp ==
  ASSUME NEW D, NEW par, NEW up, Hierarchy(D, par, up),
         NEW c \in D \cup {0}, NEW b \in up[c], NEW a \in up[b]
  PROVE  a \in up[c]
<1> DEFINE T == {x \in D \cup {0} : b \in up[x] /\ a \notin up[x]}
<1>0. \A x \in D : x \in Nat /\ x # 0
  BY DEF Hierarchy
<1> SUFFICES ASSUME T # {} PROVE FALSE
  OBVIOUS
<1>1. PICK x \in T : \A y \in T : x <= y
  <2>1. T \subseteq Nat
    BY <1>0
  <2> QED
    BY <2>1, LeastNat
<1>2. x # 0
  <2>1. up[0] = {0}
    BY DEF Hierarchy
  <2> QED
    BY <2>1
<1>3. x \in D /\ x \in Nat /\ par[x] \in D \cup {0} /\ par[x] < x /\ up[x] = {x} \cup up[par[x]]
  BY <1>0, <1>2 DEF Hierarchy
<1>4. par[x] \in Nat
  <2>1. par[x] \in D \cup {0}
    BY <1>3
  <2> QED
    BY <2>1, <1>0
<1>5. b \in up[x] /\ a \notin up[x]
  BY <1>1
<1>6. b # x
  BY <1>5
<1>7. b \in up[par[x]] /\ a \notin up[par[x]]
  BY <1>5, <1>6, <1>3
<1>8. par[x] \in T
  BY <1>7, <1>3
<1>9. x <= par[x]
  BY <1>8, <1>1
<1> QED
  BY <1>9, <1>3, <1>4

(* Those above an item are in line. *)
LEMMA UpInLine ==
  ASSUME NEW D, NEW par, NEW up, Hierarchy(D, par, up),
         NEW c \in D \cup {0}, NEW a \in up[c], NEW b \in up[c]
  PROVE  a \in up[b] \/ b \in up[a]
<1> DEFINE T == {x \in D \cup {0} : a \in up[x] /\ b \in up[x]}
<1>0. \A x \in D : x \in Nat /\ x # 0
  BY DEF Hierarchy
<1>1. PICK x \in T : \A y \in T : x <= y
  <2>1. T \subseteq Nat /\ c \in T
    BY <1>0
  <2> QED
    BY <2>1, LeastNat
<1>2. CASE x = 0
  <2>1. up[0] = {0}
    BY DEF Hierarchy
  <2> QED
    BY <2>1, <1>2
<1>3. CASE x # 0
  <2>3. x \in D /\ x \in Nat /\ par[x] \in D \cup {0} /\ par[x] < x /\ up[x] = {x} \cup up[par[x]]
    BY <1>0, <1>3 DEF Hierarchy
  <2>4. par[x] \in Nat
    <3>1. par[x] \in D \cup {0}
      BY <2>3
    <3> QED
      BY <3>1, <1>0
  <2>5. par[x] \notin T
    <3>1. \A y \in T : x <= y
      BY <1>1
    <3> HIDE DEF T
    <3> QED
      BY <3>1, <2>3, <2>4
  <2>6. a = x \/ b = x
    BY <2>5, <2>3
  <2> QED
    BY <2>6
<1> QED
  BY <1>2, <1>3

(* Siblings are not above one item. *)
LEMMA SiblingsApart ==
  ASSUME NEW D, NEW par, NEW up, Hierarchy(D, par, up),
         NEW c \in D \cup {0}, NEW a \in up[c], NEW b \in up[c],
         a \in D, b \in D, par[a] = par[b]
  PROVE  a = b
<1>0. \A x \in D : x \in Nat /\ x # 0
  BY DEF Hierarchy
<1>1. ASSUME NEW x \in D, NEW y \in D, x \in up[y], x # y PROVE par[x] # par[y]
  <2>1. up[y] = {y} \cup up[par[y]] /\ par[y] \in D \cup {0} /\ par[x] < x /\ par[x] \in D \cup {0}
    BY DEF Hierarchy
  <2>2. x \in up[par[y]]
    BY <2>1, <1>1
  <2>3. x <= par[y]
    BY <2>1, <2>2, UpIsBelow
  <2> QED
    BY <2>1, <2>3, <1>0
<1>2. a \in up[b] \/ b \in up[a]
  BY UpInLine
<1> QED
  BY <1>1, <1>2

(* One hierarchy in another: what is above an item is the same in both. *)
LEMMA UpSame ==
  ASSUME NEW D, NEW par, NEW up, Hierarchy(D, par, up),
         NEW E, NEW qar, NEW vp, Hierarchy(E, qar, vp),
         E \subseteq D, \A x \in E : qar[x] = par[x]
  PROVE  \A x \in E \cup {0} : vp[x] = up[x]
<1> DEFINE T == {x \in E \cup {0} : vp[x] # up[x]}
<1>0. \A x \in D : x \in Nat /\ x # 0
  BY DEF Hierarchy
<1> SUFFICES ASSUME T # {} PROVE FALSE
  OBVIOUS
<1>1. PICK x \in T : \A y \in T : x <= y
  <2>1. T \subseteq Nat
    BY <1>0
  <2> QED
    BY <2>1, LeastNat
<1>2. x # 0
  BY DEF Hierarchy
<1>3. x \in D /\ x \in E /\ x \in Nat
  BY <1>0, <1>2
<1>4. par[x] \in E \cup {0} /\ par[x] < x /\ up[x] = {x} \cup up[par[x]] /\ vp[x] = {x} \cup vp[par[x]]
  BY <1>3 DEF Hierarchy
<1>5. par[x] \in Nat
  BY <1>0, <1>4
<1>6. par[x] \in T
  BY <1>4, <1>1
<1>7. x <= par[x]
  BY <1>6, <1>1
<1> QED
  BY <1>7, <1>4, <1>5, <1>3

-----------------------------------------------------------------------------
(* The tree of win32: each item is once in one list of children, that of   *)
(* an item made before it or of 0.                                         *)
IsForest(t) ==
  /\ 0 \in DOMAIN t /\ \A h \in DOMAIN t : h \in Nat /\ t[h] \in Seq(DOMAIN t \ {0})
  /\ \A h \in DOMAIN t : \A j, k \in DOMAIN t[h] : t[h][j] = t[h][k] => j = k
  /\ \A g, h \in DOMAIN t : \A x \in Elements(t[g]) : x \in Elements(t[h]) => g = h
  /\ \A x \in DOMAIN t \ {0} : \E h \in DOMAIN t : x \in Elements(t[h])
  /\ \A h \in DOMAIN t : \A x \in Elements(t[h]) : x \in DOMAIN t /\ x # 0 /\ h < x

ParentIn(t) == [x \in DOMAIN t \ {0} |-> TreeView_GetParent(t, x)]

LEMMA ParentIs ==
  ASSUME NEW t, IsForest(t), NEW h \in DOMAIN t, NEW x \in Elements(t[h])
  PROVE  TreeView_GetParent(t, x) = h
<1> DEFINE above == {p \in DOMAIN t : x \in Elements(t[p])}
<1>1. h \in above /\ \A p \in above : p = h
  BY DEF IsForest
<1>2. above # {} /\ (CHOOSE p \in above : TRUE) = h
  BY <1>1
<1> QED
  BY <1>2, Zenon DEF TreeView_GetParent

LEMMA ParentOf ==
  ASSUME NEW t, IsForest(t), NEW x \in DOMAIN t, x # 0
  PROVE  /\ TreeView_GetParent(t, x) \in DOMAIN t
         /\ x \in Elements(t[TreeView_GetParent(t, x)])
         /\ TreeView_GetParent(t, x) < x
<1>1. PICK h \in DOMAIN t : x \in Elements(t[h])
  BY DEF IsForest
<1>2. TreeView_GetParent(t, x) = h
  BY <1>1, ParentIs
<1>3. h < x
  BY <1>1 DEF IsForest
<1> QED
  BY <1>1, <1>2, <1>3

LEMMA NoParentOfZero ==
  ASSUME NEW t, IsForest(t)
  PROVE  TreeView_GetParent(t, 0) = 0
<1>1. {p \in DOMAIN t : 0 \in Elements(t[p])} = {}
  BY DEF IsForest
<1> QED
  BY <1>1, Zenon DEF TreeView_GetParent

(* The recursion of Above defines it. *)
LEMMA AboveIs ==
  ASSUME NEW t, IsForest(t)
  PROVE  Above(t) = [h \in DOMAIN t |->
           IF h = 0 THEN {0} ELSE {h} \cup Above(t)[TreeView_GetParent(t, h)]]
<1> DEFINE P(h) == TreeView_GetParent(t, h)
           F(f) == f = [h \in DOMAIN t |-> IF h = 0 THEN {0} ELSE {h} \cup f[P(h)]]
           Closed(S) == \A x \in DOMAIN t \ {0} : P(x) \in S => x \in S
           Forced(a, h) == \A S \in SUBSET DOMAIN t : a \in S /\ Closed(S) => h \in S
           g == [h \in DOMAIN t |-> {a \in DOMAIN t : Forced(a, h)}]
<1>1. Above(t) = CHOOSE f : F(f)
  BY Zenon DEF Above
<1>2. F(g)
  <2>0. 0 \in DOMAIN t
    BY DEF IsForest
  <2>1. g[0] = {0}
    <3>1. Forced(0, 0)
      OBVIOUS
    <3>2. ASSUME NEW a \in DOMAIN t, a # 0 PROVE ~Forced(a, 0)
      <4> DEFINE S == DOMAIN t \ {0}
      <4>1. S \in SUBSET DOMAIN t /\ a \in S /\ Closed(S) /\ 0 \notin S
        BY <3>2
      <4> HIDE DEF S, Closed
      <4> QED
        BY <4>1
    <3>3. g[0] = {a \in DOMAIN t : Forced(a, 0)}
      BY <2>0
    <3> HIDE DEF Forced, g
    <3> QED
      BY <3>1, <3>2, <3>3, <2>0
  <2>2. ASSUME NEW h \in DOMAIN t, h # 0 PROVE g[h] = {h} \cup g[P(h)]
    <3>0. P(h) \in DOMAIN t /\ h \in DOMAIN t \ {0}
      BY <2>2, ParentOf
    <3>1. Forced(h, h)
      OBVIOUS
    <3>2. ASSUME NEW a, Forced(a, P(h)) PROVE Forced(a, h)
      <4> SUFFICES ASSUME NEW S \in SUBSET DOMAIN t, a \in S, Closed(S) PROVE h \in S
        OBVIOUS
      <4>1. P(h) \in S
        BY <3>2
      <4> QED
        BY <4>1, <3>0
    <3>3. ASSUME NEW a, Forced(a, h), a # h PROVE Forced(a, P(h))
      <4> SUFFICES ASSUME NEW S \in SUBSET DOMAIN t, a \in S, Closed(S), P(h) \notin S PROVE FALSE
        OBVIOUS
      <4> DEFINE R == S \ {h}
      <4>1. R \in SUBSET DOMAIN t /\ a \in R /\ h \notin R
        BY <3>3
      <4>2. Closed(R)
        <5> SUFFICES ASSUME NEW x \in DOMAIN t \ {0}, P(x) \in R PROVE x \in R
          OBVIOUS
        <5>1. x \in S /\ P(x) \in S
          OBVIOUS
        <5>2. x # h
          BY <5>1
        <5> QED
          BY <5>1, <5>2
      <4> HIDE DEF R, Closed
      <4> QED
        BY <4>1, <4>2, <3>3
    <3>4. g[h] = {a \in DOMAIN t : Forced(a, h)} /\ g[P(h)] = {a \in DOMAIN t : Forced(a, P(h))}
      BY <3>0
    <3> HIDE DEF Forced, g, P
    <3> QED
      BY <3>0, <3>1, <3>2, <3>3, <3>4
  <2>3. \A h \in DOMAIN t : g[h] = IF h = 0 THEN {0} ELSE {h} \cup g[P(h)]
    BY <2>1, <2>2
  <2>4. g = [h \in DOMAIN t |-> g[h]]
    OBVIOUS
  <2> HIDE DEF g, P
  <2> QED
    BY <2>3, <2>4
<1>3. F(CHOOSE f : F(f))
  <2> HIDE DEF F, g
  <2> QED
    BY <1>2, Zenon
<1> QED
  BY <1>1, <1>3, Zenon

LEMMA AboveIsUp ==
  ASSUME NEW t, IsForest(t)
  PROVE  Hierarchy(DOMAIN t \ {0}, ParentIn(t), Above(t))
<1> DEFINE D == DOMAIN t \ {0}
           u == Above(t)
<1>1. \A x \in D : ParentIn(t)[x] = TreeView_GetParent(t, x)
  BY DEF ParentIn
<1>2. \A x \in D : x \in Nat /\ x # 0
  BY DEF IsForest
<1>3. \A x \in D : ParentIn(t)[x] \in D \cup {0} /\ ParentIn(t)[x] < x
  BY <1>1, ParentOf
<1>4. \A h \in DOMAIN t : u[h] = IF h = 0 THEN {0} ELSE {h} \cup u[TreeView_GetParent(t, h)]
  <2>1. u = [h \in DOMAIN t |-> IF h = 0 THEN {0} ELSE {h} \cup u[TreeView_GetParent(t, h)]]
    BY AboveIs
  <2> HIDE DEF u
  <2> QED
    BY ONLY <2>1
<1>5. u[0] = {0}
  <2>1. 0 \in DOMAIN t
    BY DEF IsForest
  <2> HIDE DEF u
  <2> QED
    BY <2>1, <1>4
<1>6. \A x \in D : u[x] = {x} \cup u[ParentIn(t)[x]]
  <2> HIDE DEF u
  <2> QED
    BY <1>1, <1>4
<1> HIDE DEF D, u
<1> QED
  BY <1>2, <1>3, <1>5, <1>6 DEF Hierarchy, D, u

(* A tree in a tree: the same items are above an item in both. *)
LEMMA SubForest ==
  ASSUME NEW t, IsForest(t), NEW u, IsForest(u), DOMAIN u \subseteq DOMAIN t,
         \A h \in DOMAIN u : Elements(u[h]) \subseteq Elements(t[h])
  PROVE  /\ \A x \in DOMAIN u \ {0} : TreeView_GetParent(u, x) = TreeView_GetParent(t, x)
         /\ \A x \in DOMAIN u : Above(u)[x] = Above(t)[x]
<1>1. ASSUME NEW x \in DOMAIN u \ {0} PROVE TreeView_GetParent(u, x) = TreeView_GetParent(t, x)
  <2> DEFINE h == TreeView_GetParent(u, x)
  <2>1. h \in DOMAIN u /\ x \in Elements(u[h])
    BY ParentOf
  <2>2. h \in DOMAIN t /\ x \in Elements(t[h])
    BY <2>1
  <2> HIDE DEF h
  <2>3. TreeView_GetParent(t, x) = h
    BY <2>2, ParentIs
  <2> QED
    BY <2>3 DEF h
<1>2. \A x \in DOMAIN u \ {0} : ParentIn(u)[x] = ParentIn(t)[x]
  BY <1>1 DEF ParentIn
<1> DEFINE D == DOMAIN t \ {0}
           E == DOMAIN u \ {0}
           p == ParentIn(t)
           q == ParentIn(u)
           a == Above(t)
           b == Above(u)
<1>3. Hierarchy(D, p, a) /\ Hierarchy(E, q, b) /\ E \subseteq D /\ \A x \in E : q[x] = p[x]
  BY AboveIsUp, <1>2
<1>4. \A x \in E \cup {0} : b[x] = a[x]
  <2> HIDE DEF D, E, p, q, a, b
  <2> QED
    BY ONLY <1>3, UpSame
<1> QED
  BY <1>1, <1>4

LEMMA ElementsOfAppend ==
  ASSUME NEW S, NEW s \in Seq(S), NEW x
  PROVE  /\ Elements(Append(s, x)) = Elements(s) \cup {x}
         /\ Len(Append(s, x)) = Len(s) + 1
         /\ \A k \in 1 .. Len(s) + 1 : Append(s, x)[k] = IF k <= Len(s) THEN s[k] ELSE x
         /\ DOMAIN Append(s, x) = 1 .. Len(s) + 1 /\ DOMAIN s = 1 .. Len(s) /\ Len(s) \in Nat
<1>1. Len(Append(s, x)) = Len(s) + 1 /\ Len(s) \in Nat /\ DOMAIN s = 1 .. Len(s)
  OBVIOUS
<1>2. DOMAIN Append(s, x) = 1 .. Len(s) + 1
  OBVIOUS
<1>3. \A k \in 1 .. Len(s) + 1 : Append(s, x)[k] = IF k <= Len(s) THEN s[k] ELSE x
  OBVIOUS
<1>4. \A y \in Elements(s) : y \in Elements(Append(s, x))
  BY <1>1, <1>2, <1>3 DEF Elements
<1>5. x \in Elements(Append(s, x))
  <2>1. Len(s) + 1 \in 1 .. Len(s) + 1 /\ ~(Len(s) + 1 <= Len(s))
    BY <1>1
  <2>2. Append(s, x)[Len(s) + 1] = x
    BY <2>1, <1>3
  <2> QED
    BY <2>1, <2>2, <1>2 DEF Elements
<1>6. ASSUME NEW y \in Elements(Append(s, x)) PROVE y \in Elements(s) \cup {x}
  <2>1. PICK k \in 1 .. Len(s) + 1 : y = Append(s, x)[k]
    BY <1>2 DEF Elements
  <2>2. CASE k <= Len(s)
    BY <2>1, <2>2, <1>1, <1>3 DEF Elements
  <2>3. CASE ~(k <= Len(s))
    BY <2>1, <2>3, <1>3
  <2> QED
    BY <2>2, <2>3
<1>7. Elements(Append(s, x)) = Elements(s) \cup {x}
  BY <1>4, <1>5, <1>6
<1> QED
  BY <1>1, <1>2, <1>3, <1>7

(* A new item is the last child of its parent. *)
IsNext(t, n) == n \in Nat /\ n # 0 /\ n \notin DOMAIN t /\ \A h \in DOMAIN t : h < n
Grown(t, p, n) == With([t EXCEPT ![p] = Append(@, n)], n, <<>>)

LEMMA GrownIs ==
  ASSUME NEW t, NEW p \in DOMAIN t, NEW n, IsNext(t, n), NEW u, u = Grown(t, p, n)
  PROVE  /\ \A x : x \in DOMAIN u <=> x \in DOMAIN t \/ x = n
         /\ u[n] = <<>> /\ u[p] = Append(t[p], n) /\ \A h \in DOMAIN t : h # p => u[h] = t[h]
  BY DEF Grown, With, IsNext

LEMMA GrownForest ==
  ASSUME NEW t, IsForest(t), NEW p \in DOMAIN t, NEW n, IsNext(t, n), NEW u, u = Grown(t, p, n)
  PROVE  /\ IsForest(u)
         /\ \A x \in DOMAIN t : Above(u)[x] = Above(t)[x]
         /\ Above(u)[n] = {n} \cup Above(t)[p]
         /\ \A x \in DOMAIN t \ {0} : TreeView_GetParent(u, x) = TreeView_GetParent(t, x)
         /\ TreeView_GetParent(u, n) = p
<1>0. /\ 0 \in DOMAIN t /\ \A h \in DOMAIN t : h \in Nat /\ t[h] \in Seq(DOMAIN t \ {0})
      /\ \A h \in DOMAIN t : \A j, k \in DOMAIN t[h] : t[h][j] = t[h][k] => j = k
      /\ \A g, h \in DOMAIN t : \A x \in Elements(t[g]) : x \in Elements(t[h]) => g = h
      /\ \A x \in DOMAIN t \ {0} : \E h \in DOMAIN t : x \in Elements(t[h])
      /\ \A h \in DOMAIN t : \A x \in Elements(t[h]) : x \in DOMAIN t /\ x # 0 /\ h < x
  BY DEF IsForest
<1>00. n \in Nat /\ n # 0 /\ n \notin DOMAIN t /\ \A h \in DOMAIN t : h < n
  BY DEF IsNext
<1>1. DOMAIN u = DOMAIN t \cup {n}
  BY DEF Grown, With
<1>2. u[n] = <<>>
  BY DEF Grown, With
<1>3. u[p] = Append(t[p], n)
  BY <1>00 DEF Grown, With
<1>4. \A h \in DOMAIN t : h # p => u[h] = t[h]
  BY <1>00 DEF Grown, With
<1>5. /\ Elements(u[p]) = Elements(t[p]) \cup {n} /\ Len(u[p]) = Len(t[p]) + 1
      /\ \A k \in 1 .. Len(t[p]) + 1 : u[p][k] = IF k <= Len(t[p]) THEN t[p][k] ELSE n
      /\ DOMAIN u[p] = 1 .. Len(t[p]) + 1 /\ DOMAIN t[p] = 1 .. Len(t[p]) /\ Len(t[p]) \in Nat
  <2>1. t[p] \in Seq(DOMAIN t \ {0})
    BY <1>00, <1>0
  <2> QED
    BY <2>1, <1>3, ElementsOfAppend
<1>6. Elements(u[n]) = {}
  BY <1>2 DEF Elements
<1>7. \A h \in DOMAIN t : Elements(t[h]) \subseteq Elements(u[h])
  BY <1>4, <1>5
<1>8. \A h \in DOMAIN u : \A x \in Elements(u[h]) : (x = n /\ h = p) \/ (h \in DOMAIN t /\ x \in Elements(t[h]))
  <2> SUFFICES ASSUME NEW h \in DOMAIN u, NEW x \in Elements(u[h])
               PROVE  (x = n /\ h = p) \/ (h \in DOMAIN t /\ x \in Elements(t[h]))
    OBVIOUS
  <2>1. CASE h = n
    BY <2>1, <1>6
  <2>2. CASE h = p
    <3>1. Elements(u[p]) = Elements(t[p]) \cup {n}
      BY <1>5
    <3>2. x \in Elements(t[p]) \cup {n}
      BY <2>2, <3>1
    <3> QED
      BY <2>2, <3>2
  <2>3. CASE h \in DOMAIN t /\ h # p
    BY <2>3, <1>4
  <2> QED
    BY <2>1, <2>2, <2>3, <1>1
<1>9. n \notin Elements(t[p])
  BY <1>00, <1>0
<1>10. IsForest(u)
  <2>1. 0 \in DOMAIN u
    BY <1>00, <1>0, <1>1
  <2>2. \A h \in DOMAIN u : h \in Nat
    BY <1>00, <1>0, <1>1
  <2>3. ASSUME NEW h \in DOMAIN u PROVE u[h] \in Seq(DOMAIN u \ {0})
    <3>1. \A x \in DOMAIN t \ {0} : x \in DOMAIN u \ {0}
      BY <1>1
    <3>2. CASE h = n
      BY <3>2, <1>2
    <3>3. CASE h = p
      <4>1. t[p] \in Seq(DOMAIN u \ {0})
        <5>1. t[p] \in Seq(DOMAIN t \ {0})
          BY <1>00, <1>0
        <5> QED
          BY <5>1, <3>1
      <4>2. n \in DOMAIN u \ {0}
        BY <1>1, <1>00
      <4> QED
        BY <4>1, <4>2, <3>3, <1>3
    <3>4. CASE h \in DOMAIN t /\ h # p
      <4>1. t[h] \in Seq(DOMAIN t \ {0}) /\ u[h] = t[h]
        BY <3>4, <1>00, <1>0, <1>4
      <4> QED
        BY <4>1, <3>1
    <3> QED
      BY <3>2, <3>3, <3>4, <1>1
  <2>4. ASSUME NEW h \in DOMAIN u, NEW j \in DOMAIN u[h], NEW k \in DOMAIN u[h], u[h][j] = u[h][k]
        PROVE  j = k
    <3>1. CASE h = n
      BY <3>1, <1>2
    <3>2. CASE h = p
      <4>1. j \in 1 .. Len(t[p]) + 1 /\ k \in 1 .. Len(t[p]) + 1
        BY <3>2, <1>5
      <4>2. \A i \in 1 .. Len(t[p]) : t[p][i] # n
        BY <1>9, <1>5 DEF Elements
      <4>3. CASE j <= Len(t[p]) /\ k <= Len(t[p])
        <5>1. j \in DOMAIN t[p] /\ k \in DOMAIN t[p] /\ t[p][j] = t[p][k]
          BY <4>1, <4>3, <1>5, <2>4, <3>2
        <5> QED
          BY <5>1, <1>00, <1>0
      <4>4. CASE j <= Len(t[p]) /\ ~(k <= Len(t[p]))
        <5>1. t[p][j] = n
          BY <4>1, <4>4, <1>5, <2>4, <3>2
        <5> QED
          BY <4>1, <4>2, <4>4, <5>1
      <4>5. CASE ~(j <= Len(t[p])) /\ k <= Len(t[p])
        <5>1. t[p][k] = n
          BY <4>1, <4>5, <1>5, <2>4, <3>2
        <5> QED
          BY <4>1, <4>2, <4>5, <5>1
      <4>6. CASE ~(j <= Len(t[p])) /\ ~(k <= Len(t[p]))
        BY <4>1, <4>6, <1>5
      <4> QED
        BY <4>3, <4>4, <4>5, <4>6
    <3>3. CASE h \in DOMAIN t /\ h # p
      BY <3>3, <1>00, <1>0, <1>4, <2>4
    <3> QED
      BY <3>1, <3>2, <3>3, <1>1
  <2>5. \A g, h \in DOMAIN u : \A x \in Elements(u[g]) : x \in Elements(u[h]) => g = h
    <3> SUFFICES ASSUME NEW g \in DOMAIN u, NEW h \in DOMAIN u, NEW x \in Elements(u[g]),
                        x \in Elements(u[h])
                 PROVE  g = h
      OBVIOUS
    <3>1. \A f \in DOMAIN t : n \notin Elements(t[f])
      BY <1>00, <1>0
    <3>2. CASE x = n
      <4>1. g = p /\ h = p
        BY <3>1, <3>2, <1>8
      <4> QED
        BY <4>1
    <3>3. CASE x # n
      <4>1. g \in DOMAIN t /\ h \in DOMAIN t /\ x \in Elements(t[g]) /\ x \in Elements(t[h])
        BY <3>3, <1>8
      <4> QED
        BY <4>1, <1>00, <1>0
    <3> QED
      BY <3>2, <3>3
  <2>6. \A x \in DOMAIN u \ {0} : \E h \in DOMAIN u : x \in Elements(u[h])
    <3> SUFFICES ASSUME NEW x \in DOMAIN u \ {0} PROVE \E h \in DOMAIN u : x \in Elements(u[h])
      OBVIOUS
    <3>1. CASE x = n
      BY <3>1, <1>5, <1>1
    <3>2. CASE x \in DOMAIN t
      <4>1. PICK h \in DOMAIN t : x \in Elements(t[h])
        BY <3>2, <1>00, <1>0
      <4> QED
        BY <4>1, <1>7, <1>1
    <3> QED
      BY <3>1, <3>2, <1>1
  <2>7. \A h \in DOMAIN u : \A x \in Elements(u[h]) : x \in DOMAIN u /\ x # 0 /\ h < x
    <3> SUFFICES ASSUME NEW h \in DOMAIN u, NEW x \in Elements(u[h])
                 PROVE  x \in DOMAIN u /\ x # 0 /\ h < x
      OBVIOUS
    <3>1. CASE x = n /\ h = p
      BY <3>1, <1>1, <1>00
    <3>2. CASE h \in DOMAIN t /\ x \in Elements(t[h])
      <4>1. x \in DOMAIN t /\ x # 0 /\ h < x
        BY <3>2, <1>00, <1>0
      <4> QED
        BY <4>1, <1>1
    <3> QED
      BY <3>1, <3>2, <1>8
  <2> QED
    BY <2>1, <2>2, <2>3, <2>4, <2>5, <2>6, <2>7 DEF IsForest
<1>11. /\ \A x \in DOMAIN t \ {0} : TreeView_GetParent(t, x) = TreeView_GetParent(u, x)
       /\ \A x \in DOMAIN t : Above(t)[x] = Above(u)[x]
  <2>1. DOMAIN t \subseteq DOMAIN u
    BY <1>1
  <2> QED
    BY <2>1, <1>7, <1>10, SubForest
<1>12. TreeView_GetParent(u, n) = p
  <2>1. p \in DOMAIN u /\ n \in Elements(u[p])
    BY <1>1, <1>5
  <2> QED
    BY <2>1, <1>10, ParentIs
<1>13. Above(u)[n] = {n} \cup Above(t)[p]
  <2>1. n \in DOMAIN u \ {0}
    BY <1>1, <1>00
  <2>2. Above(u)[n] = {n} \cup Above(u)[ParentIn(u)[n]]
    BY <2>1, <1>10, AboveIsUp DEF Hierarchy
  <2>3. ParentIn(u)[n] = p
    BY <2>1, <1>12 DEF ParentIn
  <2> QED
    BY <2>2, <2>3, <1>11
<1> QED
  BY <1>1, <1>2, <1>3, <1>4, <1>10, <1>11, <1>12, <1>13

LEMMA SeqOfElements ==
  ASSUME NEW S, NEW s \in Seq(S), NEW T, Elements(s) \subseteq T
  PROVE  s \in Seq(T)
<1>1. \A k \in 1 .. Len(s) : s[k] \in T
  BY DEF Elements
<1>2. s = [k \in 1 .. Len(s) |-> s[k]] /\ Len(s) \in Nat
  OBVIOUS
<1> QED
  BY <1>1, <1>2

(* Part of a tree, with the same children. *)
LEMMA PartForest ==
  ASSUME NEW t, IsForest(t), NEW u, DOMAIN u \subseteq DOMAIN t, 0 \in DOMAIN u,
         \A h \in DOMAIN u : u[h] \in Seq(DOMAIN t),
         \A h \in DOMAIN u : \A j, k \in DOMAIN u[h] : u[h][j] = u[h][k] => j = k,
         \A h \in DOMAIN u : Elements(u[h]) = Elements(t[h]) \cap DOMAIN u,
         \A x \in DOMAIN u \ {0} : TreeView_GetParent(t, x) \in DOMAIN u
  PROVE  /\ IsForest(u)
         /\ \A x \in DOMAIN u \ {0} : TreeView_GetParent(u, x) = TreeView_GetParent(t, x)
         /\ \A x \in DOMAIN u : Above(u)[x] = Above(t)[x]
<1>0. /\ 0 \in DOMAIN t /\ \A h \in DOMAIN t : h \in Nat /\ t[h] \in Seq(DOMAIN t \ {0})
      /\ \A g, h \in DOMAIN t : \A x \in Elements(t[g]) : x \in Elements(t[h]) => g = h
      /\ \A x \in DOMAIN t \ {0} : \E h \in DOMAIN t : x \in Elements(t[h])
      /\ \A h \in DOMAIN t : \A x \in Elements(t[h]) : x \in DOMAIN t /\ x # 0 /\ h < x
  BY DEF IsForest
<1>1. \A h \in DOMAIN u : h \in DOMAIN t /\ h \in Nat /\ \A x \in Elements(u[h]) : x \in DOMAIN u /\ x \in Elements(t[h])
  BY <1>0
<1>2. ASSUME NEW h \in DOMAIN u PROVE u[h] \in Seq(DOMAIN u \ {0})
  <2>1. Elements(u[h]) \subseteq DOMAIN u \ {0}
    BY <1>1, <1>0
  <2>2. u[h] \in Seq(DOMAIN t)
    OBVIOUS
  <2> QED
    BY ONLY <2>1, <2>2, SeqOfElements
<1>3. \A g, h \in DOMAIN u : \A x \in Elements(u[g]) : x \in Elements(u[h]) => g = h
  BY <1>0, <1>1
<1>4. ASSUME NEW x \in DOMAIN u \ {0} PROVE \E h \in DOMAIN u : x \in Elements(u[h])
  <2> DEFINE h == TreeView_GetParent(t, x)
  <2>1. h \in DOMAIN u /\ x \in Elements(t[h])
    BY ParentOf
  <2> QED
    BY <2>1
<1>5. \A h \in DOMAIN u : \A x \in Elements(u[h]) : x \in DOMAIN u /\ x # 0 /\ h < x
  BY <1>0, <1>1
<1>6. IsForest(u)
  BY <1>1, <1>2, <1>3, <1>4, <1>5 DEF IsForest
<1> QED
  BY <1>1, <1>6, SubForest

LEMMA WithoutIs ==
  ASSUME NEW S, NEW s \in Seq(S), \A j, k \in DOMAIN s : s[j] = s[k] => j = k, NEW x
  PROVE  /\ Without(s, x) \in Seq(S) /\ Elements(Without(s, x)) = Elements(s) \ {x}
         /\ \A j, k \in DOMAIN Without(s, x) : Without(s, x)[j] = Without(s, x)[k] => j = k
<1> DEFINE i == CHOOSE j \in DOMAIN s : s[j] = x
           n == Len(s)
           a == SubSeq(s, 1, i - 1)
           b == SubSeq(s, i + 1, n)
           r == a \o b
<1>1. CASE x \notin Elements(s)
  <2>1. Without(s, x) = s
    BY <1>1 DEF Without
  <2> QED
    BY <2>1, <1>1
<1>2. CASE x \in Elements(s)
  <2>0. n \in Nat /\ DOMAIN s = 1 .. n /\ \A k \in 1 .. n : s[k] \in S
    OBVIOUS
  <2>1. i \in 1 .. n /\ s[i] = x
    <3>1. \E j \in DOMAIN s : s[j] = x
      BY <1>2 DEF Elements
    <3> QED
      BY <3>1, <2>0
  <2>2. Without(s, x) = r
    BY <1>2, Zenon DEF Without
  <2> HIDE DEF i
  <2>3. a = [k \in 1 .. i - 1 |-> s[k]] /\ a \in Seq(S) /\ Len(a) = i - 1
    BY <2>0, <2>1
  <2>4. b \in Seq(S) /\ Len(b) = n - i /\ \A k \in 1 .. n - i : b[k] = s[i + k]
    <3> DEFINE m == i + 1
    <3>1. m \in Int /\ n \in Int /\ \A k \in m .. n : s[k] \in S
      BY <2>0, <2>1
    <3>2. n - m + 1 = n - i /\ (IF m <= n THEN n - m + 1 ELSE 0) = n - i
          /\ \A k \in 1 .. n - i : m + k - 1 = i + k
      <4>1. i \in Int /\ n \in Int /\ i <= n
        BY <2>0, <2>1
      <4>2. n - m + 1 = n - i /\ \A k \in 1 .. n - i : m + k - 1 = i + k
        BY <4>1
      <4>3. (IF m <= n THEN n - m + 1 ELSE 0) = n - i
        BY <4>1
      <4> QED
        BY <4>2, <4>3
    <3> HIDE DEF m
    <3>3. /\ SubSeq(s, m, n) \in Seq(S)
          /\ Len(SubSeq(s, m, n)) = IF m <= n THEN n - m + 1 ELSE 0
          /\ \A k \in 1 .. n - m + 1 : SubSeq(s, m, n)[k] = s[m + k - 1]
      BY <3>1, SubSeqProperties
    <3>4. b = SubSeq(s, m, n)
      BY DEF m
    <3> HIDE DEF b
    <3> QED
      BY <3>2, <3>3, <3>4
  <2> HIDE DEF n, a, b
  <2>5. r \in Seq(S) /\ Len(r) = n - 1 /\ DOMAIN r = 1 .. n - 1
    BY <2>0, <2>1, <2>3, <2>4
  <2>50. \A k \in 1 .. Len(a) + Len(b) : r[k] = IF k <= Len(a) THEN a[k] ELSE b[k - Len(a)]
    <3>1. a \in Seq(S) /\ b \in Seq(S)
      BY <2>3, <2>4
    <3>2. \A k \in 1 .. Len(a) + Len(b) : (a \o b)[k] = IF k <= Len(a) THEN a[k] ELSE b[k - Len(a)]
      BY ONLY <3>1, ConcatProperties
    <3> QED
      BY <3>2
  <2>6. \A k \in 1 .. n - 1 : r[k] = IF k < i THEN s[k] ELSE s[k + 1]
    <3> SUFFICES ASSUME NEW k \in 1 .. n - 1 PROVE r[k] = IF k < i THEN s[k] ELSE s[k + 1]
      OBVIOUS
    <3>1. CASE k < i
      <4>1. k \in 1 .. i - 1 /\ k <= Len(a) /\ k \in 1 .. Len(a) + Len(b)
        BY <3>1, <2>0, <2>1, <2>3, <2>4
      <4>2. r[k] = a[k]
        BY <4>1, <2>50
      <4>3. a[k] = s[k]
        BY <4>1, <2>3
      <4> QED
        BY <4>2, <4>3, <3>1
    <3>2. CASE ~(k < i)
      <4>1. k - (i - 1) \in 1 .. n - i /\ ~(k <= Len(a)) /\ k \in 1 .. Len(a) + Len(b)
        BY <3>2, <2>0, <2>1, <2>3, <2>4
      <4>2. r[k] = b[k - Len(a)]
        BY <4>1, <2>50
      <4>3. b[k - (i - 1)] = s[i + (k - (i - 1))]
        BY <4>1, <2>4
      <4>4. i + (k - (i - 1)) = k + 1
        BY <2>1
      <4> QED
        BY <4>2, <4>3, <4>4, <3>2, <2>3
    <3> QED
      BY <3>1, <3>2
  <2> HIDE DEF r
  <2>7. \A j, k \in 1 .. n : s[j] = s[k] => j = k
    BY <2>0
  <2>8. ASSUME NEW j \in 1 .. n - 1, NEW k \in 1 .. n - 1, r[j] = r[k] PROVE j = k
    <3> DEFINE J == IF j < i THEN j ELSE j + 1
               K == IF k < i THEN k ELSE k + 1
    <3>1. J \in 1 .. n /\ K \in 1 .. n /\ (J = K => j = k)
      BY <2>0, <2>1
    <3>2. r[j] = s[J] /\ r[k] = s[K]
      BY <2>6
    <3> HIDE DEF J, K
    <3> QED
      BY <3>1, <3>2, <2>7, <2>8
  <2>9. ASSUME NEW k \in 1 .. n - 1 PROVE r[k] \in Elements(s) \ {x}
    <3> DEFINE K == IF k < i THEN k ELSE k + 1
    <3>1. K \in 1 .. n /\ K # i
      BY <2>0, <2>1
    <3>2. r[k] = s[K]
      BY <2>6
    <3> HIDE DEF K
    <3>3. s[K] # x
      BY <3>1, <2>1, <2>7
    <3> QED
      BY <3>1, <3>2, <3>3, <2>0 DEF Elements
  <2>10. ASSUME NEW y \in Elements(s) \ {x} PROVE \E k \in 1 .. n - 1 : r[k] = y
    <3>1. PICK K \in 1 .. n : s[K] = y
      BY <2>0 DEF Elements
    <3>2. K # i
      BY <3>1, <2>1
    <3> DEFINE k == IF K < i THEN K ELSE K - 1
    <3>3. k \in 1 .. n - 1 /\ (IF k < i THEN k ELSE k + 1) = K
      BY <3>2, <2>0, <2>1
    <3> HIDE DEF k
    <3>4. r[k] = IF k < i THEN s[k] ELSE s[k + 1]
      BY <3>3, <2>6
    <3>5. r[k] = s[K]
      BY <3>3, <3>4
    <3> QED
      BY <3>1, <3>3, <3>5
  <2>11. Elements(r) = Elements(s) \ {x}
    <3>1. Elements(r) = {r[k] : k \in 1 .. n - 1}
      BY <2>5 DEF Elements
    <3> QED
      BY ONLY <3>1, <2>9, <2>10
  <2> QED
    BY <2>2, <2>5, <2>8, <2>11
<1> QED
  BY <1>1, <1>2

(* An item taken out with all below it. *)
LEMMA CutForest ==
  ASSUME NEW t, IsForest(t), NEW x \in DOMAIN t, x # 0, NEW u,
         u = [h \in DOMAIN t \ Branch(t, x) |-> Without(t[h], x)]
  PROVE  /\ IsForest(u)
         /\ \A y \in DOMAIN u \ {0} : TreeView_GetParent(u, y) = TreeView_GetParent(t, y)
         /\ \A y \in DOMAIN u : Above(u)[y] = Above(t)[y]
<1> DEFINE up == Above(t)
           P(y) == TreeView_GetParent(t, y)
<1>0. /\ 0 \in DOMAIN t /\ \A h \in DOMAIN t : h \in Nat /\ t[h] \in Seq(DOMAIN t \ {0})
      /\ \A h \in DOMAIN t : \A j, k \in DOMAIN t[h] : t[h][j] = t[h][k] => j = k
      /\ \A h \in DOMAIN t : \A y \in Elements(t[h]) : y \in DOMAIN t /\ y # 0 /\ h < y
  BY DEF IsForest
<1>1. up[0] = {0} /\ \A y \in DOMAIN t \ {0} : up[y] = {y} \cup up[P(y)]
  BY AboveIsUp DEF Hierarchy, ParentIn
<1>2. DOMAIN u = DOMAIN t \ Branch(t, x)
  OBVIOUS
<1>3. \A y \in DOMAIN t : y \in DOMAIN u <=> x \notin up[y]
  BY <1>2 DEF Branch
<1>4. 0 \in DOMAIN u
  BY <1>0, <1>1, <1>3
<1>5. \A h \in DOMAIN u : u[h] = Without(t[h], x) /\ h \in DOMAIN t
  OBVIOUS
<1> HIDE DEF up
<1>6. ASSUME NEW h \in DOMAIN u
      PROVE  /\ u[h] \in Seq(DOMAIN t) /\ \A j, k \in DOMAIN u[h] : u[h][j] = u[h][k] => j = k
             /\ Elements(u[h]) = Elements(t[h]) \cap DOMAIN u
  <2>1. /\ t[h] \in Seq(DOMAIN t \ {0})
        /\ \A j, k \in DOMAIN t[h] : t[h][j] = t[h][k] => j = k
    BY <1>0, <1>5
  <2>2. /\ Without(t[h], x) \in Seq(DOMAIN t \ {0}) /\ Elements(Without(t[h], x)) = Elements(t[h]) \ {x}
        /\ \A j, k \in DOMAIN Without(t[h], x) : Without(t[h], x)[j] = Without(t[h], x)[k] => j = k
    BY ONLY <2>1, WithoutIs
  <2>3. u[h] = Without(t[h], x)
    BY <1>5
  <2>4. u[h] \in Seq(DOMAIN t)
    <3>1. \A y \in DOMAIN t \ {0} : y \in DOMAIN t
      OBVIOUS
    <3> QED
      BY ONLY <3>1, <2>2, <2>3
  <2>5. ASSUME NEW y \in Elements(t[h]) PROVE y \in DOMAIN u <=> y # x
    <3>1. y \in DOMAIN t \ {0} /\ P(y) = h
      BY <1>0, <1>5, ParentIs
    <3>2. up[y] = {y} \cup up[h] /\ x \notin up[h]
      BY <3>1, <1>1, <1>3, <1>5
    <3> QED
      BY <3>1, <3>2, <1>3
  <2> QED
    BY <2>2, <2>3, <2>4, <2>5
<1>7. ASSUME NEW y \in DOMAIN u \ {0} PROVE P(y) \in DOMAIN u
  <2>1. y \in DOMAIN t \ {0} /\ P(y) \in DOMAIN t
    BY <1>5, ParentOf
  <2>2. up[y] = {y} \cup up[P(y)] /\ x \notin up[y]
    BY <2>1, <1>1, <1>3
  <2> QED
    BY <2>1, <2>2, <1>3
<1>8. DOMAIN u \subseteq DOMAIN t
  BY <1>5
<1>9. /\ \A h \in DOMAIN u : u[h] \in Seq(DOMAIN t)
      /\ \A h \in DOMAIN u : \A j, k \in DOMAIN u[h] : u[h][j] = u[h][k] => j = k
      /\ \A h \in DOMAIN u : Elements(u[h]) = Elements(t[h]) \cap DOMAIN u
      /\ \A y \in DOMAIN u \ {0} : TreeView_GetParent(t, y) \in DOMAIN u
  BY <1>6, <1>7
<1>10. IsForest(t)
  OBVIOUS
<1> QED
  BY ONLY <1>10, <1>2, <1>4, <1>8, <1>9, PartForest

-----------------------------------------------------------------------------
LEMMA SameCount ==
  ASSUME NEW S, NEW T, IsFiniteSet(S), NEW f \in [S -> T],
         \A x, y \in S : f[x] = f[y] => x = y, \A z \in T : \E x \in S : f[x] = z
  PROVE  IsFiniteSet(T) /\ Cardinality(T) = Cardinality(S)
<1>1. f \in Injection(S, T)
  BY DEF Injection, IsInjective
<1>2. f \in Surjection(S, T)
  BY DEF Surjection
<1>3. ExistsBijection(S, T)
  BY <1>1, <1>2 DEF ExistsBijection, Bijection
<1> QED
  BY <1>3, FS_Bijection

(* The map: each item once, those below an item behind it and together.    *)
IsMapOf(m, D) ==
  /\ m \in Seq(D) /\ \A x \in D : \E k \in DOMAIN m : m[k] = x
  /\ \A j, k \in DOMAIN m : m[j] = m[k] => j = k

InTreeOrder(m, up) ==
  /\ \A i, k \in DOMAIN m : m[i] \in up[m[k]] => i <= k
  /\ \A i, j, k \in DOMAIN m : i <= j /\ j <= k /\ m[i] \in up[m[k]] => m[i] \in up[m[j]]

LEMMA MapCount ==
  ASSUME NEW D, NEW m, IsMapOf(m, D)
  PROVE  /\ IsFiniteSet(D) /\ Cardinality(D) = Len(m) /\ Len(m) \in Nat /\ DOMAIN m = 1 .. Len(m)
         /\ Elements(m) = D
<1>1. m \in Seq(D) /\ \A x \in D : \E k \in DOMAIN m : m[k] = x
  BY DEF IsMapOf
<1>2. Len(m) \in Nat /\ DOMAIN m = 1 .. Len(m) /\ m \in [1 .. Len(m) -> D]
  BY <1>1
<1>3. \A j, k \in 1 .. Len(m) : m[j] = m[k] => j = k
  BY <1>2 DEF IsMapOf
<1> DEFINE n == Len(m)
           I == 1 .. n
<1>4. IsFiniteSet(I) /\ Cardinality(I) = n
  <2> DEFINE a == 1
  <2>1. a \in Int /\ n \in Int /\ n >= 0
    BY <1>2
  <2>2. (IF a > n THEN 0 ELSE n - a + 1) = n
    BY <2>1
  <2> HIDE DEF a, n
  <2>3. IsFiniteSet(a .. n) /\ Cardinality(a .. n) = n
    BY <2>1, <2>2, FS_Interval
  <2> QED
    BY <2>3 DEF a
<1>5. m \in [I -> D] /\ \A x, y \in I : m[x] = m[y] => x = y
  BY <1>2, <1>3
<1>6. \A z \in D : \E x \in I : m[x] = z
  BY <1>1, <1>2
<1> HIDE DEF I
<1>7. IsFiniteSet(D) /\ Cardinality(D) = Cardinality(I)
  BY ONLY <1>4, <1>5, <1>6, SameCount
<1>8. Elements(m) = D
  BY <1>5, <1>6, <1>2 DEF Elements, I
<1> QED
  BY <1>2, <1>4, <1>7, <1>8

(* As many elements as an item has in its branch, from its own on, are its *)
(* branch.                                                                 *)
LEMMA BranchInMap ==
  ASSUME NEW D, NEW par, NEW up, Hierarchy(D, par, up),
         NEW m, IsMapOf(m, D), InTreeOrder(m, up), NEW p \in DOMAIN m,
         NEW B, B = {x \in D : m[p] \in up[x]}
  PROVE  /\ IsFiniteSet(B) /\ Cardinality(B) \in Nat /\ Cardinality(B) >= 1
         /\ p + Cardinality(B) <= Len(m) + 1
         /\ \A k \in DOMAIN m : m[k] \in B <=> p <= k /\ k < p + Cardinality(B)
<1> DEFINE n == Len(m)
           T == {j \in p + 1 .. n + 1 : j = n + 1 \/ m[j] \notin B}
<1>1. /\ n \in Nat /\ DOMAIN m = 1 .. n /\ p \in 1 .. n /\ \A k \in 1 .. n : m[k] \in D
      /\ \A x \in D : \E k \in 1 .. n : m[k] = x
      /\ \A j, k \in 1 .. n : m[j] = m[k] => j = k
  BY MapCount DEF IsMapOf
<1>2. /\ \A i, k \in 1 .. n : m[i] \in up[m[k]] => i <= k
      /\ \A i, j, k \in 1 .. n : i <= j /\ j <= k /\ m[i] \in up[m[k]] => m[i] \in up[m[j]]
  BY <1>1 DEF InTreeOrder
<1>3. PICK e \in T : \A j \in T : e <= j
  <2>1. T \subseteq Nat
    BY <1>1
  <2>2. n + 1 \in T
    BY <1>1
  <2> HIDE DEF T
  <2> QED
    BY <2>1, <2>2, LeastNat
<1>4. e \in p + 1 .. n + 1 /\ e \in Nat /\ p \in Nat
  BY <1>1, <1>3
<1>5. ASSUME NEW k \in 1 .. n, p <= k, k < e PROVE m[k] \in B
  <2>1. CASE k = p
    <3>1. m[p] \in up[m[p]]
      BY <1>1, UpIsBelow
    <3> QED
      BY <3>1, <2>1, <1>1
  <2>2. CASE k # p
    <3>1. k \in p + 1 .. n + 1 /\ k # n + 1
      BY <2>2, <1>5, <1>1
    <3>2. k \notin T
      <4>1. \A j \in T : e <= j
        BY <1>3
      <4> HIDE DEF T
      <4> QED
        BY <4>1, <1>5, <1>4
    <3> QED
      BY <3>1, <3>2
  <2> QED
    BY <2>1, <2>2
<1>6. ASSUME NEW k \in 1 .. n, m[k] \in B PROVE p <= k /\ k < e
  <2>1. m[p] \in up[m[k]]
    BY <1>6
  <2>2. p <= k
    BY <2>1, <1>1, <1>2
  <2>3. ASSUME e <= k PROVE FALSE
    <3>1. e \in 1 .. n /\ e # n + 1 /\ p <= e
      BY <2>3, <1>1, <1>4
    <3>2. m[e] \notin B
      BY <3>1, <1>3
    <3>3. m[p] \in up[m[e]]
      BY <3>1, <2>1, <2>3, <1>1, <1>2
    <3> QED
      BY <3>1, <3>2, <3>3, <1>1
  <2> QED
    BY <2>2, <2>3, <1>1, <1>4
<1> DEFINE I == p .. e - 1
           f == [k \in I |-> m[k]]
<1>7. \A k \in I : k \in 1 .. n /\ p <= k /\ k < e
  BY <1>1, <1>4
<1>8. f \in [I -> B] /\ \A x, y \in I : f[x] = f[y] => x = y
  BY <1>1, <1>5, <1>7
<1>9. \A z \in B : \E k \in I : f[k] = z
  <2> SUFFICES ASSUME NEW z \in B PROVE \E k \in I : f[k] = z
    OBVIOUS
  <2>1. PICK k \in 1 .. n : m[k] = z
    BY <1>1
  <2>2. p <= k /\ k < e
    BY <2>1, <1>6
  <2>3. k \in I
    BY <2>2, <1>4
  <2> QED
    BY <2>1, <2>3
<1>10. IsFiniteSet(I) /\ Cardinality(I) = e - p
  <2> DEFINE b == e - 1
  <2>1. p \in Int /\ b \in Int /\ (IF p > b THEN 0 ELSE b - p + 1) = e - p
    BY <1>4, <1>1
  <2> HIDE DEF b
  <2>2. IsFiniteSet(p .. b) /\ Cardinality(p .. b) = e - p
    BY <2>1, FS_Interval
  <2> QED
    BY <2>2 DEF b
<1> HIDE DEF f, I
<1>11. IsFiniteSet(B) /\ Cardinality(B) = Cardinality(I)
  BY ONLY <1>8, <1>9, <1>10, SameCount
<1>12. Cardinality(B) = e - p /\ e - p \in Nat /\ e - p >= 1 /\ p + (e - p) = e /\ e <= n + 1
  BY <1>10, <1>11, <1>4, <1>1
<1>13. \A k \in 1 .. n : m[k] \in B <=> p <= k /\ k < e
  BY <1>5, <1>6
<1> DEFINE c == Cardinality(B)
<1>14. c = e - p /\ c \in Nat /\ c >= 1 /\ p + c = e
  BY <1>12
<1>15. \A k \in DOMAIN m : m[k] \in B <=> p <= k /\ k < p + c
  BY <1>13, <1>14, <1>1
<1>16. p + c <= n + 1
  BY <1>12, <1>14
<1> QED
  BY <1>11, <1>14, <1>15, <1>16

(* x at place at, and what was there and behind it one place on. *)
Inserted(a, at, x) ==
  [j \in 1 .. Len(a) + 1 |-> IF j < at THEN a[j] ELSE IF j = at THEN x ELSE a[j - 1]]

(* d elements from p on taken out. *)
Removed(a, p, d) == [j \in 1 .. Len(a) - d |-> IF j < p THEN a[j] ELSE a[j + d]]

LEMMA InsertedMap ==
  ASSUME NEW D, NEW m, IsMapOf(m, D), NEW n, n \notin D, NEW at \in 1 .. Len(m) + 1
  PROVE  IsMapOf(Inserted(m, at, n), D \cup {n})
<1> DEFINE N == Len(m)
           r == Inserted(m, at, n)
<1>1. /\ N \in Nat /\ DOMAIN m = 1 .. N /\ \A k \in 1 .. N : m[k] \in D
      /\ \A x \in D : \E k \in 1 .. N : m[k] = x
      /\ \A j, k \in 1 .. N : m[j] = m[k] => j = k
  BY MapCount DEF IsMapOf
<1>2. /\ DOMAIN r = 1 .. N + 1
      /\ \A j \in 1 .. N + 1 : r[j] = IF j < at THEN m[j] ELSE IF j = at THEN n ELSE m[j - 1]
      /\ r = [j \in 1 .. N + 1 |-> r[j]]
  BY DEF Inserted
<1> HIDE DEF r, N
<1>3. at \in 1 .. N + 1
  BY DEF N
<1>4. ASSUME NEW j \in 1 .. N + 1, j # at
      PROVE  \E i \in 1 .. N : r[j] = m[i] /\ i = (IF j < at THEN j ELSE j - 1)
  <2>1. (IF j < at THEN j ELSE j - 1) \in 1 .. N
    BY <1>1, <1>3, <1>4
  <2> QED
    BY <2>1, <1>2, <1>4
<1>5. r[at] = n
  BY <1>2, <1>3
<1>6. \A j \in 1 .. N + 1 : r[j] \in D \cup {n}
  <2> SUFFICES ASSUME NEW j \in 1 .. N + 1 PROVE r[j] \in D \cup {n}
    OBVIOUS
  <2>1. CASE j = at
    BY <2>1, <1>5
  <2>2. CASE j # at
    <3>1. PICK i \in 1 .. N : r[j] = m[i]
      BY <2>2, <1>4
    <3> QED
      BY <3>1, <1>1
  <2> QED
    BY <2>1, <2>2
<1>7. r \in Seq(D \cup {n})
  <2>1. N + 1 \in Nat
    BY <1>1
  <2> QED
    BY <2>1, <1>2, <1>6
<1>8. ASSUME NEW x \in D PROVE \E k \in 1 .. N + 1 : r[k] = x
  <2>1. PICK i \in 1 .. N : m[i] = x
    BY <1>1
  <2>2. CASE i < at
    <3>1. i \in 1 .. N + 1
      BY <1>1
    <3> QED
      BY <3>1, <2>1, <2>2, <1>2
  <2>3. CASE ~(i < at)
    <3>1. i + 1 \in 1 .. N + 1 /\ ~(i + 1 < at) /\ i + 1 # at /\ i + 1 - 1 = i
      BY <2>3, <1>1, <1>3
    <3> QED
      BY <3>1, <2>1, <1>2
  <2> QED
    BY <2>2, <2>3
<1>9. ASSUME NEW j \in 1 .. N + 1, NEW k \in 1 .. N + 1, r[j] = r[k] PROVE j = k
  <2>1. CASE j = at /\ k = at
    BY <2>1
  <2>2. CASE j = at /\ k # at
    <3>1. PICK i \in 1 .. N : r[k] = m[i]
      BY <2>2, <1>4
    <3> QED
      BY <3>1, <2>2, <1>5, <1>9, <1>1
  <2>3. CASE j # at /\ k = at
    <3>1. PICK i \in 1 .. N : r[j] = m[i]
      BY <2>3, <1>4
    <3> QED
      BY <3>1, <2>3, <1>5, <1>9, <1>1
  <2>4. CASE j # at /\ k # at
    <3>1. PICK i \in 1 .. N : r[j] = m[i] /\ i = (IF j < at THEN j ELSE j - 1)
      BY <2>4, <1>4
    <3>2. PICK l \in 1 .. N : r[k] = m[l] /\ l = (IF k < at THEN k ELSE k - 1)
      BY <2>4, <1>4
    <3>3. i = l
      BY <3>1, <3>2, <1>9, <1>1
    <3> QED
      BY <3>1, <3>2, <3>3, <2>4, <1>3, <1>1
  <2> QED
    BY <2>1, <2>2, <2>3, <2>4
<1>10. \A x \in D \cup {n} : \E k \in DOMAIN r : r[k] = x
  BY <1>8, <1>5, <1>2, <1>3
<1>11. \A j, k \in DOMAIN r : r[j] = r[k] => j = k
  BY <1>9, <1>2
<1>12. IsMapOf(r, D \cup {n})
  BY <1>7, <1>10, <1>11 DEF IsMapOf
<1> QED
  BY <1>12 DEF r

(* n is added below q. *)
AddedBelow(D, up, n, q, vp) ==
  /\ n \notin D /\ \A x \in D : vp[x] = up[x] /\ n \notin up[x]
  /\ vp[n] = {n} \cup up[q]

(* The place at lies behind all below q, and behind no other branch.       *)
EndsBranch(m, up, q, at) ==
  /\ at \in 1 .. Len(m) + 1
  /\ \A i, j \in DOMAIN m : i <= j /\ j < at /\ m[i] \in up[q] => m[i] \in up[m[j]]
  /\ \A i \in DOMAIN m : m[i] \in up[q] => i < at
  /\ \A i, k \in DOMAIN m : i < at /\ at <= k /\ m[i] \in up[m[k]] => m[i] \in up[q]

(* A new item behind all below its parent keeps the order. *)
LEMMA InsertedOrder ==
  ASSUME NEW D, NEW m, IsMapOf(m, D), NEW up, InTreeOrder(m, up),
         NEW n, NEW at, NEW q, NEW vp, AddedBelow(D, up, n, q, vp), EndsBranch(m, up, q, at)
  PROVE  InTreeOrder(Inserted(m, at, n), vp)
<1> DEFINE N == Len(m)
           r == Inserted(m, at, n)
           Old(j) == IF j < at THEN j ELSE j - 1
<1>1. N \in Nat /\ DOMAIN m = 1 .. N /\ \A k \in 1 .. N : m[k] \in D
  BY MapCount DEF IsMapOf
<1>2. /\ DOMAIN r = 1 .. N + 1
      /\ \A j \in 1 .. N + 1 : r[j] = IF j < at THEN m[j] ELSE IF j = at THEN n ELSE m[j - 1]
  BY DEF Inserted
<1> HIDE DEF r, N
<1>3. at \in 1 .. N + 1
  BY DEF EndsBranch, N
<1>0. /\ n \notin D /\ \A x \in D : vp[x] = up[x] /\ n \notin up[x]
      /\ vp[n] = {n} \cup up[q]
  BY DEF AddedBelow
<1>4. \A j \in 1 .. N + 1 : j # at => Old(j) \in 1 .. N
  BY <1>1, <1>3
<1>5. \A j \in 1 .. N + 1 : j # at => r[j] = m[Old(j)]
  BY <1>2
<1>6. r[at] = n
  BY <1>2, <1>3
<1>7. \A j, k \in 1 .. N + 1 : j # at /\ k # at => (Old(j) <= Old(k) <=> j <= k)
  BY <1>1, <1>3
<1>8. \A j \in 1 .. N + 1 : j # at => (Old(j) < at <=> j < at)
  BY <1>1, <1>3
<1> HIDE DEF Old
<1>9. ASSUME NEW j \in 1 .. N + 1, j # at
      PROVE  /\ Old(j) \in 1 .. N /\ r[j] = m[Old(j)] /\ m[Old(j)] \in D
             /\ vp[r[j]] = up[m[Old(j)]] /\ n \notin vp[r[j]]
  <2>1. Old(j) \in 1 .. N /\ r[j] = m[Old(j)]
    BY <1>4, <1>5, <1>9
  <2> QED
    BY <2>1, <1>1, <1>0
<1>10. /\ \A i, k \in 1 .. N : m[i] \in up[m[k]] => i <= k
       /\ \A i, j, k \in 1 .. N : i <= j /\ j <= k /\ m[i] \in up[m[k]] => m[i] \in up[m[j]]
  BY <1>1 DEF InTreeOrder
<1>11. /\ \A i, j \in 1 .. N : i <= j /\ j < at /\ m[i] \in up[q] => m[i] \in up[m[j]]
       /\ \A i \in 1 .. N : m[i] \in up[q] => i < at
       /\ \A i, k \in 1 .. N : i < at /\ at <= k /\ m[i] \in up[m[k]] => m[i] \in up[q]
  BY <1>1 DEF EndsBranch
<1>12. ASSUME NEW i \in 1 .. N + 1, NEW k \in 1 .. N + 1, r[i] \in vp[r[k]] PROVE i <= k
  <2>1. CASE i = at
    <3>1. k = at
      BY <2>1, <1>6, <1>9, <1>12
    <3> QED
      BY <3>1, <2>1
  <2>2. CASE i # at /\ k = at
    <3>1. /\ Old(i) \in 1 .. N /\ r[i] = m[Old(i)] /\ m[Old(i)] \in D
      BY <2>2, <1>9
    <3>2. r[i] \in {n} \cup up[q]
      BY <2>2, <1>6, <1>12, <1>0
    <3>3. m[Old(i)] \in up[q]
      BY <3>1, <3>2, <1>0
    <3>4. Old(i) < at
      BY <3>1, <3>3, <1>11
    <3>5. i < at
      BY <3>4, <2>2, <1>8
    <3> QED
      BY <3>5, <2>2, <1>3, <1>1
  <2>3. CASE i # at /\ k # at
    <3>1. /\ Old(i) \in 1 .. N /\ r[i] = m[Old(i)]
          /\ Old(k) \in 1 .. N /\ vp[r[k]] = up[m[Old(k)]]
      BY <2>3, <1>9
    <3>2. Old(i) <= Old(k)
      BY <3>1, <1>10, <1>12
    <3> QED
      BY <3>2, <2>3, <1>7
  <2> QED
    BY <2>1, <2>2, <2>3
<1>13. ASSUME NEW i \in 1 .. N + 1, NEW j \in 1 .. N + 1, NEW k \in 1 .. N + 1,
              i <= j, j <= k, r[i] \in vp[r[k]]
       PROVE  r[i] \in vp[r[j]]
  <2>0. i \in Nat /\ j \in Nat /\ k \in Nat /\ at \in Nat
    BY <1>1, <1>3
  <2>1. CASE i = at
    <3>1. k = at
      BY <2>1, <1>6, <1>9, <1>13
    <3>2. j = at
      BY <3>1, <2>1, <2>0, <1>13
    <3> QED
      BY <3>1, <3>2, <1>13
  <2>2. CASE i # at /\ k = at
    <3>1. Old(i) \in 1 .. N /\ r[i] = m[Old(i)] /\ m[Old(i)] \in D
      BY <2>2, <1>9
    <3>2. m[Old(i)] \in up[q]
      BY <2>2, <1>6, <1>13, <3>1, <1>0
    <3>3. CASE j = at
      BY <3>3, <2>2, <1>13
    <3>4. CASE j # at
      <4>1. Old(j) \in 1 .. N /\ vp[r[j]] = up[m[Old(j)]]
        BY <3>4, <1>9
      <4>2. j < at
        BY <3>4, <2>2, <2>0, <1>13
      <4>3. Old(i) <= Old(j) /\ Old(j) < at
        BY <4>2, <3>4, <2>2, <1>7, <1>8, <1>13
      <4> QED
        BY <4>1, <4>3, <3>1, <3>2, <1>11
    <3> QED
      BY <3>3, <3>4
  <2>3. CASE i # at /\ k # at
    <3>1. /\ Old(i) \in 1 .. N /\ r[i] = m[Old(i)]
          /\ Old(k) \in 1 .. N /\ vp[r[k]] = up[m[Old(k)]]
      BY <2>3, <1>9
    <3>2. m[Old(i)] \in up[m[Old(k)]]
      BY <3>1, <1>13
    <3>3. CASE j = at
      <4>1. i < at /\ ~(k < at)
        BY <3>3, <2>3, <2>0, <1>13
      <4>2. Old(i) < at /\ ~(Old(k) < at)
        BY <4>1, <2>3, <1>8
      <4>3. at <= Old(k)
        BY <4>2, <3>1, <2>0
      <4>4. m[Old(i)] \in up[q]
        BY <4>2, <4>3, <3>1, <3>2, <1>11
      <4> QED
        BY <4>4, <3>1, <3>3, <1>6, <1>0
    <3>4. CASE j # at
      <4>1. Old(j) \in 1 .. N /\ vp[r[j]] = up[m[Old(j)]]
        BY <3>4, <1>9
      <4>2. Old(i) <= Old(j) /\ Old(j) <= Old(k)
        BY <3>4, <2>3, <1>7, <1>13
      <4> QED
        BY <4>1, <4>2, <3>1, <3>2, <1>10
    <3> QED
      BY <3>3, <3>4
  <2> QED
    BY <2>1, <2>2, <2>3
<1>14. InTreeOrder(r, vp)
  BY <1>2, <1>12, <1>13 DEF InTreeOrder
<1> QED
  BY <1>14 DEF r

IsBlock(m, B, p, d) ==
  /\ p \in DOMAIN m /\ d \in Nat /\ p + d <= Len(m) + 1
  /\ \A k \in DOMAIN m : m[k] \in B <=> p <= k /\ k < p + d
SameUp(S, up, vp) == \A x \in S : vp[x] = up[x]

LEMMA RemovedMap ==
  ASSUME NEW D, NEW m, IsMapOf(m, D), NEW up, InTreeOrder(m, up),
         NEW B, NEW p, NEW d, IsBlock(m, B, p, d), NEW vp, SameUp(D \ B, up, vp)
  PROVE  IsMapOf(Removed(m, p, d), D \ B) /\ InTreeOrder(Removed(m, p, d), vp)
<1> DEFINE N == Len(m)
           r == Removed(m, p, d)
           Old(j) == IF j < p THEN j ELSE j + d
<1>1. /\ N \in Nat /\ DOMAIN m = 1 .. N /\ \A k \in 1 .. N : m[k] \in D
      /\ \A x \in D : \E k \in 1 .. N : m[k] = x
      /\ \A j, k \in 1 .. N : m[j] = m[k] => j = k
  BY MapCount DEF IsMapOf
<1>2. /\ DOMAIN r = 1 .. N - d
      /\ \A j \in 1 .. N - d : r[j] = m[Old(j)]
      /\ r = [j \in 1 .. N - d |-> r[j]]
  BY DEF Removed
<1> HIDE DEF r, N
<1>3. /\ p \in 1 .. N /\ p + d <= N + 1 /\ d \in Nat
      /\ \A k \in 1 .. N : m[k] \in B <=> p <= k /\ k < p + d
  BY <1>1 DEF N, IsBlock
<1>4. \A j \in 1 .. N - d : Old(j) \in 1 .. N /\ ~(p <= Old(j) /\ Old(j) < p + d)
  BY <1>1, <1>3
<1>5. \A j, k \in 1 .. N - d : (Old(j) <= Old(k) <=> j <= k) /\ (Old(j) = Old(k) => j = k)
  BY <1>1, <1>3
<1>6. ASSUME NEW k \in 1 .. N, ~(p <= k /\ k < p + d) PROVE \E j \in 1 .. N - d : Old(j) = k
  <2>1. CASE k < p
    <3>1. k \in 1 .. N - d
      BY <2>1, <1>1, <1>3
    <3> QED
      BY <3>1, <2>1
  <2>2. CASE ~(k < p)
    <3>1. k - d \in 1 .. N - d /\ ~(k - d < p) /\ k - d + d = k
      BY <2>2, <1>1, <1>3, <1>6
    <3> QED
      BY <3>1
  <2> QED
    BY <2>1, <2>2
<1> HIDE DEF Old
<1>7. \A j \in 1 .. N - d : r[j] \in D \ B
  BY <1>1, <1>2, <1>3, <1>4
<1>8. r \in Seq(D \ B)
  <2>1. N - d \in Nat
    BY <1>1, <1>3
  <2> QED
    BY <2>1, <1>2, <1>7
<1>9. ASSUME NEW x \in D \ B PROVE \E j \in 1 .. N - d : r[j] = x
  <2>1. PICK k \in 1 .. N : m[k] = x
    BY <1>1
  <2>2. ~(p <= k /\ k < p + d)
    BY <2>1, <1>3
  <2>3. PICK j \in 1 .. N - d : Old(j) = k
    BY <2>2, <1>6
  <2> QED
    BY <2>1, <2>3, <1>2
<1>10. \A j, k \in 1 .. N - d : r[j] = r[k] => j = k
  BY <1>1, <1>2, <1>4, <1>5
<1>11. IsMapOf(r, D \ B)
  BY <1>2, <1>8, <1>9, <1>10 DEF IsMapOf
<1>12. \A j \in 1 .. N - d : vp[r[j]] = up[m[Old(j)]] /\ r[j] = m[Old(j)] /\ Old(j) \in 1 .. N
  BY <1>2, <1>4, <1>7 DEF SameUp
<1>13. /\ \A i, k \in 1 .. N : m[i] \in up[m[k]] => i <= k
       /\ \A i, j, k \in 1 .. N : i <= j /\ j <= k /\ m[i] \in up[m[k]] => m[i] \in up[m[j]]
  BY <1>1 DEF InTreeOrder
<1>14. \A i, k \in 1 .. N - d : r[i] \in vp[r[k]] => i <= k
  BY <1>5, <1>12, <1>13
<1>15. \A i, j, k \in 1 .. N - d : i <= j /\ j <= k /\ r[i] \in vp[r[k]] => r[i] \in vp[r[j]]
  BY <1>5, <1>12, <1>13
<1>16. InTreeOrder(r, vp)
  BY <1>2, <1>14, <1>15 DEF InTreeOrder
<1> QED
  BY <1>11, <1>16 DEF r

-----------------------------------------------------------------------------
(* The invariant *)
TreeTypes ==
  /\ itemIds \in BOOLEAN /\ treeError \in BOOLEAN /\ made \in Nat
  /\ \A h \in DOMAIN children : h <= made
  /\ LiveItems \subseteq TreeHandles
  /\ DOMAIN lparam = LiveItems
  /\ \A h \in LiveItems : lparam[h].id \in Nat /\ lparam[h].node \in BOOLEAN
  /\ picture \in Seq(Nat) /\ Len(picture) = Len(pageMap)
  /\ headClick \in Seq({NIL, 1}) /\ Len(headClick) = Len(pageMap)

(* In DEFINE TREE the branches of the open nodes reach to the end of the   *)
(* map, each in that of the one before.                                    *)
OpenAtTheEnd ==
  /\ openNodes \in Seq(DOMAIN children)
  /\ \A n \in DOMAIN openNodes, i, j \in DOMAIN pageMap :
       i <= j /\ pageMap[i] \in Above(children)[openNodes[n]] => pageMap[i] \in Above(children)[pageMap[j]]
  /\ \A n, k \in DOMAIN openNodes :
       n <= k => Above(children)[openNodes[n]] \subseteq Above(children)[openNodes[k]]

IdsAgree == itemIds => \A p \in DOMAIN pageMap : picture[p] = lparam[pageMap[p]].id

TreeInv ==
  /\ TreeTypes /\ IsForest(children)
  /\ IsMapOf(pageMap, LiveItems) /\ InTreeOrder(pageMap, Above(children))
  /\ OpenAtTheEnd /\ IdsAgree

LEMMA AppendIsInserted ==
  ASSUME NEW S, NEW a \in Seq(S), NEW x
  PROVE  Append(a, x) = Inserted(a, Len(a) + 1, x) /\ Len(a) + 1 \in 1 .. Len(a) + 1
<1> DEFINE n == Len(a)
<1>1. /\ n \in Nat /\ DOMAIN Append(a, x) = 1 .. n + 1
      /\ \A k \in 1 .. n + 1 : Append(a, x)[k] = IF k <= n THEN a[k] ELSE x
  BY ElementsOfAppend
<1>2. Append(a, x) = [k \in 1 .. n + 1 |-> Append(a, x)[k]]
  <2> DEFINE b == Append(a, x)
  <2>1. b \in Seq(S \cup {x}) /\ DOMAIN b = 1 .. n + 1
    BY <1>1
  <2> HIDE DEF b, n
  <2>2. b = [k \in DOMAIN b |-> b[k]]
    BY <2>1
  <2>3. b = [k \in 1 .. n + 1 |-> b[k]]
    BY <2>1, <2>2
  <2> QED
    BY <2>3 DEF b
<1>3. \A k \in 1 .. n + 1 : Append(a, x)[k] = IF k < n + 1 THEN a[k] ELSE IF k = n + 1 THEN x ELSE a[k - 1]
  BY <1>1
<1>4. n + 1 \in 1 .. n + 1
  BY <1>1
<1> QED
  BY <1>2, <1>3, <1>4 DEF Inserted

LEMMA InsertIsInserted ==
  ASSUME NEW S, NEW a \in Seq(S), NEW at \in 1 .. Len(a) + 1, NEW x
  PROVE  AIns(ASize(a, Len(a) + 1), at, x) = Inserted(a, at, x)
<1> DEFINE n == Len(a)
           b == ASize(a, n + 1)
<1>1. n \in Nat /\ DOMAIN a = 1 .. n
  OBVIOUS
<1>2. DOMAIN b = 1 .. n + 1 /\ \A k \in 1 .. n + 1 : b[k] = IF k \in 1 .. n THEN a[k] ELSE NIL
  BY <1>1 DEF ASize
<1>3. at \in 1 .. n + 1
  OBVIOUS
<1> HIDE DEF n, b
<1>4. \A k \in 1 .. n + 1 : k < at => k \in 1 .. n + 1 /\ k \in 1 .. n
  BY <1>1, <1>3
<1>5. \A k \in 1 .. n + 1 : ~(k < at) /\ k # at => k - 1 \in 1 .. n + 1 /\ k - 1 \in 1 .. n
  BY <1>1, <1>3
<1>6. \A k \in 1 .. n + 1 :
        (IF k < at THEN b[k] ELSE IF k = at THEN x ELSE b[k - 1])
          = IF k < at THEN a[k] ELSE IF k = at THEN x ELSE a[k - 1]
  BY <1>2, <1>4, <1>5
<1>7. AIns(b, at, x) = [k \in 1 .. n + 1 |-> IF k < at THEN b[k] ELSE IF k = at THEN x ELSE b[k - 1]]
  BY <1>2 DEF AIns
<1>8. AIns(b, at, x) = [k \in 1 .. n + 1 |-> IF k < at THEN a[k] ELSE IF k = at THEN x ELSE a[k - 1]]
  BY <1>6, <1>7
<1> QED
  BY <1>8 DEF Inserted, n, b

LEMMA InsertedIs ==
  ASSUME NEW S, NEW a \in Seq(S), NEW at \in 1 .. Len(a) + 1, NEW x \in S
  PROVE  /\ Inserted(a, at, x) \in Seq(S) /\ Len(Inserted(a, at, x)) = Len(a) + 1
         /\ DOMAIN Inserted(a, at, x) = 1 .. Len(a) + 1
<1> DEFINE n == Len(a)
<1>1. n \in Nat /\ DOMAIN a = 1 .. n /\ \A k \in 1 .. n : a[k] \in S
  OBVIOUS
<1>2. \A k \in 1 .. n + 1 : (IF k < at THEN a[k] ELSE IF k = at THEN x ELSE a[k - 1]) \in S
  <2> SUFFICES ASSUME NEW k \in 1 .. n + 1
               PROVE  (IF k < at THEN a[k] ELSE IF k = at THEN x ELSE a[k - 1]) \in S
    OBVIOUS
  <2>1. CASE k < at
    <3>1. k \in 1 .. n
      BY <2>1, <1>1
    <3> QED
      BY <3>1, <2>1, <1>1
  <2>2. CASE k = at
    BY <2>2, <1>1
  <2>3. CASE ~(k < at) /\ k # at
    <3>1. k - 1 \in 1 .. n
      BY <2>3, <1>1
    <3> QED
      BY <3>1, <2>3, <1>1
  <2> QED
    BY <2>1, <2>2, <2>3
<1>3. n + 1 \in Nat
  BY <1>1
<1>4. Inserted(a, at, x) = [k \in 1 .. n + 1 |-> IF k < at THEN a[k] ELSE IF k = at THEN x ELSE a[k - 1]]
  BY DEF Inserted
<1> HIDE DEF n
<1>5. Inserted(a, at, x) \in Seq(S)
  BY <1>2, <1>3, <1>4
<1>6. Len(Inserted(a, at, x)) = n + 1 /\ DOMAIN Inserted(a, at, x) = 1 .. n + 1
  BY <1>3, <1>4, <1>5
<1> QED
  BY <1>5, <1>6 DEF n

LEMMA DeleteIsRemoved ==
  ASSUME NEW S, NEW a \in Seq(S), NEW p \in 1 .. Len(a), NEW d \in Nat, p + d <= Len(a) + 1
  PROVE  /\ ASize(ADel(a, p, d), Len(a) - d) = Removed(a, p, d)
         /\ Removed(a, p, d) \in Seq(S) /\ Len(Removed(a, p, d)) = Len(a) - d
         /\ DOMAIN Removed(a, p, d) = 1 .. Len(a) - d
<1> DEFINE n == Len(a)
           b == ADel(a, p, d)
<1>1. n \in Nat /\ DOMAIN a = 1 .. n /\ p \in 1 .. n /\ p + d <= n + 1 /\ \A k \in 1 .. n : a[k] \in S
  OBVIOUS
<1>2. DOMAIN b = 1 .. n /\ \A k \in 1 .. n : b[k] = IF k < p THEN a[k] ELSE IF k + d \in 1 .. n THEN a[k + d] ELSE NIL
  BY <1>1 DEF ADel
<1> HIDE DEF n, b
<1>3. \A k \in 1 .. n - d : k \in 1 .. n /\ k + d \in 1 .. n
  BY <1>1
<1>4. \A k \in 1 .. n - d : b[k] = IF k < p THEN a[k] ELSE a[k + d]
  BY <1>2, <1>3
<1>5. ASize(b, n - d) = [k \in 1 .. n - d |-> IF k < p THEN a[k] ELSE a[k + d]]
  BY <1>2, <1>3, <1>4 DEF ASize
<1>6. \A k \in 1 .. n - d : (IF k < p THEN a[k] ELSE a[k + d]) \in S
  BY <1>1, <1>3
<1>7. n - d \in Nat
  BY <1>1
<1>8. Removed(a, p, d) = [k \in 1 .. n - d |-> IF k < p THEN a[k] ELSE a[k + d]]
  BY DEF Removed, n
<1>9. Removed(a, p, d) \in Seq(S)
  BY <1>6, <1>7, <1>8
<1>10. Len(Removed(a, p, d)) = n - d /\ DOMAIN Removed(a, p, d) = 1 .. n - d
  BY <1>7, <1>8, <1>9
<1> QED
  BY <1>5, <1>8, <1>9, <1>10 DEF n, b

(* An item added below q, in the arrays at place at. *)
LEMMA GrowKeeps ==
  ASSUME TreeInv, NEW q \in DOMAIN children, NEW id \in Nat, NEW node \in BOOLEAN,
         NEW cargo \in {NIL, 1}, AddTreeItem(q, id, node),
         NEW at, EndsBranch(pageMap, Above(children), q, at),
         pageMap' = Inserted(pageMap, at, NewItem), picture' = Inserted(picture, at, id),
         headClick' = Inserted(headClick, at, cargo), UNCHANGED <<itemIds, treeError>>
  PROVE  /\ TreeTypes' /\ IsForest(children') /\ IsMapOf(pageMap', LiveItems')
         /\ InTreeOrder(pageMap', Above(children')) /\ IdsAgree'
         /\ DOMAIN children' = DOMAIN children \cup {NewItem} /\ NewItem \notin DOMAIN children
         /\ \A x \in DOMAIN children : Above(children')[x] = Above(children)[x]
         /\ Above(children')[NewItem] = {NewItem} \cup Above(children)[q]
         /\ \A x \in LiveItems : TreeView_GetParent(children', x) = TreeView_GetParent(children, x)
         /\ TreeView_GetParent(children', NewItem) = q
<1> DEFINE n == NewItem
           up == Above(children)
           vp == Above(children')
           D == LiveItems
<1>1. /\ made \in Nat /\ \A h \in DOMAIN children : h <= made /\ h \in Nat
      /\ IsForest(children) /\ IsMapOf(pageMap, D) /\ InTreeOrder(pageMap, up)
  BY DEF TreeInv, TreeTypes, IsForest
<1>2. n \in Nat /\ n # 0 /\ n \notin DOMAIN children /\ \A h \in DOMAIN children : h < n
  BY <1>1 DEF NewItem
<1>3. children' = Grown(children, q, n) /\ n \in TreeHandles /\ made' = n
      /\ lparam' = With(lparam, n, [id |-> id, node |-> node])
  BY DEF AddTreeItem, Grown
<1> HIDE DEF n
<1>4. /\ IsForest(children') /\ DOMAIN children' = DOMAIN children \cup {n}
      /\ \A x \in DOMAIN children : vp[x] = up[x]
      /\ vp[n] = {n} \cup up[q]
      /\ \A x \in DOMAIN children \ {0} : TreeView_GetParent(children', x) = TreeView_GetParent(children, x)
      /\ TreeView_GetParent(children', n) = q
  <2>1. /\ IsForest(children) /\ q \in DOMAIN children /\ n \in Nat /\ n # 0 /\ n \notin DOMAIN children
        /\ \A h \in DOMAIN children : h < n
    BY <1>1, <1>2
  <2>2. children' = Grown(children, q, n)
    BY <1>3
  <2> DEFINE t == children
             u == children'
  <2> HIDE DEF t, u
  <2>3. IsForest(t) /\ q \in DOMAIN t /\ IsNext(t, n) /\ u = Grown(t, q, n)
    BY <2>1, <2>2 DEF t, u, IsNext
  <2>4. /\ IsForest(u)
        /\ \A x \in DOMAIN t : Above(u)[x] = Above(t)[x]
        /\ Above(u)[n] = {n} \cup Above(t)[q]
        /\ \A x \in DOMAIN t \ {0} : TreeView_GetParent(u, x) = TreeView_GetParent(t, x)
        /\ TreeView_GetParent(u, n) = q
    BY ONLY <2>3, GrownForest
  <2>5. \A x : x \in DOMAIN u <=> x \in DOMAIN t \/ x = n
    BY ONLY <2>3, GrownIs
  <2>6. DOMAIN u = DOMAIN t \cup {n}
    BY <2>5
  <2> QED
    BY <2>4, <2>6 DEF t, u
<1>5. LiveItems' = D \cup {n} /\ n \notin D
  BY <1>4, <1>2 DEF LiveItems
<1>00. at \in 1 .. Len(pageMap) + 1
  BY DEF EndsBranch
<1>6. IsMapOf(pageMap', LiveItems')
  <2>1. IsMapOf(Inserted(pageMap, at, n), D \cup {n})
    <3> HIDE DEF D
    <3> QED
      BY <1>1, <1>5, <1>00, InsertedMap
  <2> QED
    BY <2>1, <1>5 DEF n
<1>7. \A x \in D : x \in DOMAIN children /\ x # 0
  BY DEF LiveItems
<1>8. \A x \in D : vp[x] = up[x] /\ n \notin up[x]
  <2>1. Hierarchy(DOMAIN children \ {0}, ParentIn(children), up)
    BY <1>1, AboveIsUp
  <2>2. \A x \in (DOMAIN children \ {0}) \cup {0} : \A a \in up[x] : a \in (DOMAIN children \ {0}) \cup {0}
    <3> DEFINE E == DOMAIN children \ {0}
               pr == ParentIn(children)
    <3>1. Hierarchy(E, pr, up)
      BY <2>1
    <3> HIDE DEF E, pr, up
    <3>2. \A x \in E \cup {0} : \A a \in up[x] : a \in E \cup {0}
      BY ONLY <3>1, UpIsBelow
    <3> QED
      BY <3>2 DEF E
  <2>3. \A x \in D : n \notin up[x]
    BY <2>2, <1>2, <1>7
  <2> QED
    BY <2>3, <1>4, <1>7
<1>9. InTreeOrder(pageMap', vp)
  <2>1. InTreeOrder(Inserted(pageMap, at, n), vp)
    <3>1. AddedBelow(D, up, n, q, vp)
      BY <1>5, <1>8, <1>4 DEF AddedBelow
    <3>2. EndsBranch(pageMap, up, q, at)
      OBVIOUS
    <3> HIDE DEF up, vp, D
    <3> QED
      BY <1>1, <3>1, <3>2, InsertedOrder
  <2> QED
    BY <2>1 DEF n
<1>10. /\ Len(pageMap) \in Nat /\ Len(picture) = Len(pageMap) /\ Len(headClick) = Len(pageMap)
       /\ pageMap \in Seq(D) /\ picture \in Seq(Nat) /\ headClick \in Seq({NIL, 1})
       /\ DOMAIN pageMap = 1 .. Len(pageMap) /\ \A k \in 1 .. Len(pageMap) : pageMap[k] \in D
       /\ DOMAIN lparam = D
  BY <1>1 DEF TreeInv, TreeTypes, IsMapOf
<1>11. /\ picture' \in Seq(Nat) /\ Len(picture') = Len(pageMap) + 1 /\ DOMAIN picture' = 1 .. Len(pageMap) + 1
  <2>1. picture \in Seq(Nat) /\ at \in 1 .. Len(picture) + 1 /\ id \in Nat
    BY <1>00, <1>10
  <2>2. /\ Inserted(picture, at, id) \in Seq(Nat) /\ Len(Inserted(picture, at, id)) = Len(picture) + 1
        /\ DOMAIN Inserted(picture, at, id) = 1 .. Len(picture) + 1
    BY ONLY <2>1, InsertedIs
  <2> QED
    BY <2>2, <1>10
<1>12. /\ headClick' \in Seq({NIL, 1}) /\ Len(headClick') = Len(pageMap) + 1
  BY <1>00, <1>10, InsertedIs
<1>13. /\ Len(pageMap') = Len(pageMap) + 1 /\ DOMAIN pageMap' = 1 .. Len(pageMap) + 1
  <2>1. pageMap \in Seq(D \cup {n}) /\ n \in D \cup {n}
    BY <1>10
  <2> QED
    BY <2>1, <1>00, InsertedIs DEF n
<1>14. /\ DOMAIN lparam' = D \cup {n} /\ lparam'[n] = [id |-> id, node |-> node]
       /\ \A h \in D : lparam'[h] = lparam[h]
  BY <1>3, <1>5, <1>10 DEF With
<1>15. TreeTypes'
  <2>1. itemIds' \in BOOLEAN /\ treeError' \in BOOLEAN /\ made' \in Nat
    BY <1>2, <1>3 DEF TreeInv, TreeTypes
  <2>2. \A h \in DOMAIN children' : h <= made'
    <3> SUFFICES ASSUME NEW h \in DOMAIN children' PROVE h <= made'
      OBVIOUS
    <3>1. h = n \/ h \in DOMAIN children
      BY <1>4
    <3>2. h \in Nat /\ (h = n \/ h < n)
      BY <3>1, <1>1, <1>2
    <3> QED
      BY <3>2, <1>2, <1>3
  <2>3. LiveItems' \subseteq TreeHandles
    BY <1>3, <1>5 DEF TreeInv, TreeTypes
  <2>4. \A h \in LiveItems' : lparam'[h].id \in Nat /\ lparam'[h].node \in BOOLEAN
    <3> SUFFICES ASSUME NEW h \in LiveItems' PROVE lparam'[h].id \in Nat /\ lparam'[h].node \in BOOLEAN
      OBVIOUS
    <3>1. CASE h = n
      BY <3>1, <1>14
    <3>2. CASE h \in D
      <4>1. lparam[h].id \in Nat /\ lparam[h].node \in BOOLEAN
        BY <3>2 DEF TreeInv, TreeTypes
      <4> QED
        BY <4>1, <3>2, <1>14
    <3> QED
      BY <3>1, <3>2, <1>5
  <2> QED
    BY <2>1, <2>2, <2>3, <2>4, <1>5, <1>11, <1>12, <1>13, <1>14 DEF TreeTypes
<1>16. IdsAgree'
  <2> SUFFICES ASSUME itemIds, NEW k \in 1 .. Len(pageMap) + 1
               PROVE  picture'[k] = lparam'[pageMap'[k]].id
    BY <1>13 DEF IdsAgree
  <2>1. \A i \in 1 .. Len(pageMap) : picture[i] = lparam[pageMap[i]].id
    BY <1>10 DEF TreeInv, IdsAgree
  <2>2. /\ picture'[k] = IF k < at THEN picture[k] ELSE IF k = at THEN id ELSE picture[k - 1]
        /\ pageMap'[k] = IF k < at THEN pageMap[k] ELSE IF k = at THEN n ELSE pageMap[k - 1]
    BY <1>00, <1>10 DEF Inserted, n
  <2>3. CASE k < at
    <3>1. k \in 1 .. Len(pageMap)
      BY <2>3, <1>10, <1>00
    <3> QED
      BY <3>1, <2>1, <2>2, <2>3, <1>10, <1>14
  <2>4. CASE k = at
    <3>1. picture'[k] = id /\ pageMap'[k] = n
      BY <2>2, <2>4, <1>10, <1>00
    <3> QED
      BY <3>1, <1>14
  <2>5. CASE ~(k < at) /\ k # at
    <3>1. k - 1 \in 1 .. Len(pageMap)
      BY <2>5, <1>10, <1>00
    <3> QED
      BY <3>1, <2>1, <2>2, <2>5, <1>10, <1>14
  <2> QED
    BY <2>3, <2>4, <2>5
<1>17. \A x \in D : TreeView_GetParent(children', x) = TreeView_GetParent(children, x)
  BY <1>4, <1>7
<1> QED
  BY <1>2, <1>4, <1>6, <1>9, <1>15, <1>16, <1>17 DEF n

(* An id that no other item has is left. *)
LEMMA NewIdsAre ==
  ASSUME TreeInv, NEW id \in NewIds
  PROVE  id \in Nat /\ (itemIds => id # 0 /\ id \notin Elements(picture)) /\ (~itemIds => id = 0)
<1>1. CASE ~itemIds
  BY <1>1 DEF NewIds
<1>2. CASE itemIds
  <2> DEFINE n == Len(picture)
             c == Cardinality(TreeHandles)
             E == Elements(picture)
             S == TreeIds \ E
  <2>1. picture \in Seq(Nat) /\ n \in Nat /\ DOMAIN picture = 1 .. n /\ n = Len(pageMap)
    BY DEF TreeInv, TreeTypes
  <2>2. IsFiniteSet(TreeHandles) /\ c \in Nat
    BY TreeAssumption, FS_CardinalityType
  <2>3. n <= c
    <3>1. Cardinality(LiveItems) = n
      BY <2>1, MapCount DEF TreeInv
    <3>2. LiveItems \in SUBSET TreeHandles
      BY DEF TreeInv, TreeTypes
    <3> QED
      BY <2>2, <3>1, <3>2, FS_Subset
  <2>4. IsFiniteSet(E) /\ Cardinality(E) <= n
    <3>1. picture \in [1 .. n -> E] /\ \A z \in E : \E k \in 1 .. n : picture[k] = z
      BY <2>1 DEF Elements
    <3>2. picture \in Surjection(1 .. n, E)
      BY <3>1 DEF Surjection
    <3> HIDE DEF n, E
    <3>3. IsFiniteSet(1 .. n) /\ Cardinality(1 .. n) = n
      <4> DEFINE a == 1
      <4>1. a \in Int /\ n \in Int /\ (IF a > n THEN 0 ELSE n - a + 1) = n
        BY <2>1
      <4> HIDE DEF a
      <4>2. IsFiniteSet(a .. n) /\ Cardinality(a .. n) = n
        BY <4>1, FS_Interval
      <4> QED
        BY <4>2 DEF a
    <3> QED
      BY <3>2, <3>3, FS_Surjection
  <2>5. S # {}
    <3> SUFFICES ASSUME S = {} PROVE FALSE
      OBVIOUS
    <3>1. TreeIds \in SUBSET E
      OBVIOUS
    <3>2. Cardinality(TreeIds) = c + 1
      <4> DEFINE a == 1
                 b == c + 1
      <4>1. a \in Int /\ b \in Int /\ (IF a > b THEN 0 ELSE b - a + 1) = c + 1
        BY <2>2
      <4> HIDE DEF a, b
      <4>2. Cardinality(a .. b) = c + 1
        BY <4>1, FS_Interval
      <4> QED
        BY <4>2 DEF a, b, TreeIds
    <3>3. Cardinality(TreeIds) <= Cardinality(E)
      BY <2>4, <3>1, FS_Subset
    <3>4. Cardinality(E) \in Nat
      BY <2>4, FS_CardinalityType
    <3> HIDE DEF n, c, E
    <3> QED
      BY <2>1, <2>2, <2>3, <2>4, <3>2, <3>3, <3>4
  <2>6. S \subseteq Nat /\ 0 \notin S
    BY <2>2 DEF TreeIds
  <2> HIDE DEF S
  <2>7. \E k \in S : \A j \in S : k <= j
    BY <2>5, <2>6, LeastNat
  <2>8. Least(S) \in S
    BY <2>7 DEF Least
  <2>9. id = Least(S)
    BY <1>2 DEF NewIds, S
  <2> QED
    BY <1>2, <2>6, <2>8, <2>9 DEF S
<1>3. itemIds \in BOOLEAN
  BY DEF TreeInv, TreeTypes
<1> QED
  BY <1>1, <1>2, <1>3

(* Where the branch of q reaches to the end of the map, a new item of it   *)
(* is appended.                                                            *)
AtTheEnd(m, up, q) ==
  \A i, j \in DOMAIN m : i <= j /\ m[i] \in up[q] => m[i] \in up[m[j]]

GrowsAt(q, id, node, cargo, at) ==
  /\ AddTreeItem(q, id, node) /\ EndsBranch(pageMap, Above(children), q, at)
  /\ pageMap' = Inserted(pageMap, at, NewItem) /\ picture' = Inserted(picture, at, id)
  /\ headClick' = Inserted(headClick, at, cargo) /\ UNCHANGED <<itemIds, treeError>>

LEMMA AppendGrows ==
  ASSUME TreeInv, NEW q \in DOMAIN children, NEW id \in NewIds, NEW node \in BOOLEAN,
         NEW cargo \in {NIL, 1}, AddTreeItem(q, id, node), AppendItem(id, cargo),
         AtTheEnd(pageMap, Above(children), q)
  PROVE  \E at : GrowsAt(q, id, node, cargo, at)
<1> DEFINE n == Len(pageMap)
           at == n + 1
           up == Above(children)
<1>1. /\ n \in Nat /\ DOMAIN pageMap = 1 .. n /\ pageMap \in Seq(LiveItems)
      /\ Len(picture) = n /\ picture \in Seq(Nat) /\ Len(headClick) = n /\ headClick \in Seq({NIL, 1})
  BY DEF TreeInv, TreeTypes, IsMapOf
<1>3. /\ pageMap' = Inserted(pageMap, at, NewItem) /\ picture' = Inserted(picture, at, id)
      /\ headClick' = Inserted(headClick, at, cargo) /\ UNCHANGED <<itemIds, treeError>>
  <2>1. pageMap' = Inserted(pageMap, Len(pageMap) + 1, NewItem)
    BY <1>1, AppendIsInserted DEF AppendItem
  <2>2. picture' = Inserted(picture, Len(picture) + 1, id)
    BY <1>1, AppendIsInserted DEF AppendItem
  <2>3. headClick' = Inserted(headClick, Len(headClick) + 1, cargo)
    BY <1>1, AppendIsInserted DEF AppendItem
  <2> QED
    BY <1>1, <2>1, <2>2, <2>3 DEF AppendItem
<1>4. EndsBranch(pageMap, up, q, at)
  <2> HIDE DEF up
  <2>1. at \in 1 .. n + 1
    BY <1>1
  <2>2. \A i, j \in 1 .. n : i <= j /\ pageMap[i] \in up[q] => pageMap[i] \in up[pageMap[j]]
    BY <1>1 DEF AtTheEnd, up
  <2>3. \A i \in 1 .. n : i < at /\ ~(at <= i)
    BY <1>1
  <2> HIDE DEF at
  <2> QED
    BY <1>1, <2>1, <2>2, <2>3 DEF EndsBranch
<1>5. GrowsAt(q, id, node, cargo, at)
  BY <1>3, <1>4 DEF GrowsAt
<1> QED
  BY <1>5

LEMMA AppendKeeps ==
  ASSUME TreeInv, NEW q \in DOMAIN children, NEW id \in NewIds, NEW node \in BOOLEAN,
         NEW cargo \in {NIL, 1}, AddTreeItem(q, id, node), AppendItem(id, cargo),
         AtTheEnd(pageMap, Above(children), q)
  PROVE  /\ TreeTypes' /\ IsForest(children') /\ IsMapOf(pageMap', LiveItems')
         /\ InTreeOrder(pageMap', Above(children')) /\ IdsAgree'
         /\ DOMAIN children' = DOMAIN children \cup {NewItem} /\ NewItem \notin DOMAIN children
         /\ \A x \in DOMAIN children : Above(children')[x] = Above(children)[x]
         /\ Above(children')[NewItem] = {NewItem} \cup Above(children)[q]
         /\ \A x \in LiveItems : TreeView_GetParent(children', x) = TreeView_GetParent(children, x)
         /\ TreeView_GetParent(children', NewItem) = q
<1>1. PICK at : GrowsAt(q, id, node, cargo, at)
  BY AppendGrows
<1>2. id \in Nat
  BY NewIdsAre
<1> QED
  BY <1>1, <1>2, GrowKeeps DEF GrowsAt

LEMMA RootAtTheEnd ==
  ASSUME TreeInv
  PROVE  0 \in DOMAIN children /\ AtTheEnd(pageMap, Above(children), 0)
<1>1. IsForest(children) /\ 0 \in DOMAIN children
  BY DEF TreeInv, IsForest
<1>2. Above(children)[0] = {0}
  BY <1>1, AboveIsUp DEF Hierarchy
<1>3. \A i \in DOMAIN pageMap : pageMap[i] # 0
  BY DEF TreeInv, IsMapOf, LiveItems
<1> QED
  BY <1>1, <1>2, <1>3 DEF AtTheEnd

LEMMA OpenNodeAtTheEnd ==
  ASSUME TreeInv, openNodes # <<>>
  PROVE  /\ openNodes[Len(openNodes)] \in DOMAIN children
         /\ AtTheEnd(pageMap, Above(children), openNodes[Len(openNodes)])
<1>1. Len(openNodes) \in DOMAIN openNodes /\ openNodes[Len(openNodes)] \in DOMAIN children
  <2>1. openNodes \in Seq(DOMAIN children)
    BY DEF TreeInv, OpenAtTheEnd
  <2>2. Len(openNodes) \in 1 .. Len(openNodes)
    BY <2>1
  <2> QED
    BY <2>1, <2>2
<1> QED
  BY <1>1 DEF TreeInv, OpenAtTheEnd, AtTheEnd

LEMMA OpenNodesStay ==
  ASSUME TreeInv, openNodes # <<>>, NEW q, q = openNodes[Len(openNodes)], NEW id \in NewIds,
         NEW node \in BOOLEAN, NEW cargo \in SomeCargo, AddTreeItem(q, id, node), AppendItem(id, cargo)
  PROVE  /\ TreeTypes' /\ IsForest(children') /\ IsMapOf(pageMap', LiveItems')
         /\ InTreeOrder(pageMap', Above(children')) /\ IdsAgree'
         /\ q \in DOMAIN children /\ DOMAIN children' = DOMAIN children \cup {NewItem}
         /\ AtTheEnd(pageMap', Above(children'), NewItem)
         /\ \A n \in DOMAIN openNodes :
              /\ AtTheEnd(pageMap', Above(children'), openNodes[n])
              /\ Above(children')[openNodes[n]] \subseteq Above(children')[NewItem]
         /\ \A n, k \in DOMAIN openNodes :
              n <= k => Above(children')[openNodes[n]] \subseteq Above(children')[openNodes[k]]
<1> DEFINE N == Len(pageMap)
           up == Above(children)
           vp == Above(children')
           m == pageMap
           r == pageMap'
           x == NewItem
<1>1. q \in DOMAIN children /\ AtTheEnd(m, up, q) /\ cargo \in {NIL, 1}
  BY OpenNodeAtTheEnd DEF SomeCargo
<1>2. /\ TreeTypes' /\ IsForest(children') /\ IsMapOf(pageMap', LiveItems')
      /\ InTreeOrder(pageMap', Above(children')) /\ IdsAgree'
      /\ DOMAIN children' = DOMAIN children \cup {x} /\ x \notin DOMAIN children
      /\ \A y \in DOMAIN children : vp[y] = up[y]
      /\ vp[x] = {x} \cup up[q]
  BY <1>1, AppendKeeps
<1>3. /\ N \in Nat /\ DOMAIN m = 1 .. N /\ \A k \in 1 .. N : m[k] \in DOMAIN children
      /\ m \in Seq(LiveItems)
  BY DEF TreeInv, IsMapOf, LiveItems
<1>4. DOMAIN r = 1 .. N + 1 /\ \A k \in 1 .. N + 1 : r[k] = IF k <= N THEN m[k] ELSE x
  BY <1>3, ElementsOfAppend DEF AppendItem
<1>5. /\ openNodes \in Seq(DOMAIN children) /\ Len(openNodes) \in DOMAIN openNodes
      /\ \A n \in DOMAIN openNodes : openNodes[n] \in DOMAIN children /\ AtTheEnd(m, up, openNodes[n])
                                       /\ up[openNodes[n]] \subseteq up[q]
      /\ \A n, k \in DOMAIN openNodes : n <= k => up[openNodes[n]] \subseteq up[openNodes[k]]
  <2>1. openNodes \in Seq(DOMAIN children)
    BY DEF TreeInv, OpenAtTheEnd
  <2>2. Len(openNodes) \in 1 .. Len(openNodes) /\ DOMAIN openNodes = 1 .. Len(openNodes)
    BY <2>1
  <2>3. \A n, k \in DOMAIN openNodes : n <= k => up[openNodes[n]] \subseteq up[openNodes[k]]
    BY DEF TreeInv, OpenAtTheEnd
  <2>4. \A n \in DOMAIN openNodes : AtTheEnd(m, up, openNodes[n])
    BY DEF TreeInv, OpenAtTheEnd, AtTheEnd
  <2>5. \A n \in DOMAIN openNodes : openNodes[n] \in DOMAIN children
    BY <2>1
  <2>6. \A n \in DOMAIN openNodes : n <= Len(openNodes)
    BY <2>2
  <2>7. \A n \in DOMAIN openNodes : up[openNodes[n]] \subseteq up[q]
    BY <2>2, <2>3, <2>6
  <2> QED
    BY <2>1, <2>2, <2>3, <2>4, <2>5, <2>7
<1>6. \A y \in DOMAIN children : x \notin up[y]
  <2> DEFINE D == DOMAIN children \ {0}
             pr == ParentIn(children)
  <2>1. Hierarchy(D, pr, up)
    BY AboveIsUp DEF TreeInv
  <2>2. 0 \in DOMAIN children
    BY DEF TreeInv, IsForest
  <2>3. D \cup {0} = DOMAIN children
    BY <2>2
  <2> HIDE DEF D, pr, up
  <2>4. \A y \in D \cup {0} : \A a \in up[y] : a \in D \cup {0}
    BY ONLY <2>1, UpIsBelow
  <2> QED
    BY <2>3, <2>4, <1>2
<1> HIDE DEF N, up, vp, m, r, x
<1>7. \A k \in 1 .. N + 1 : (k \in 1 .. N /\ r[k] = m[k] /\ m[k] \in DOMAIN children) \/ (k = N + 1 /\ r[k] = x)
  BY <1>3, <1>4
<1>8. ASSUME NEW y \in DOMAIN children, AtTheEnd(m, up, y), up[y] \subseteq up[q]
      PROVE  AtTheEnd(r, vp, y)
  <2> SUFFICES ASSUME NEW i \in 1 .. N + 1, NEW j \in 1 .. N + 1, i <= j, r[i] \in vp[y] PROVE r[i] \in vp[r[j]]
    BY <1>4 DEF AtTheEnd
  <2>1. r[i] \in up[y]
    BY <1>2
  <2>2. i \in 1 .. N /\ r[i] = m[i]
    BY <2>1, <1>6, <1>7
  <2>3. CASE j = N + 1 /\ r[j] = x
    BY <2>1, <2>3, <1>2, <1>8
  <2>4. CASE j \in 1 .. N /\ r[j] = m[j] /\ m[j] \in DOMAIN children
    <3>1. m[i] \in up[m[j]]
      BY <2>1, <2>2, <2>4, <1>3, <1>8 DEF AtTheEnd
    <3> QED
      BY <3>1, <2>2, <2>4, <1>2
  <2> QED
    BY <2>3, <2>4, <1>7
<1>9. AtTheEnd(r, vp, x)
  <2> SUFFICES ASSUME NEW i \in 1 .. N + 1, NEW j \in 1 .. N + 1, i <= j, r[i] \in vp[x] PROVE r[i] \in vp[r[j]]
    BY <1>4 DEF AtTheEnd
  <2>1. CASE r[i] = x
    <3>1. i = N + 1
      BY <2>1, <1>7, <1>2
    <3>2. j = N + 1
      BY <3>1, <1>3
    <3> QED
      BY <3>1, <3>2, <2>1, <1>2
  <2>2. CASE r[i] # x
    <3>1. r[i] \in vp[q]
      BY <2>2, <1>1, <1>2
    <3>2. AtTheEnd(r, vp, q)
      BY <1>1, <1>8
    <3> QED
      BY <3>1, <3>2, <1>4 DEF AtTheEnd
  <2> QED
    BY <2>1, <2>2
<1>10. \A n \in DOMAIN openNodes :
         /\ AtTheEnd(r, vp, openNodes[n])
         /\ vp[openNodes[n]] \subseteq vp[x]
  BY <1>2, <1>5, <1>8
<1>11. \A n, k \in DOMAIN openNodes : n <= k => vp[openNodes[n]] \subseteq vp[openNodes[k]]
  BY <1>2, <1>5
<1> QED
  BY <1>1, <1>2, <1>9, <1>10, <1>11 DEF m, up, vp, r, x

LEMMA DefineTreeNodeKeeps ==
  ASSUME TreeInv, NEW id \in NewIds, NEW cargo \in SomeCargo, DefineTreeNode(id, cargo)
  PROVE  TreeInv'
<1> DEFINE q == openNodes[Len(openNodes)]
           o == openNodes'
           n == Len(openNodes)
           up == Above(children')
           x == NewItem
<1>0. openNodes # <<>> /\ AddTreeItem(q, id, TRUE) /\ AppendItem(id, cargo) /\ o = Append(openNodes, x)
  BY DEF DefineTreeNode
<1>1. /\ TreeTypes' /\ IsForest(children') /\ IsMapOf(pageMap', LiveItems')
      /\ InTreeOrder(pageMap', up) /\ IdsAgree'
      /\ DOMAIN children' = DOMAIN children \cup {x}
      /\ AtTheEnd(pageMap', up, x)
      /\ \A k \in DOMAIN openNodes :
           AtTheEnd(pageMap', up, openNodes[k]) /\ up[openNodes[k]] \subseteq up[x]
      /\ \A j, k \in DOMAIN openNodes : j <= k => up[openNodes[j]] \subseteq up[openNodes[k]]
  BY <1>0, OpenNodesStay
<1>2. openNodes \in Seq(DOMAIN children)
  BY DEF TreeInv, OpenAtTheEnd
<1>3. /\ n \in Nat /\ DOMAIN openNodes = 1 .. n /\ DOMAIN o = 1 .. n + 1
      /\ \A k \in 1 .. n + 1 : o[k] = IF k <= n THEN openNodes[k] ELSE x
  BY <1>0, <1>2, ElementsOfAppend
<1>4. o \in Seq(DOMAIN children')
  <2>1. openNodes \in Seq(DOMAIN children') /\ x \in DOMAIN children'
    BY <1>1, <1>2
  <2> QED
    BY <2>1, <1>0
<1> HIDE DEF q, o, n, up, x
<1>5. \A k \in 1 .. n + 1 : (k \in 1 .. n /\ o[k] = openNodes[k]) \/ (k = n + 1 /\ o[k] = x)
  BY <1>3
<1>6. \A k \in DOMAIN o : AtTheEnd(pageMap', up, o[k])
  BY <1>1, <1>3, <1>5
<1>7. ASSUME NEW j \in 1 .. n + 1, NEW k \in 1 .. n + 1, j <= k PROVE up[o[j]] \subseteq up[o[k]]
  <2>1. CASE k = n + 1 /\ o[k] = x
    BY <2>1, <1>1, <1>3, <1>5
  <2>2. CASE k \in 1 .. n /\ o[k] = openNodes[k]
    <3>1. j \in 1 .. n /\ o[j] = openNodes[j]
      BY <2>2, <1>7, <1>3
    <3> QED
      BY <3>1, <2>2, <1>1, <1>3, <1>7
  <2> QED
    BY <2>1, <2>2, <1>5
<1>8. OpenAtTheEnd'
  <2>1. /\ o \in Seq(DOMAIN children')
        /\ \A k \in DOMAIN o : \A i, j \in DOMAIN pageMap' : i <= j /\ pageMap'[i] \in up[o[k]] => pageMap'[i] \in up[pageMap'[j]]
        /\ \A j, k \in DOMAIN o : j <= k => up[o[j]] \subseteq up[o[k]]
    BY <1>3, <1>4, <1>6, <1>7 DEF AtTheEnd
  <2> QED
    BY <2>1 DEF OpenAtTheEnd, o, up
<1> QED
  BY <1>1, <1>8 DEF TreeInv, up

LEMMA DefineTreeItemKeeps ==
  ASSUME TreeInv, NEW id \in NewIds, NEW cargo \in SomeCargo, DefineTreeItem(id, cargo)
  PROVE  TreeInv'
<1> DEFINE q == openNodes[Len(openNodes)]
           o == openNodes'
           up == Above(children')
<1>0. openNodes # <<>> /\ AddTreeItem(q, id, FALSE) /\ AppendItem(id, cargo) /\ o = openNodes
  BY DEF DefineTreeItem
<1>1. /\ TreeTypes' /\ IsForest(children') /\ IsMapOf(pageMap', LiveItems')
      /\ InTreeOrder(pageMap', up) /\ IdsAgree'
      /\ DOMAIN children' = DOMAIN children \cup {NewItem}
      /\ \A k \in DOMAIN openNodes :
           AtTheEnd(pageMap', up, openNodes[k])
      /\ \A j, k \in DOMAIN openNodes : j <= k => up[openNodes[j]] \subseteq up[openNodes[k]]
  BY <1>0, OpenNodesStay
<1>2. openNodes \in Seq(DOMAIN children)
  BY DEF TreeInv, OpenAtTheEnd
<1>4. o \in Seq(DOMAIN children')
  BY <1>0, <1>1, <1>2
<1>8. OpenAtTheEnd'
  <2> HIDE DEF up
  <2>1. /\ o \in Seq(DOMAIN children')
        /\ \A k \in DOMAIN o : \A i, j \in DOMAIN pageMap' : i <= j /\ pageMap'[i] \in up[o[k]] => pageMap'[i] \in up[pageMap'[j]]
        /\ \A j, k \in DOMAIN o : j <= k => up[o[j]] \subseteq up[o[k]]
    BY <1>0, <1>1, <1>4 DEF AtTheEnd
  <2> QED
    BY <2>1 DEF OpenAtTheEnd, up
<1> QED
  BY <1>1, <1>8 DEF TreeInv

LEMMA AddRootItemKeeps ==
  ASSUME TreeInv, NEW id \in NewIds, AddRootItem(id)
  PROVE  TreeInv'
<1>0. /\ openNodes = <<>> /\ openNodes' = <<>>
      /\ AddTreeItem(0, id, FALSE) /\ AppendItem(id, NIL)
  BY DEF AddRootItem, Ready
<1>1. /\ TreeTypes' /\ IsForest(children') /\ IsMapOf(pageMap', LiveItems')
      /\ InTreeOrder(pageMap', Above(children')) /\ IdsAgree'
  BY <1>0, RootAtTheEnd, AppendKeeps
<1>2. OpenAtTheEnd'
  BY <1>0 DEF OpenAtTheEnd
<1> QED
  BY <1>1, <1>2 DEF TreeInv

LEMMA EndTreeNodeKeeps == TreeInv /\ EndTreeNode => TreeInv'
<1> SUFFICES ASSUME TreeInv, EndTreeNode PROVE TreeInv'
  OBVIOUS
<1> DEFINE n == Len(openNodes)
           o == openNodes'
           up == Above(children)
<1>1. /\ n > 1 /\ o = SubSeq(openNodes, 1, n - 1)
      /\ UNCHANGED <<itemIds, children, made, lparam, pageMap, picture, headClick, treeError>>
  BY DEF EndTreeNode
<1>2. /\ openNodes \in Seq(DOMAIN children) /\ n \in Nat /\ DOMAIN openNodes = 1 .. n
  BY DEF TreeInv, OpenAtTheEnd
<1>3. o \in Seq(DOMAIN children) /\ DOMAIN o = 1 .. n - 1 /\ \A k \in 1 .. n - 1 : o[k] = openNodes[k]
  BY <1>1, <1>2
<1>4. /\ \A k \in DOMAIN openNodes, i, j \in DOMAIN pageMap :
           i <= j /\ pageMap[i] \in up[openNodes[k]] => pageMap[i] \in up[pageMap[j]]
      /\ \A j, k \in DOMAIN openNodes : j <= k => up[openNodes[j]] \subseteq up[openNodes[k]]
  BY DEF TreeInv, OpenAtTheEnd
<1> HIDE DEF up, n, o
<1>5. \A k \in DOMAIN o : k \in DOMAIN openNodes /\ o[k] = openNodes[k]
  BY <1>1, <1>2, <1>3
<1>6. /\ \A k \in DOMAIN o, i, j \in DOMAIN pageMap :
           i <= j /\ pageMap[i] \in up[o[k]] => pageMap[i] \in up[pageMap[j]]
      /\ \A j, k \in DOMAIN o : j <= k => up[o[j]] \subseteq up[o[k]]
  BY <1>4, <1>5
<1>7. OpenAtTheEnd'
  BY <1>1, <1>3, <1>6 DEF OpenAtTheEnd, o, up
<1>8. TreeTypes' /\ IdsAgree' /\ LiveItems' = LiveItems
  BY <1>1 DEF TreeInv, TreeTypes, IdsAgree, LiveItems
<1> QED
  BY <1>1, <1>7, <1>8 DEF TreeInv

LEMMA EndTreeKeeps == TreeInv /\ EndTree => TreeInv'
<1> SUFFICES ASSUME TreeInv, EndTree PROVE TreeInv'
  OBVIOUS
<1>1. /\ openNodes' = <<>>
      /\ UNCHANGED <<itemIds, children, made, lparam, pageMap, picture, headClick, treeError>>
  BY DEF EndTree
<1>2. OpenAtTheEnd'
  BY <1>1 DEF OpenAtTheEnd
<1>3. TreeTypes' /\ IdsAgree' /\ LiveItems' = LiveItems
  BY <1>1 DEF TreeInv, TreeTypes, IdsAgree, LiveItems
<1> QED
  BY <1>1, <1>2, <1>3 DEF TreeInv

LEMMA EmptiedKeeps ==
  ASSUME TreeInv, openNodes = <<>>, UNCHANGED <<itemIds, openNodes, made>>, treeError' \in BOOLEAN,
         children' = [h \in {0} |-> <<>>], DOMAIN lparam' = {},
         pageMap' = <<>>, picture' = <<>>, headClick' = <<>>
  PROVE  TreeInv'
<1> DEFINE t == children'
<1>1. DOMAIN t = {0} /\ t[0] = <<>> /\ LiveItems' = {}
  BY DEF LiveItems
<1>2. Elements(t[0]) = {}
  BY <1>1 DEF Elements
<1>3. IsForest(children')
  <2> HIDE DEF t
  <2>1. \A h \in DOMAIN t : h = 0
    BY <1>1
  <2>2. t[0] \in Seq(DOMAIN t \ {0}) /\ DOMAIN t[0] = {}
    BY <1>1
  <2>3. /\ 0 \in DOMAIN t /\ \A h \in DOMAIN t : h \in Nat /\ t[h] \in Seq(DOMAIN t \ {0})
        /\ \A h \in DOMAIN t : \A j, k \in DOMAIN t[h] : t[h][j] = t[h][k] => j = k
    BY <1>1, <2>1, <2>2
  <2>4. /\ \A g, h \in DOMAIN t : \A x \in Elements(t[g]) : x \in Elements(t[h]) => g = h
        /\ \A x \in DOMAIN t \ {0} : \E h \in DOMAIN t : x \in Elements(t[h])
        /\ \A h \in DOMAIN t : \A x \in Elements(t[h]) : x \in DOMAIN t /\ x # 0 /\ h < x
    BY <1>2, <2>1
  <2>5. IsForest(t)
    BY <2>3, <2>4 DEF IsForest
  <2> QED
    BY <2>5 DEF t
<1>4. IsMapOf(pageMap', LiveItems') /\ InTreeOrder(pageMap', Above(children'))
  BY <1>1 DEF IsMapOf, InTreeOrder
<1>5. TreeTypes'
  <2>1. itemIds \in BOOLEAN /\ made \in Nat
    BY DEF TreeInv, TreeTypes
  <2>2. \A h \in DOMAIN children' : h <= made'
    BY <1>1, <2>1
  <2>3. picture' \in Seq(Nat) /\ headClick' \in Seq({NIL, 1}) /\ Len(picture') = Len(pageMap') /\ Len(headClick') = Len(pageMap')
    OBVIOUS
  <2> QED
    BY <2>1, <2>2, <2>3, <1>1 DEF TreeTypes
<1>6. OpenAtTheEnd' /\ IdsAgree'
  <2>1. openNodes' = <<>>
    OBVIOUS
  <2>2. OpenAtTheEnd'
    BY <2>1 DEF OpenAtTheEnd
  <2>3. IdsAgree'
    BY DEF IdsAgree
  <2> QED
    BY <2>2, <2>3
<1> QED
  BY <1>3, <1>4, <1>5, <1>6 DEF TreeInv

LEMMA ItemErrorKeeps == TreeInv /\ ItemError => TreeInv'
<1> SUFFICES ASSUME TreeInv, ItemError PROVE TreeInv'
  OBVIOUS
<1>1. /\ openNodes = <<>> /\ UNCHANGED <<itemIds, openNodes, made>> /\ treeError' \in BOOLEAN
      /\ children' = [h \in {0} |-> <<>>] /\ lparam' = <<>>
      /\ pageMap' = <<>> /\ picture' = <<>> /\ headClick' = <<>>
  BY DEF ItemError, Ready
<1>2. DOMAIN lparam' = {}
  BY <1>1
<1> QED
  BY <1>1, <1>2, EmptiedKeeps

LEMMA DeleteAllItemsKeeps == TreeInv /\ DeleteAllItems => TreeInv'
<1> SUFFICES ASSUME TreeInv, DeleteAllItems PROVE TreeInv'
  OBVIOUS
<1>1. /\ openNodes = <<>> /\ UNCHANGED <<itemIds, openNodes, made, treeError>>
      /\ children' = [h \in {0} |-> <<>>] /\ lparam' = Keep(lparam, TreeHandles \ Elements(pageMap))
      /\ pageMap' = <<>> /\ picture' = <<>> /\ headClick' = <<>>
  BY DEF DeleteAllItems, Ready
<1>2. Elements(pageMap) = LiveItems /\ DOMAIN lparam = LiveItems /\ treeError \in BOOLEAN
  BY MapCount DEF TreeInv, TreeTypes
<1>3. DOMAIN lparam' = {}
  BY <1>1, <1>2 DEF Keep
<1> QED
  BY <1>1, <1>2, <1>3, EmptiedKeeps

LEMMA SetItemCargoKeeps ==
  ASSUME TreeInv, NEW value, NEW cargo, SetItemCargo(value, cargo)
  PROVE  TreeInv'
<1> DEFINE p == ItemPosition(value)
<1>1. /\ cargo \in {NIL, 1} /\ headClick' = [headClick EXCEPT ![p] = cargo]
      /\ UNCHANGED <<itemIds, openNodes, children, made, lparam, pageMap, picture, treeError>>
  BY DEF SetItemCargo, SomeCargo
<1>2. headClick \in Seq({NIL, 1}) /\ Len(headClick) = Len(pageMap)
  BY DEF TreeInv, TreeTypes
<1>3. headClick' \in Seq({NIL, 1}) /\ Len(headClick') = Len(pageMap)
  <2> DEFINE n == Len(headClick)
             g == headClick'
  <2>1. n \in Nat /\ headClick \in [1 .. n -> {NIL, 1}]
    BY <1>2
  <2> HIDE DEF p, n, g
  <2>2. g \in [1 .. n -> {NIL, 1}]
    BY <2>1, <1>1 DEF g
  <2>3. g \in Seq({NIL, 1}) /\ Len(g) = n
    BY <2>1, <2>2
  <2> QED
    BY <2>3, <1>2 DEF g, n
<1>4. TreeTypes' /\ IdsAgree' /\ OpenAtTheEnd' /\ LiveItems' = LiveItems
  BY <1>1, <1>3 DEF TreeInv, TreeTypes, IdsAgree, OpenAtTheEnd, LiveItems
<1> QED
  BY <1>1, <1>4 DEF TreeInv

(* TreeViewCompareFunc puts all items in one order. *)
LEMMA ComparedIs ==
  ASSUME TreeInv, NEW order \in SortOrders
  PROVE  \A a, b, c \in LiveItems :
           /\ ~Compared(order, a, a)
           /\ a # b => Compared(order, a, b) \/ Compared(order, b, a)
           /\ Compared(order, a, b) /\ Compared(order, b, c) => Compared(order, a, c)
<1> DEFINE mixed == order.place = "mix"
           first == order.place = "first"
           asc == order.ascending
           N(h) == IsTreeNode(h)
           C(a, b) == Compared(order, a, b)
<1>1. asc \in BOOLEAN
  BY TreeAssumption
<1>2. \A h \in LiveItems : h \in Nat /\ N(h) \in BOOLEAN
  BY DEF TreeInv, IsForest, LiveItems, IsTreeNode
<1>3. \A a, b \in LiveItems :
        C(a, b) <=> IF ~mixed /\ N(a) # N(b)
                    THEN IF first THEN N(a) ELSE N(b)
                    ELSE IF asc THEN a < b ELSE b < a
  BY <1>2 DEF Compared
<1>4. mixed \in BOOLEAN /\ first \in BOOLEAN
  OBVIOUS
<1> HIDE DEF mixed, first, asc, N, C
<1> SUFFICES ASSUME NEW a \in LiveItems, NEW b \in LiveItems, NEW c \in LiveItems
             PROVE  /\ ~C(a, a) /\ (a # b => C(a, b) \/ C(b, a))
                    /\ C(a, b) /\ C(b, c) => C(a, c)
  BY DEF C
<1>5. a \in Nat /\ b \in Nat /\ c \in Nat
  BY <1>2
<1>6. ~C(a, a)
  BY <1>3, <1>5, <1>1
<1>7. a # b => C(a, b) \/ C(b, a)
  <2>1. CASE ~mixed /\ N(a) # N(b)
    BY <2>1, <1>2, <1>3, <1>4
  <2>2. CASE ~(~mixed /\ N(a) # N(b))
    BY <2>2, <1>1, <1>3, <1>5
  <2> QED
    BY <2>1, <2>2
<1>8. ASSUME C(a, b), C(b, c) PROVE C(a, c)
  <2>1. CASE mixed
    BY <2>1, <1>1, <1>3, <1>5, <1>8
  <2>2. CASE ~mixed
    <3>1. CASE N(a) = N(b) /\ N(b) = N(c)
      BY <3>1, <1>1, <1>3, <1>5, <1>8
    <3>2. CASE N(a) # N(b) /\ N(b) = N(c)
      BY <3>2, <2>2, <1>2, <1>3, <1>4, <1>8
    <3>3. CASE N(a) = N(b) /\ N(b) # N(c)
      BY <3>3, <2>2, <1>2, <1>3, <1>4, <1>8
    <3>4. CASE N(a) # N(b) /\ N(b) # N(c)
      BY <3>4, <2>2, <1>2, <1>3, <1>4, <1>8
    <3> QED
      BY <3>1, <3>2, <3>3, <3>4
  <2> QED
    BY <2>1, <2>2
<1> QED
  BY <1>6, <1>7, <1>8

(* Sorted children are the same children. *)
LEMMA SortedIs ==
  ASSUME TreeInv, NEW order \in SortOrders, NEW s \in Seq(LiveItems),
         \A j, k \in DOMAIN s : s[j] = s[k] => j = k
  PROVE  /\ Sorted(s, order) \in Seq(LiveItems) /\ Elements(Sorted(s, order)) = Elements(s)
         /\ \A j, k \in DOMAIN Sorted(s, order) : Sorted(s, order)[j] = Sorted(s, order)[k] => j = k
<1> DEFINE E == Elements(s)
           n == Len(s)
           C(a, b) == Compared(order, a, b)
           B(a) == {b \in E : C(b, a)}
           rank(a) == Cardinality(B(a))
           r == Sorted(s, order)
<1>1. n \in Nat /\ DOMAIN s = 1 .. n /\ \A k \in 1 .. n : s[k] \in LiveItems /\ s[k] \in E
  BY DEF Elements
<1>2. E \subseteq LiveItems /\ \A a \in E : \E k \in 1 .. n : s[k] = a
  BY <1>1 DEF Elements
<1>3. IsFiniteSet(E) /\ Cardinality(E) = n
  <2>1. s \in Seq(E)
    BY SeqOfElements
  <2>2. IsMapOf(s, E)
    BY <2>1, <1>1, <1>2 DEF IsMapOf
  <2> QED
    BY <2>2, MapCount
<1>4. r = [k \in 1 .. n |-> CHOOSE a \in E : rank(a) = k - 1]
  BY <1>1 DEF Sorted
<1>5. \A a, b, c \in E :
        /\ ~C(a, a) /\ (a # b => C(a, b) \/ C(b, a))
        /\ C(a, b) /\ C(b, c) => C(a, c)
  BY <1>2, ComparedIs
<1> HIDE DEF E, n, C, r
<1>6. ASSUME NEW a \in E PROVE IsFiniteSet(B(a)) /\ rank(a) \in Nat /\ rank(a) + 1 \in 1 .. n
  <2>1. B(a) \in SUBSET E /\ a \notin B(a)
    BY <1>5
  <2>2. IsFiniteSet(B(a)) /\ rank(a) \in Nat /\ rank(a) <= n /\ rank(a) # n
    <3> HIDE DEF B
    <3>1. IsFiniteSet(B(a)) /\ rank(a) <= n /\ (n = rank(a) => E = B(a))
      BY <2>1, <1>3, FS_Subset
    <3>2. rank(a) \in Nat
      BY <3>1, FS_CardinalityType
    <3> QED
      BY <2>1, <3>1, <3>2
  <2> QED
    BY <2>2, <1>1
<1>7. ASSUME NEW a \in E, NEW b \in E, C(a, b) PROVE rank(a) < rank(b)
  <2>1. B(a) \in SUBSET B(b) /\ a \in B(b) /\ a \notin B(a)
    BY <1>5, <1>7
  <2>2. IsFiniteSet(B(b)) /\ rank(a) \in Nat /\ rank(b) \in Nat
    BY <1>6
  <2> HIDE DEF B
  <2>3. rank(a) <= rank(b) /\ (rank(b) = rank(a) => B(b) = B(a))
    BY <2>1, <2>2, FS_Subset
  <2> QED
    BY <2>1, <2>2, <2>3
<1>8. ASSUME NEW a \in E, NEW b \in E, rank(a) = rank(b) PROVE a = b
  <2>1. rank(a) \in Nat /\ rank(b) \in Nat
    BY <1>6
  <2>2. ~C(a, b) /\ ~C(b, a)
    <3> HIDE DEF rank
    <3> QED
      BY <2>1, <1>7, <1>8
  <2> QED
    BY <2>2, <1>5
<1> HIDE DEF rank
<1> DEFINE f == [a \in E |-> rank(a) + 1]
           I == 1 .. n
<1>9. f \in Injection(E, I)
  <2>1. f \in [E -> I]
    BY <1>6
  <2>2. \A a, b \in E : f[a] = f[b] => a = b
    <3> SUFFICES ASSUME NEW a \in E, NEW b \in E, f[a] = f[b] PROVE a = b
      OBVIOUS
    <3>1. rank(a) + 1 = rank(b) + 1 /\ rank(a) \in Nat /\ rank(b) \in Nat
      BY <1>6
    <3>2. rank(a) = rank(b)
      BY <3>1
    <3> QED
      BY <3>2, <1>8
  <2> HIDE DEF f, I
  <2> QED
    BY <2>1, <2>2 DEF Injection, IsInjective
<1>10. IsFiniteSet(I) /\ Cardinality(I) = n
  <2> DEFINE a == 1
  <2>1. a \in Int /\ n \in Int /\ (IF a > n THEN 0 ELSE n - a + 1) = n
    BY <1>1
  <2> HIDE DEF a
  <2>2. IsFiniteSet(a .. n) /\ Cardinality(a .. n) = n
    BY <2>1, FS_Interval
  <2> QED
    BY <2>2 DEF a
<1>11. f \in Surjection(E, I)
  <2> HIDE DEF f, I
  <2> QED
    BY <1>3, <1>9, <1>10, FS_Injection
<1>12. ASSUME NEW k \in 1 .. n PROVE r[k] \in E /\ rank(r[k]) = k - 1
  <2>1. PICK a \in E : f[a] = k
    <3> HIDE DEF f
    <3> QED
      BY <1>11 DEF Surjection
  <2>0. rank(a) \in Nat /\ rank(a) + 1 = k
    BY <2>1, <1>6
  <2>2. rank(a) = k - 1
    BY <2>0
  <2>3. r[k] = CHOOSE b \in E : rank(b) = k - 1
    BY <1>4
  <2> QED
    BY <2>2, <2>3
<1>13. \A j, k \in 1 .. n : r[j] = r[k] => j = k
  <2> SUFFICES ASSUME NEW j \in 1 .. n, NEW k \in 1 .. n, r[j] = r[k] PROVE j = k
    OBVIOUS
  <2>1. j - 1 = k - 1
    BY <1>12
  <2> QED
    BY <2>1
<1>14. DOMAIN r = 1 .. n
  BY <1>4
<1>15. r \in Seq(LiveItems)
  <2>1. \A k \in 1 .. n : r[k] \in LiveItems
    BY <1>2, <1>12
  <2>2. r = [k \in 1 .. n |-> r[k]]
    BY <1>4
  <2> QED
    BY <1>1, <2>1, <2>2
<1>16. ASSUME NEW a \in E PROVE \E k \in 1 .. n : r[k] = a
  <2> DEFINE k == rank(a) + 1
  <2>0. rank(a) \in Nat /\ k \in 1 .. n
    BY <1>6
  <2>1. k \in 1 .. n /\ rank(a) = k - 1
    BY <2>0
  <2> HIDE DEF k
  <2>2. r[k] \in E /\ rank(r[k]) = rank(a)
    BY <2>1, <1>12
  <2> QED
    BY <2>1, <2>2, <1>8
<1>17. Elements(r) = E
  <2>1. Elements(r) = {r[k] : k \in 1 .. n}
    BY <1>14 DEF Elements
  <2> QED
    BY <2>1, <1>12, <1>16
<1> QED
  BY <1>13, <1>14, <1>15, <1>17 DEF r, E

LEMMA SortItemsKeeps ==
  ASSUME TreeInv, NEW h, NEW order \in SortOrders, SortItems(h, order)
  PROVE  /\ TreeInv' /\ DOMAIN children' = DOMAIN children
         /\ \A x \in LiveItems : TreeView_GetParent(children', x) = TreeView_GetParent(children, x)
<1> DEFINE sorted == IF order.recurse THEN Branch(children, h) ELSE {h}
           t == children
           u == children'
<1>1. /\ openNodes = <<>>
      /\ u = [x \in DOMAIN t |-> IF x \in sorted THEN Sorted(t[x], order) ELSE t[x]]
      /\ UNCHANGED <<itemIds, openNodes, made, lparam, pageMap, picture, headClick, treeError>>
  BY DEF SortItems, Ready
<1>2. /\ IsForest(t) /\ 0 \in DOMAIN t
      /\ \A x \in DOMAIN t : t[x] \in Seq(LiveItems)
      /\ \A x \in DOMAIN t : \A j, k \in DOMAIN t[x] : t[x][j] = t[x][k] => j = k
      /\ \A x \in DOMAIN t : \A y \in Elements(t[x]) : y \in DOMAIN t
  BY DEF TreeInv, IsForest, LiveItems
<1> HIDE DEF sorted
<1>3. ASSUME NEW x \in DOMAIN t
      PROVE  /\ u[x] \in Seq(LiveItems) /\ Elements(u[x]) = Elements(t[x])
             /\ \A j, k \in DOMAIN u[x] : u[x][j] = u[x][k] => j = k
  <2>1. CASE x \in sorted
    <3>1. u[x] = Sorted(t[x], order)
      BY <2>1, <1>1
    <3>2. t[x] \in Seq(LiveItems) /\ \A j, k \in DOMAIN t[x] : t[x][j] = t[x][k] => j = k
      BY <1>2
    <3> QED
      BY <3>1, <3>2, SortedIs
  <2>2. CASE x \notin sorted
    <3>1. u[x] = t[x]
      BY <2>2, <1>1
    <3> QED
      BY <3>1, <1>2
  <2> QED
    BY <2>1, <2>2
<1>4. DOMAIN u = DOMAIN t
  BY <1>1
<1>5. /\ DOMAIN u \subseteq DOMAIN t /\ 0 \in DOMAIN u
      /\ \A x \in DOMAIN u : u[x] \in Seq(DOMAIN t)
      /\ \A x \in DOMAIN u : \A j, k \in DOMAIN u[x] : u[x][j] = u[x][k] => j = k
      /\ \A x \in DOMAIN u : Elements(u[x]) = Elements(t[x]) \cap DOMAIN u
      /\ \A x \in DOMAIN u \ {0} : TreeView_GetParent(t, x) \in DOMAIN u
  <2>1. ASSUME NEW x \in DOMAIN u PROVE u[x] \in Seq(DOMAIN t)
    <3>1. u[x] \in Seq(LiveItems) /\ \A y \in LiveItems : y \in DOMAIN t
      BY <1>3, <1>4 DEF LiveItems
    <3> QED
      BY <3>1
  <2>2. \A x \in DOMAIN u : Elements(u[x]) = Elements(t[x]) \cap DOMAIN u
    BY <1>2, <1>3, <1>4
  <2>3. \A x \in DOMAIN u \ {0} : TreeView_GetParent(t, x) \in DOMAIN u
    BY <1>2, <1>4, ParentOf
  <2> QED
    BY <1>2, <1>3, <1>4, <2>1, <2>2, <2>3
<1>6. /\ IsForest(u)
      /\ \A x \in DOMAIN u \ {0} : TreeView_GetParent(u, x) = TreeView_GetParent(t, x)
      /\ \A x \in DOMAIN u : Above(u)[x] = Above(t)[x]
  <2> HIDE DEF t, u
  <2> QED
    BY <1>2, <1>5, PartForest
<1>7. LiveItems' = LiveItems
  BY <1>4 DEF LiveItems
<1>8. InTreeOrder(pageMap', Above(u))
  <2>1. \A k \in DOMAIN pageMap : pageMap[k] \in DOMAIN u
    BY <1>4 DEF TreeInv, IsMapOf, LiveItems
  <2>2. InTreeOrder(pageMap, Above(t)) /\ pageMap' = pageMap
    BY <1>1 DEF TreeInv
  <2> HIDE DEF t, u
  <2> QED
    BY <1>6, <2>1, <2>2 DEF InTreeOrder
<1>9. OpenAtTheEnd'
  BY <1>1 DEF OpenAtTheEnd
<1>10. TreeTypes' /\ IdsAgree'
  BY <1>1, <1>4, <1>7 DEF TreeInv, TreeTypes, IdsAgree
<1>11. IsMapOf(pageMap', LiveItems')
  BY <1>1, <1>7 DEF TreeInv
<1>12. TreeInv'
  BY <1>6, <1>8, <1>9, <1>10, <1>11 DEF TreeInv
<1> QED
  BY <1>4, <1>6, <1>12 DEF LiveItems

LEMMA BranchFacts ==
  ASSUME TreeInv, NEW p \in DOMAIN pageMap, NEW B, B = Branch(children, pageMap[p])
  PROVE  /\ IsFiniteSet(B) /\ Cardinality(B) \in Nat /\ Cardinality(B) >= 1
         /\ p + Cardinality(B) <= Len(pageMap) + 1
         /\ \A k \in DOMAIN pageMap : pageMap[k] \in B <=> p <= k /\ k < p + Cardinality(B)
         /\ B = {x \in LiveItems : pageMap[p] \in Above(children)[x]}
<1> DEFINE D == DOMAIN children \ {0}
           pr == ParentIn(children)
           up == Above(children)
           m == pageMap
<1>1. Hierarchy(D, pr, up) /\ IsMapOf(m, D) /\ InTreeOrder(m, up) /\ 0 \in DOMAIN children
  BY AboveIsUp DEF TreeInv, LiveItems, IsForest
<1>2. m[p] \in D
  BY <1>1 DEF IsMapOf
<1>3. B = {x \in D : m[p] \in up[x]}
  <2>1. up[0] = {0}
    BY <1>1 DEF Hierarchy
  <2> QED
    BY <1>2, <2>1 DEF Branch
<1> HIDE DEF D, pr, up, m
<1>4. p \in DOMAIN m
  BY DEF m
<1>5. /\ IsFiniteSet(B) /\ Cardinality(B) \in Nat /\ Cardinality(B) >= 1
      /\ p + Cardinality(B) <= Len(m) + 1
      /\ \A k \in DOMAIN m : m[k] \in B <=> p <= k /\ k < p + Cardinality(B)
  BY <1>1, <1>3, <1>4, BranchInMap
<1> QED
  BY <1>3, <1>5 DEF D, up, m, LiveItems

(* What _DeleteItem does at place p, where d items go. *)
DeletedAt(p, d) ==
  LET B == Branch(children, pageMap[p])
      Rest(a) == Removed(a, p, d)
  IN
  /\ openNodes = <<>> /\ p \in DOMAIN pageMap /\ d = Cardinality(B) /\ d \in Nat
  /\ p + d <= Len(pageMap) + 1
  /\ \A k \in DOMAIN pageMap : pageMap[k] \in B <=> p <= k /\ k < p + d
  /\ children' = [h \in DOMAIN children \ B |-> Without(children[h], pageMap[p])]
  /\ lparam' = Keep(lparam, TreeHandles \ B)
  /\ pageMap' = Rest(pageMap) /\ headClick' = Rest(headClick)
  /\ picture' = IF itemIds THEN Rest(picture) ELSE ASize(picture, Len(pageMap) - d)
  /\ UNCHANGED <<itemIds, openNodes, made, treeError>>

LEMMA DeleteItemIs ==
  ASSUME TreeInv, NEW value, DeleteItem(value)
  PROVE  DeletedAt(ItemPosition(value), Cardinality(Branch(children, pageMap[ItemPosition(value)])))
<1> DEFINE p == ItemPosition(value)
           x == pageMap[p]
           B == Branch(children, x)
           d == Cardinality(B)
           N == Len(pageMap)
           gone == IF x \in LiveItems THEN B ELSE {}
<1>1. /\ Cardinality(LiveItems) = N /\ N \in Nat /\ DOMAIN pageMap = 1 .. N
      /\ \A k \in 1 .. N : pageMap[k] \in LiveItems
  BY MapCount DEF TreeInv, IsMapOf
<1>2. /\ p \in 1 .. N /\ x \in LiveItems /\ openNodes = <<>>
  BY <1>1 DEF DeleteItem, IsItem, TreeView_GetCount, Ready
<1>3. gone = B
  BY <1>2
<1>4. /\ children' = [h \in DOMAIN children \ gone |-> Without(children[h], x)]
      /\ lparam' = Keep(lparam, TreeHandles \ gone)
      /\ pageMap' = ASize(ADel(pageMap, p, Cardinality(gone)), TreeView_GetCount - Cardinality(gone))
      /\ headClick' = ASize(ADel(headClick, p, Cardinality(gone)), TreeView_GetCount - Cardinality(gone))
      /\ picture' = ASize(IF itemIds THEN ADel(picture, p, Cardinality(gone)) ELSE picture,
                          TreeView_GetCount - Cardinality(gone))
      /\ UNCHANGED <<itemIds, openNodes, made, treeError>>
  BY DEF DeleteItem
<1>5. /\ d \in Nat /\ p + d <= N + 1
      /\ \A k \in DOMAIN pageMap : pageMap[k] \in B <=> p <= k /\ k < p + d
  <2>1. p \in DOMAIN pageMap
    BY <1>1, <1>2
  <2> HIDE DEF p
  <2> QED
    BY <2>1, BranchFacts
<1>6. /\ pageMap \in Seq(LiveItems) /\ picture \in Seq(Nat) /\ Len(picture) = N
      /\ headClick \in Seq({NIL, 1}) /\ Len(headClick) = N
  BY DEF TreeInv, TreeTypes, IsMapOf
<1>7. TreeView_GetCount = N
  BY <1>1 DEF TreeView_GetCount
<1> HIDE DEF p, x, B, d, N, gone
<1>8. /\ children' = [h \in DOMAIN children \ B |-> Without(children[h], x)]
      /\ lparam' = Keep(lparam, TreeHandles \ B)
      /\ pageMap' = ASize(ADel(pageMap, p, d), N - d)
      /\ headClick' = ASize(ADel(headClick, p, d), N - d)
      /\ picture' = ASize(IF itemIds THEN ADel(picture, p, d) ELSE picture, N - d)
  BY <1>3, <1>4, <1>7 DEF d
<1>9. pageMap' = Removed(pageMap, p, d)
  <2>1. ASize(ADel(pageMap, p, d), Len(pageMap) - d) = Removed(pageMap, p, d)
    BY <1>2, <1>5, <1>6, DeleteIsRemoved DEF N
  <2> QED
    BY <2>1, <1>8 DEF N
<1>10. headClick' = Removed(headClick, p, d)
  <2>1. ASize(ADel(headClick, p, d), Len(headClick) - d) = Removed(headClick, p, d)
    BY <1>2, <1>5, <1>6, DeleteIsRemoved DEF N
  <2> QED
    BY <2>1, <1>6, <1>8
<1>11. picture' = IF itemIds THEN Removed(picture, p, d) ELSE ASize(picture, N - d)
  <2>1. ASize(ADel(picture, p, d), Len(picture) - d) = Removed(picture, p, d)
    BY <1>2, <1>5, <1>6, DeleteIsRemoved DEF N
  <2> QED
    BY <2>1, <1>6, <1>8
<1> QED
  BY <1>1, <1>2, <1>4, <1>5, <1>8, <1>9, <1>10, <1>11 DEF DeletedAt, p, x, B, d, N

LEMMA DeletedKeeps ==
  ASSUME TreeInv, NEW p, NEW d, DeletedAt(p, d)
  PROVE  /\ TreeInv' /\ LiveItems' = LiveItems \ Branch(children, pageMap[p])
         /\ \A y \in LiveItems' : TreeView_GetParent(children', y) = TreeView_GetParent(children, y)
<1> DEFINE x == pageMap[p]
           B == Branch(children, x)
           N == Len(pageMap)
           t == children
           u == children'
<1>1. /\ openNodes = <<>> /\ p \in DOMAIN pageMap /\ d = Cardinality(B) /\ d \in Nat
      /\ p + d <= Len(pageMap) + 1
      /\ \A k \in DOMAIN pageMap : pageMap[k] \in B <=> p <= k /\ k < p + d
      /\ u = [h \in DOMAIN t \ B |-> Without(t[h], x)]
      /\ lparam' = Keep(lparam, TreeHandles \ B)
      /\ pageMap' = Removed(pageMap, p, d) /\ headClick' = Removed(headClick, p, d)
      /\ picture' = IF itemIds THEN Removed(picture, p, d) ELSE ASize(picture, N - d)
      /\ UNCHANGED <<itemIds, openNodes, made, treeError>>
  BY Zenon DEF DeletedAt
<1>2. /\ N \in Nat /\ DOMAIN pageMap = 1 .. N /\ \A k \in 1 .. N : pageMap[k] \in LiveItems
      /\ pageMap \in Seq(LiveItems) /\ picture \in Seq(Nat) /\ Len(picture) = N
      /\ headClick \in Seq({NIL, 1}) /\ Len(headClick) = N
      /\ DOMAIN lparam = LiveItems /\ LiveItems \subseteq TreeHandles
  BY MapCount DEF TreeInv, TreeTypes, IsMapOf
<1>3. x \in DOMAIN t /\ x # 0 /\ IsForest(t)
  BY <1>1, <1>2 DEF LiveItems, TreeInv
<1>4. /\ IsForest(u) /\ DOMAIN u = DOMAIN t \ B
      /\ \A y \in DOMAIN u \ {0} : TreeView_GetParent(u, y) = TreeView_GetParent(t, y)
      /\ \A y \in DOMAIN u : Above(u)[y] = Above(t)[y]
  <2>1. IsForest(t) /\ x \in DOMAIN t /\ x # 0 /\ u = [h \in DOMAIN t \ Branch(t, x) |-> Without(t[h], x)]
    BY <1>1, <1>3
  <2> HIDE DEF t, u, x, B
  <2>2. /\ IsForest(u)
        /\ \A y \in DOMAIN u \ {0} : TreeView_GetParent(u, y) = TreeView_GetParent(t, y)
        /\ \A y \in DOMAIN u : Above(u)[y] = Above(t)[y]
    BY ONLY <2>1, CutForest
  <2>3. DOMAIN u = DOMAIN t \ B
    BY ONLY <2>1 DEF B, t
  <2> QED
    BY <2>2, <2>3
<1>5. LiveItems' = LiveItems \ B
  BY <1>4 DEF LiveItems
<1>6. \A y \in LiveItems' : TreeView_GetParent(u, y) = TreeView_GetParent(t, y)
  BY <1>4 DEF LiveItems
<1>7. IsMapOf(pageMap', LiveItems') /\ InTreeOrder(pageMap', Above(u))
  <2> DEFINE m == pageMap
             D == LiveItems
             up == Above(t)
             vp == Above(u)
  <2>1. IsMapOf(m, D) /\ InTreeOrder(m, up)
    BY DEF TreeInv
  <2>2. IsBlock(m, B, p, d)
    BY <1>1 DEF IsBlock
  <2>3. SameUp(D \ B, up, vp)
    BY <1>4 DEF LiveItems, SameUp
  <2> HIDE DEF m, D, up, vp, B
  <2>4. IsMapOf(Removed(m, p, d), D \ B) /\ InTreeOrder(Removed(m, p, d), vp)
    BY ONLY <2>1, <2>2, <2>3, RemovedMap
  <2> QED
    BY <2>4, <1>1, <1>5 DEF m, D, vp
<1>8. /\ Removed(pageMap, p, d) \in Seq(LiveItems) /\ Len(Removed(pageMap, p, d)) = N - d
      /\ DOMAIN Removed(pageMap, p, d) = 1 .. N - d
  <2>1. pageMap \in Seq(LiveItems) /\ p \in 1 .. Len(pageMap) /\ d \in Nat /\ p + d <= Len(pageMap) + 1
    BY <1>1, <1>2
  <2>2. /\ Removed(pageMap, p, d) \in Seq(LiveItems) /\ Len(Removed(pageMap, p, d)) = Len(pageMap) - d
        /\ DOMAIN Removed(pageMap, p, d) = 1 .. Len(pageMap) - d
    BY ONLY <2>1, DeleteIsRemoved
  <2> QED
    BY <2>2
<1>9. headClick' \in Seq({NIL, 1}) /\ Len(headClick') = N - d
  <2> DEFINE a == headClick
             S == {NIL, 1}
  <2>1. a \in Seq(S) /\ p \in 1 .. Len(a) /\ d \in Nat /\ p + d <= Len(a) + 1
    BY <1>1, <1>2
  <2> HIDE DEF a, S
  <2>2. Removed(a, p, d) \in Seq(S) /\ Len(Removed(a, p, d)) = Len(a) - d
    BY ONLY <2>1, DeleteIsRemoved
  <2> QED
    BY <2>2, <1>1, <1>2 DEF a, S
<1>10. picture' \in Seq(Nat) /\ Len(picture') = N - d
  <2>1. CASE itemIds
    <3>1. p \in 1 .. Len(picture) /\ p + d <= Len(picture) + 1
      BY <1>1, <1>2
    <3> QED
      BY <2>1, <3>1, <1>1, <1>2, DeleteIsRemoved
  <2>2. CASE ~itemIds
    <3> DEFINE r == ASize(picture, N - d)
    <3>1. N - d \in Nat /\ \A k \in 1 .. N - d : k \in 1 .. N
      BY <1>1, <1>2
    <3>2. r = [k \in 1 .. N - d |-> IF k \in DOMAIN picture THEN picture[k] ELSE NIL]
      BY DEF ASize
    <3>3. \A k \in 1 .. N - d : (IF k \in DOMAIN picture THEN picture[k] ELSE NIL) \in Nat
      BY <1>2 DEF NIL
    <3> HIDE DEF r
    <3>4. r \in Seq(Nat) /\ Len(r) = N - d
      BY <3>1, <3>2, <3>3
    <3> QED
      BY <2>2, <3>4, <1>1 DEF r
  <2> QED
    BY <2>1, <2>2
<1>11. /\ DOMAIN lparam' = LiveItems \ B /\ \A h \in LiveItems \ B : lparam'[h] = lparam[h]
  BY <1>1, <1>2 DEF Keep
<1>12. TreeTypes'
  <2>1. itemIds' \in BOOLEAN /\ treeError' \in BOOLEAN /\ made' \in Nat
    BY <1>1 DEF TreeInv, TreeTypes
  <2>2. \A h \in DOMAIN u : h <= made'
    BY <1>1, <1>4 DEF TreeInv, TreeTypes
  <2>3. LiveItems' \subseteq TreeHandles /\ DOMAIN lparam' = LiveItems'
    BY <1>2, <1>5, <1>11
  <2>4. \A h \in LiveItems' : lparam'[h].id \in Nat /\ lparam'[h].node \in BOOLEAN
    BY <1>5, <1>11 DEF TreeInv, TreeTypes
  <2>5. Len(pageMap') = N - d
    BY <1>1, <1>8
  <2> QED
    BY <2>1, <2>2, <2>3, <2>4, <2>5, <1>9, <1>10 DEF TreeTypes
<1>13. IdsAgree'
  <2> SUFFICES ASSUME itemIds, NEW k \in 1 .. N - d PROVE picture'[k] = lparam'[pageMap'[k]].id
    BY <1>1, <1>8 DEF IdsAgree
  <2> DEFINE j == IF k < p THEN k ELSE k + d
  <2>1. j \in 1 .. N
    BY <1>1, <1>2
  <2>2. picture'[k] = picture[j] /\ pageMap'[k] = pageMap[j]
    BY <1>1, <1>2 DEF Removed
  <2> HIDE DEF j
  <2>3. pageMap'[k] \in LiveItems \ B
    <3> DEFINE r == pageMap'
               D == LiveItems'
    <3>1. r \in Seq(D) /\ DOMAIN r = 1 .. N - d
      BY <1>1, <1>7, <1>8 DEF IsMapOf
    <3>2. D = LiveItems \ B
      BY <1>5
    <3>3. k \in DOMAIN r
      BY <3>1
    <3> HIDE DEF r, D
    <3>4. r \in Seq(D)
      BY <3>1
    <3>5. \A i \in DOMAIN r : r[i] \in D
      BY ONLY <3>4
    <3> QED
      BY <3>2, <3>3, <3>5 DEF r
  <2>4. picture[j] = lparam[pageMap[j]].id
    BY <2>1, <1>2 DEF TreeInv, IdsAgree
  <2> QED
    BY <2>2, <2>3, <2>4, <1>11
<1>14. OpenAtTheEnd'
  BY <1>1 DEF OpenAtTheEnd
<1>15. TreeInv'
  BY <1>4, <1>7, <1>12, <1>13, <1>14 DEF TreeInv
<1> QED
  BY <1>5, <1>6, <1>15

LEMMA DeleteItemKeeps ==
  ASSUME TreeInv, NEW value, DeleteItem(value)
  PROVE  TreeInv'
  BY DeleteItemIs, DeletedKeeps

-----------------------------------------------------------------------------
(* The walk that finds the place of a new item.  Before: in front of it    *)
(* among its siblings.  Behind x: what the walk meets after x and all      *)
(* below x, as far as it is below h.                                       *)
Before(t, a, b) ==
  \E h \in DOMAIN t : \E j, k \in DOMAIN t[h] : j < k /\ t[h][j] = a /\ t[h][k] = b
Inside(t, h) == Branch(t, h) \ {h}
Behind(t, h, x) ==
  {y \in Inside(t, h) : \E a \in Above(t)[x], b \in Above(t)[y] : Before(t, a, b)}
FromHere(t, h, x) == Branch(t, x) \cup Behind(t, h, x)

LEMMA BeforeIs ==
  ASSUME NEW t, IsForest(t), NEW a, NEW b, Before(t, a, b)
  PROVE  /\ a \in DOMAIN t \ {0} /\ b \in DOMAIN t \ {0} /\ a # b
         /\ TreeView_GetParent(t, a) = TreeView_GetParent(t, b)
<1>1. PICK h \in DOMAIN t : \E j, k \in DOMAIN t[h] : j < k /\ t[h][j] = a /\ t[h][k] = b
  BY DEF Before
<1>2. PICK j \in DOMAIN t[h], k \in DOMAIN t[h] : j < k /\ t[h][j] = a /\ t[h][k] = b
  BY <1>1
<1>3. t[h] \in Seq(DOMAIN t \ {0}) /\ \A i, l \in DOMAIN t[h] : t[h][i] = t[h][l] => i = l
  BY DEF IsForest
<1>4. j \in Nat /\ k \in Nat /\ j # k
  BY <1>2, <1>3
<1>5. a # b
  BY <1>2, <1>3, <1>4
<1>6. a \in Elements(t[h]) /\ b \in Elements(t[h])
  BY <1>2 DEF Elements
<1>7. TreeView_GetParent(t, a) = h /\ TreeView_GetParent(t, b) = h
  BY <1>6, ParentIs
<1>8. a \in DOMAIN t \ {0} /\ b \in DOMAIN t \ {0}
  BY <1>6 DEF IsForest
<1> QED
  BY <1>5, <1>7, <1>8

(* The next sibling is the first of those behind. *)
LEMMA NextIs ==
  ASSUME NEW t, IsForest(t), NEW x \in DOMAIN t, x # 0,
         NEW s, s = TreeView_GetNextSibling(t, x)
  PROVE  /\ s # 0 => Before(t, x, s) /\ \A b : Before(t, x, b) <=> (b = s \/ Before(t, s, b))
         /\ s = 0 => \A b : ~Before(t, x, b)
<1> DEFINE h == TreeView_GetParent(t, x)
           all == t[h]
           after == {k \in 2 .. Len(all) : all[k - 1] = x}
           L == Len(all)
<1>1. s = IF after = {} THEN 0 ELSE all[Least(after)]
  BY Zenon DEF TreeView_GetNextSibling
<1>2. h \in DOMAIN t /\ x \in Elements(all)
  BY ParentOf
<1>3. all \in Seq(DOMAIN t \ {0}) /\ \A i, l \in DOMAIN all : all[i] = all[l] => i = l
  BY <1>2 DEF IsForest
<1>4. PICK n \in DOMAIN all : all[n] = x
  BY <1>2 DEF Elements
<1>5. L \in Nat /\ DOMAIN all = 1 .. L /\ n \in 1 .. L /\ \A k \in 1 .. L : all[k] \in DOMAIN t \ {0}
  BY <1>3, <1>4
<1>6. \A a, b : Before(t, a, b) /\ (a \in Elements(all) \/ b \in Elements(all))
        => \E j, k \in 1 .. L : j < k /\ all[j] = a /\ all[k] = b
  <2> SUFFICES ASSUME NEW a, NEW b, Before(t, a, b), a \in Elements(all) \/ b \in Elements(all)
               PROVE  \E j, k \in 1 .. L : j < k /\ all[j] = a /\ all[k] = b
    OBVIOUS
  <2>1. PICK g \in DOMAIN t : \E j, k \in DOMAIN t[g] : j < k /\ t[g][j] = a /\ t[g][k] = b
    BY DEF Before
  <2>2. a \in Elements(t[g]) /\ b \in Elements(t[g])
    BY <2>1 DEF Elements
  <2>3. g = h
    BY <1>2, <2>2, ParentIs
  <2> QED
    BY <2>1, <2>3, <1>5
<1>7. \A j, k \in 1 .. L : j < k => Before(t, all[j], all[k])
  BY <1>2, <1>5 DEF Before
<1>8. after = IF n + 1 <= L THEN {n + 1} ELSE {}
  <2> HIDE DEF all, L
  <2>1. \A k \in 2 .. L : all[k - 1] = x <=> k - 1 = n
    BY <1>3, <1>4, <1>5
  <2> QED
    BY <2>1, <1>5 DEF L
<1>9. CASE n + 1 <= L
  <2>1. Least({n + 1}) = n + 1
    BY <1>5 DEF Least
  <2>2. s = all[n + 1] /\ n + 1 \in 1 .. L
    <3>1. after = {n + 1}
      BY <1>8, <1>9
    <3>2. n + 1 \in 1 .. L
      BY <1>5, <1>9
    <3> HIDE DEF after, all
    <3>3. s = all[Least(after)]
      BY <1>1, <3>1
    <3> QED
      BY <3>1, <3>2, <3>3, <2>1
  <2>3. s # 0 /\ Before(t, x, s)
    BY <1>4, <1>5, <1>7, <2>2
  <2>4. ASSUME NEW b, Before(t, x, b), b # s PROVE Before(t, s, b)
    <3>1. PICK j \in 1 .. L, k \in 1 .. L : j < k /\ all[j] = x /\ all[k] = b
      BY <2>4, <1>2, <1>6
    <3>2. j = n /\ k # n + 1
      BY <3>1, <2>2, <2>4, <1>3, <1>4, <1>5
    <3>3. n + 1 < k
      BY <3>1, <3>2, <1>5
    <3> QED
      BY <3>1, <3>3, <2>2, <1>7
  <2>5. ASSUME NEW b, Before(t, s, b) PROVE Before(t, x, b)
    <3>1. s \in Elements(all)
      BY <2>2, <1>5 DEF Elements
    <3>2. PICK j \in 1 .. L, k \in 1 .. L : j < k /\ all[j] = s /\ all[k] = b
      BY <2>5, <3>1, <1>6
    <3>3. j = n + 1
      BY <3>2, <2>2, <1>3, <1>5
    <3>4. n < k
      BY <3>2, <3>3, <1>5
    <3> QED
      BY <3>2, <3>4, <1>4, <1>5, <1>7
  <2> QED
    BY <2>3, <2>4, <2>5
<1>10. CASE ~(n + 1 <= L)
  <2>1. s = 0
    BY <1>1, <1>8, <1>10
  <2>2. ASSUME NEW b, Before(t, x, b) PROVE FALSE
    <3>1. PICK j \in 1 .. L, k \in 1 .. L : j < k /\ all[j] = x /\ all[k] = b
      BY <2>2, <1>2, <1>6
    <3>2. j = n
      BY <3>1, <1>3, <1>4, <1>5
    <3> QED
      BY <3>1, <3>2, <1>5, <1>10
  <2> QED
    BY <2>1, <2>2
<1> QED
  BY <1>9, <1>10

(* Between an item and one above it is a child of that. *)
LEMMA ChildBetween ==
  ASSUME NEW t, IsForest(t), NEW y \in DOMAIN t, NEW h \in Above(t)[y], h # y
  PROVE  \E b \in DOMAIN t \ {0} : b \in Above(t)[y] /\ TreeView_GetParent(t, b) = h
<1> DEFINE D == DOMAIN t \ {0}
           pr == ParentIn(t)
           up == Above(t)
           C(z) == \E b \in D : b \in up[z] /\ pr[b] = h
           T == {z \in D : h \in up[z] /\ h # z /\ ~C(z)}
<1>1. Hierarchy(D, pr, up) /\ 0 \in DOMAIN t
  BY AboveIsUp DEF IsForest
<1>2. \A z \in D : z \in Nat /\ pr[z] \in D \cup {0} /\ pr[z] < z /\ up[z] = {z} \cup up[pr[z]]
  BY <1>1 DEF Hierarchy
<1>3. up[0] = {0}
  BY <1>1 DEF Hierarchy
<1>4. y \in D
  BY <1>3
<1>5. \A b \in D : pr[b] = TreeView_GetParent(t, b)
  BY DEF ParentIn
<1>6. C(y)
  <2> SUFFICES ASSUME ~C(y) PROVE FALSE
    OBVIOUS
  <2>1. PICK z \in T : \A w \in T : z <= w
    <3>1. T \subseteq Nat /\ y \in T
      BY <1>2, <1>4
    <3> HIDE DEF T
    <3> QED
      BY <3>1, LeastNat
  <2>2. z \in D /\ h \in up[z] /\ h # z /\ ~C(z)
    OBVIOUS
  <2> DEFINE q == pr[z]
  <2>3. q # h
    <3>1. z \in up[z]
      BY <2>2, <1>2
    <3> QED
      BY <3>1, <2>2
  <2>4. h \in up[q] /\ q \in D \cup {0} /\ q < z
    BY <2>2, <1>2
  <2>5. q \in D
    BY <2>3, <2>4, <1>3
  <2>6. ~C(q)
    BY <2>2, <1>2
  <2>7. q \in T
    BY <2>3, <2>4, <2>5, <2>6
  <2>8. \A w \in T : z <= w
    BY <2>1
  <2> HIDE DEF T, q
  <2>9. z <= q
    BY <2>7, <2>8
  <2> QED
    BY <2>2, <2>4, <2>5, <2>9, <1>2
<1> QED
  BY <1>5, <1>6

(* What lies behind x is not below it. *)
LEMMA BehindApart ==
  ASSUME NEW t, IsForest(t), NEW a, NEW b, Before(t, a, b), NEW y \in DOMAIN t
  PROVE  ~(a \in Above(t)[y] /\ b \in Above(t)[y])
<1> DEFINE D == DOMAIN t \ {0}
           pr == ParentIn(t)
           up == Above(t)
<1>1. Hierarchy(D, pr, up)
  BY AboveIsUp
<1>2. a \in D /\ b \in D /\ a # b /\ pr[a] = pr[b]
  BY BeforeIs DEF ParentIn
<1>3. y \in D \cup {0}
  OBVIOUS
<1> HIDE DEF D, pr, up
<1>4. ~(a \in up[y] /\ b \in up[y])
  BY <1>1, <1>2, <1>3, SiblingsApart
<1> QED
  BY <1>4 DEF up

(* The climb goes on with the next sibling of the item or of the nearest   *)
(* above it that has one.                                                  *)
LEMMA ClimbIs ==
  ASSUME NEW t, IsForest(t), NEW x \in DOMAIN t, x # 0
  PROVE  Climb(t, x) = IF TreeView_GetNextSibling(t, x) # 0 THEN TreeView_GetNextSibling(t, x)
                       ELSE Climb(t, TreeView_GetParent(t, x))
<1> DEFINE NS(h) == TreeView_GetNextSibling(t, h)
           P(h) == TreeView_GetParent(t, h)
           up == Above(t)
           F(f) == f = [h \in DOMAIN t |-> LET next == NS(h) IN IF next # 0 \/ h = 0 THEN next ELSE f[P(h)]]
           Good == {h \in DOMAIN t : NS(h) # 0 \/ h = 0}
           Pick(S) == CHOOSE a \in S : \A b \in S : b <= a
           g == [h \in DOMAIN t |-> NS(Pick(up[h] \cap Good))]
<1>1. \A h : Climb(t, h) = (CHOOSE f : F(f))[h]
  BY Zenon DEF Climb
<1>2. F(g)
  <2>0. /\ 0 \in DOMAIN t /\ \A h \in DOMAIN t : h \in Nat
        /\ \A h \in DOMAIN t \ {0} : P(h) \in DOMAIN t /\ P(h) < h
    BY ParentOf DEF IsForest
  <2>1. up[0] = {0} /\ \A h \in DOMAIN t \ {0} : up[h] = {h} \cup up[P(h)]
    BY AboveIsUp DEF Hierarchy, ParentIn
  <2>2. \A h \in DOMAIN t : h \in up[h] /\ \A a \in up[h] : a \in DOMAIN t /\ a <= h
    <3> DEFINE D == DOMAIN t \ {0}
               pr == ParentIn(t)
    <3>1. Hierarchy(D, pr, up)
      BY AboveIsUp
    <3>2. D \cup {0} = DOMAIN t
      BY <2>0
    <3> HIDE DEF D, pr, up
    <3> QED
      BY <3>1, <3>2, UpIsBelow
  <2> HIDE DEF up, NS, P
  <2>3. ASSUME NEW h \in Good PROVE Pick(up[h] \cap Good) = h
    <3> DEFINE S == up[h] \cap Good
    <3>1. h \in S /\ \A b \in S : b <= h /\ b \in Nat
      BY <2>0, <2>2
    <3> HIDE DEF S
    <3>2. \A a \in S : (\A b \in S : b <= a) => a = h
      BY <3>1
    <3>3. \A b \in S : b <= h
      BY <3>1
    <3>4. Pick(S) \in S /\ \A b \in S : b <= Pick(S)
      BY <3>1, <3>3
    <3> QED
      BY <3>2, <3>4 DEF S
  <2>4. ASSUME NEW h \in DOMAIN t, h \notin Good PROVE Pick(up[h] \cap Good) = Pick(up[P(h)] \cap Good)
    <3>1. h # 0
      BY <2>4
    <3>2. up[h] \cap Good = up[P(h)] \cap Good
      BY <2>4, <3>1, <2>1
    <3> QED
      BY <3>2
  <2> HIDE DEF Pick
  <2>5. ASSUME NEW h \in DOMAIN t
        PROVE  g[h] = IF NS(h) # 0 \/ h = 0 THEN NS(h) ELSE g[P(h)]
    <3>1. CASE h \in Good
      BY <3>1, <2>3
    <3>2. CASE h \notin Good
      BY <3>2, <2>0, <2>4
    <3> QED
      BY <3>1, <3>2
  <2>6. g = [h \in DOMAIN t |-> g[h]]
    OBVIOUS
  <2> HIDE DEF g
  <2>7. g = [h \in DOMAIN t |-> IF NS(h) # 0 \/ h = 0 THEN NS(h) ELSE g[P(h)]]
    BY <2>5, <2>6
  <2> QED
    BY <2>7
<1>3. F(CHOOSE f : F(f))
  <2> HIDE DEF F, g
  <2> QED
    BY <1>2, Zenon
<1> DEFINE c == CHOOSE f : F(f)
<1>4. c = [h \in DOMAIN t |-> IF NS(h) # 0 \/ h = 0 THEN NS(h) ELSE c[P(h)]]
  BY <1>3
<1> HIDE DEF c, NS, P
<1>5. c[x] = IF NS(x) # 0 THEN NS(x) ELSE c[P(x)]
  BY <1>4
<1> QED
  BY <1>1, <1>5, Zenon DEF c, NS, P

(* What there is to say of the items in terms of those above them. *)
LEMMA InsideIs ==
  ASSUME NEW t, IsForest(t), NEW h \in DOMAIN t
  PROVE  /\ \A x : x \in Inside(t, h) <=> x \in DOMAIN t /\ h \in Above(t)[x] /\ x # h
         /\ 0 \notin Inside(t, h)
         /\ \A x \in Inside(t, h) : /\ x \in DOMAIN t \ {0} /\ TreeView_GetParent(t, x) \in DOMAIN t
                                    /\ h \in Above(t)[TreeView_GetParent(t, x)]
                                    /\ Above(t)[x] = {x} \cup Above(t)[TreeView_GetParent(t, x)]
                                    /\ TreeView_GetParent(t, x) < x
         /\ \A x \in DOMAIN t \ {0} : h \in Above(t)[TreeView_GetParent(t, x)] => x \in Inside(t, h)
<1> DEFINE D == DOMAIN t \ {0}
           pr == ParentIn(t)
           up == Above(t)
           P(x) == TreeView_GetParent(t, x)
<1>1. Hierarchy(D, pr, up) /\ 0 \in DOMAIN t
  BY AboveIsUp DEF IsForest
<1>2. /\ \A x \in D : pr[x] = P(x) /\ P(x) \in DOMAIN t /\ P(x) < x /\ x \in Nat
      /\ \A x \in DOMAIN t : x \in Nat
  BY ParentOf DEF ParentIn, IsForest
<1>3. up[0] = {0} /\ \A x \in D : up[x] = {x} \cup up[P(x)]
  BY <1>1, <1>2 DEF Hierarchy
<1>4. \A x \in DOMAIN t : x \in up[x] /\ \A a \in up[x] : a \in DOMAIN t /\ a <= x
  <2>1. D \cup {0} = DOMAIN t
    BY <1>1
  <2> HIDE DEF D, pr, up
  <2> QED
    BY <1>1, <2>1, UpIsBelow
<1>5. \A x : x \in Inside(t, h) <=> x \in DOMAIN t /\ h \in up[x] /\ x # h
  BY DEF Inside, Branch
<1> HIDE DEF up, P
<1>6. 0 \notin Inside(t, h)
  BY <1>3, <1>5
<1>7. ASSUME NEW x \in Inside(t, h) PROVE x \in D /\ P(x) \in DOMAIN t /\ h \in up[P(x)] /\ up[x] = {x} \cup up[P(x)] /\ P(x) < x
  <2>1. x \in D
    BY <1>5, <1>6
  <2> QED
    BY <2>1, <1>2, <1>3, <1>5
<1>8. ASSUME NEW x \in D, h \in up[P(x)] PROVE x \in Inside(t, h)
  <2>1. h <= P(x) /\ P(x) < x /\ P(x) \in Nat /\ h \in Nat /\ x \in Nat
    BY <1>8, <1>2, <1>4
  <2> QED
    BY <2>1, <1>3, <1>5, <1>8
<1> QED
  BY <1>5, <1>6, <1>7, <1>8 DEF up, P

LEMMA ClimbNext ==
  ASSUME NEW t, IsForest(t), NEW h \in DOMAIN t, NEW x \in Inside(t, h),
         NEW s, s = TreeView_GetNextSibling(t, x), s # 0
  PROVE  s \in Inside(t, h) /\ Behind(t, h, x) = FromHere(t, h, s)
<1> DEFINE up == Above(t)
           P(y) == TreeView_GetParent(t, y)
           I == Inside(t, h)
<1>1. /\ \A y : y \in I <=> y \in DOMAIN t /\ h \in up[y] /\ y # h
      /\ x \in DOMAIN t \ {0} /\ up[x] = {x} \cup up[P(x)] /\ h \in up[P(x)]
  BY InsideIs
<1>2. Before(t, x, s) /\ \A b : Before(t, x, b) <=> (b = s \/ Before(t, s, b))
  BY <1>1, NextIs
<1>3. s \in DOMAIN t \ {0} /\ P(s) = P(x) /\ s # x
  BY <1>2, BeforeIs
<1>4. s \in I
  BY <1>1, <1>3, InsideIs
<1>5. up[s] = {s} \cup up[P(x)]
  BY <1>3, <1>4, InsideIs
<1>6. \A y : y \in Behind(t, h, x) <=> y \in I /\ \E a \in up[x], b \in up[y] : Before(t, a, b)
  BY DEF Behind
<1>7. \A y : y \in FromHere(t, h, s) <=>
        \/ y \in DOMAIN t /\ s \in up[y]
        \/ y \in I /\ \E a \in up[s], b \in up[y] : Before(t, a, b)
  BY DEF Behind, FromHere, Branch
<1>8. \A y \in DOMAIN t : s \in up[y] => y \in I
  <2> SUFFICES ASSUME NEW y \in DOMAIN t, s \in up[y] PROVE y \in I
    OBVIOUS
  <2> DEFINE D == DOMAIN t \ {0}
             pr == ParentIn(t)
  <2>0. 0 \in DOMAIN t
    BY DEF IsForest
  <2>1. Hierarchy(D, pr, up) /\ D \cup {0} = DOMAIN t
    BY <2>0, AboveIsUp
  <2>2. h \in up[s] /\ s # h
    BY <1>1, <1>4
  <2> HIDE DEF D, pr, up, I
  <2>3. h \in up[y]
    BY <2>1, <2>2, UpUp
  <2>4. s <= y /\ h <= s
    BY <2>1, <2>2, <1>3, UpIsBelow
  <2>5. h \in Nat /\ s \in Nat /\ y \in Nat
    BY <1>3 DEF IsForest
  <2>6. y # h
    BY <2>2, <2>4, <2>5
  <2> QED
    BY <1>1, <2>3, <2>6
<1> HIDE DEF up, P, I
<1>9. ASSUME NEW y \in Behind(t, h, x) PROVE y \in FromHere(t, h, s)
  <2>1. y \in I
    BY <1>6
  <2>2. PICK a \in up[x], b \in up[y] : Before(t, a, b)
    BY <1>6
  <2>3. CASE a = x
    BY <2>1, <2>2, <2>3, <1>1, <1>2, <1>5, <1>7
  <2>4. CASE a # x
    <3>1. a \in up[s]
      BY <2>4, <1>1, <1>5
    <3> QED
      BY <3>1, <2>1, <2>2, <1>7
  <2> QED
    BY <2>3, <2>4
<1>10. ASSUME NEW y \in FromHere(t, h, s) PROVE y \in Behind(t, h, x)
  <2>1. CASE y \in DOMAIN t /\ s \in up[y]
    BY <2>1, <1>1, <1>2, <1>6, <1>8
  <2>2. CASE y \in I /\ \E a \in up[s], b \in up[y] : Before(t, a, b)
    <3>1. PICK a \in up[s], b \in up[y] : Before(t, a, b)
      BY <2>2
    <3>2. CASE a = s
      BY <3>1, <3>2, <2>2, <1>1, <1>2, <1>6
    <3>3. CASE a # s
      <4>1. a \in up[x]
        BY <3>3, <1>1, <1>5
      <4> QED
        BY <4>1, <3>1, <2>2, <1>6
    <3> QED
      BY <3>2, <3>3
  <2> QED
    BY <2>1, <2>2, <1>7
<1> QED
  BY <1>4, <1>9, <1>10 DEF I

(* new is the last child of h and has none of its own. *)
IsLast(t, h, new) ==
  /\ new \in DOMAIN t \ {0} /\ TreeView_GetParent(t, new) = h /\ t[new] = <<>>
  /\ \A b \in DOMAIN t : ~Before(t, new, b)
  /\ \A x \in DOMAIN t \ {0} : TreeView_GetParent(t, x) = h /\ x # new => Before(t, x, new)

LEMMA ClimbUp ==
  ASSUME NEW t, IsForest(t), NEW h \in DOMAIN t, NEW new, IsLast(t, h, new),
         NEW x \in Inside(t, h), x # new, TreeView_GetNextSibling(t, x) = 0,
         NEW q, q = TreeView_GetParent(t, x)
  PROVE  q \in Inside(t, h) /\ q # new /\ q < x /\ Behind(t, h, x) = Behind(t, h, q)
<1> DEFINE up == Above(t)
           I == Inside(t, h)
<1>1. /\ \A y : y \in I <=> y \in DOMAIN t /\ h \in up[y] /\ y # h
      /\ x \in DOMAIN t \ {0} /\ up[x] = {x} \cup up[q] /\ h \in up[q] /\ q < x /\ q \in DOMAIN t
  BY InsideIs
<1>2. \A b : ~Before(t, x, b)
  BY <1>1, NextIs
<1>3. q # h
  BY <1>1, <1>2 DEF IsLast
<1>4. q \in I
  BY <1>1, <1>3
<1>5. q # new
  <2>1. x \in Elements(t[q])
    BY <1>1, ParentOf
  <2>2. t[q] # <<>>
    BY <2>1 DEF Elements
  <2> QED
    BY <2>2 DEF IsLast
<1> HIDE DEF up, I
<1>6. \A y : (\E a \in up[x], b \in up[y] : Before(t, a, b)) <=> \E a \in up[q], b \in up[y] : Before(t, a, b)
  BY <1>1, <1>2
<1>7. Behind(t, h, x) = Behind(t, h, q)
  BY <1>6 DEF Behind, up
<1> QED
  BY <1>1, <1>4, <1>5, <1>7 DEF I

LEMMA ClimbGoesOn ==
  ASSUME NEW t, IsForest(t), NEW h \in DOMAIN t, NEW new, IsLast(t, h, new),
         NEW x \in Inside(t, h), x # new
  PROVE  Climb(t, x) \in Inside(t, h) /\ Behind(t, h, x) = FromHere(t, h, Climb(t, x))
<1> DEFINE I == Inside(t, h)
           Ok(y) == Climb(t, y) \in I /\ Behind(t, h, y) = FromHere(t, h, Climb(t, y))
           T == {y \in I : y # new /\ ~Ok(y)}
<1> SUFFICES ASSUME T # {} PROVE FALSE
  OBVIOUS
<1>1. \A y \in I : y \in DOMAIN t \ {0} /\ y \in Nat
  BY InsideIs DEF IsForest
<1>2. PICK y \in T : \A z \in T : y <= z
  <2>1. T \subseteq Nat
    BY <1>1
  <2> HIDE DEF T
  <2> QED
    BY <2>1, LeastNat
<1>3. y \in I /\ y # new /\ ~Ok(y)
  OBVIOUS
<1> DEFINE s == TreeView_GetNextSibling(t, y)
           q == TreeView_GetParent(t, y)
<1>4. Climb(t, y) = IF s # 0 THEN s ELSE Climb(t, q)
  BY <1>1, <1>3, ClimbIs
<1>5. CASE s # 0
  <2>1. s \in I /\ Behind(t, h, y) = FromHere(t, h, s)
    BY <1>3, <1>5, ClimbNext
  <2> QED
    BY <2>1, <1>3, <1>4, <1>5
<1>6. CASE s = 0
  <2>1. q \in I /\ q # new /\ q < y /\ Behind(t, h, y) = Behind(t, h, q)
    BY <1>3, <1>6, ClimbUp
  <2>2. Climb(t, y) = Climb(t, q)
    BY <1>4, <1>6
  <2>3. ~Ok(q)
    BY <2>1, <2>2, <1>3
  <2>4. q \in T
    BY <2>1, <2>3
  <2>5. \A z \in T : y <= z
    BY <1>2
  <2> HIDE DEF T, q
  <2>6. y <= q
    BY <2>4, <2>5
  <2> QED
    BY <2>1, <2>6, <1>1, <1>3
<1> QED
  BY <1>5, <1>6

(* From the last one there is only itself; from the first, all. *)
LEMMA FromTheLast ==
  ASSUME NEW t, IsForest(t), NEW h \in DOMAIN t, NEW new, IsLast(t, h, new), h # 0
  PROVE  new \in Inside(t, h) /\ FromHere(t, h, new) = {new}
<1> DEFINE up == Above(t)
           D == DOMAIN t \ {0}
           pr == ParentIn(t)
<1>0. Hierarchy(D, pr, up) /\ 0 \in DOMAIN t
  BY AboveIsUp DEF IsForest
<1>1. \A y \in DOMAIN t : y \in up[y] /\ \A a \in up[y] : a \in DOMAIN t
  <2>1. D \cup {0} = DOMAIN t
    BY <1>0
  <2> HIDE DEF D, pr, up
  <2> QED
    BY <1>0, <2>1, UpIsBelow
<1>2. new \in D /\ TreeView_GetParent(t, new) = h
  BY DEF IsLast
<1>3. new \in Inside(t, h)
  BY <1>1, <1>2, InsideIs
<1>4. up[new] = {new} \cup up[h]
  BY <1>2, <1>3, InsideIs
<1>5. ASSUME NEW y \in Branch(t, new) PROVE y = new
  <2> SUFFICES ASSUME y # new PROVE FALSE
    OBVIOUS
  <2>1. y \in DOMAIN t /\ new \in up[y]
    BY DEF Branch
  <2>2. PICK b \in DOMAIN t \ {0} : TreeView_GetParent(t, b) = new
    BY <2>1, ChildBetween
  <2>3. b \in Elements(t[new])
    BY <2>2, ParentOf
  <2> QED
    BY <2>3 DEF IsLast, Elements
<1>6. ASSUME NEW y \in Behind(t, h, new) PROVE FALSE
  <2>1. y \in Inside(t, h)
    BY DEF Behind
  <2>2. PICK a \in up[new], b \in up[y] : Before(t, a, b)
    BY DEF Behind
  <2>3. a # new
    BY <2>2, BeforeIs DEF IsLast
  <2>4. a \in up[h] /\ h \in up[y] /\ y \in DOMAIN t
    BY <2>1, <2>2, <2>3, <1>4, InsideIs
  <2>5. a \in up[y]
    <3>1. D \cup {0} = DOMAIN t
      BY <1>0
    <3> HIDE DEF D, pr, up
    <3> QED
      BY <1>0, <3>1, <2>4, UpUp
  <2> QED
    BY <2>2, <2>4, <2>5, BehindApart
<1>7. new \in Branch(t, new)
  BY <1>1, <1>2 DEF Branch
<1> QED
  BY <1>3, <1>5, <1>6, <1>7 DEF FromHere

LEMMA FromTheFirst ==
  ASSUME NEW t, IsForest(t), NEW h \in DOMAIN t, t[h] # <<>>,
         NEW c, c = TreeView_GetChild(t, h)
  PROVE  /\ c \in Inside(t, h) /\ TreeView_GetParent(t, c) = h
         /\ FromHere(t, h, c) = Inside(t, h)
<1> DEFINE up == Above(t)
           D == DOMAIN t \ {0}
           pr == ParentIn(t)
           all == t[h]
<1>0. Hierarchy(D, pr, up) /\ 0 \in DOMAIN t
  BY AboveIsUp DEF IsForest
<1>1. \A y \in DOMAIN t : y \in up[y] /\ \A a \in up[y] : a \in DOMAIN t
  <2>1. D \cup {0} = DOMAIN t
    BY <1>0
  <2> HIDE DEF D, pr, up
  <2> QED
    BY <1>0, <2>1, UpIsBelow
<1>2. all \in Seq(DOMAIN t \ {0}) /\ all # <<>>
  BY DEF IsForest
<1>3. c = all[1]
  BY DEF TreeView_GetChild
<1>4. Len(all) \in Nat /\ DOMAIN all = 1 .. Len(all) /\ 1 \in 1 .. Len(all)
  <2> HIDE DEF all
  <2> QED
    BY <1>2
<1>5. c \in D /\ c \in Elements(all) /\ TreeView_GetParent(t, c) = h
  <2>1. c \in Elements(all)
    BY <1>3, <1>4 DEF Elements
  <2> QED
    BY <2>1, ParentIs DEF IsForest
<1>6. c \in Inside(t, h)
  BY <1>1, <1>5, InsideIs
<1>7. ASSUME NEW y \in Inside(t, h) PROVE y \in FromHere(t, h, c)
  <2>1. y \in DOMAIN t /\ h \in up[y] /\ h # y
    BY InsideIs
  <2>2. PICK b \in D : b \in up[y] /\ TreeView_GetParent(t, b) = h
    BY <2>1, ChildBetween
  <2>3. CASE b = c
    BY <2>1, <2>2, <2>3 DEF FromHere, Branch
  <2>4. CASE b # c
    <3>1. b \in Elements(all)
      BY <2>2, ParentOf
    <3>2. PICK k \in 1 .. Len(all) : all[k] = b
      BY <3>1, <1>4 DEF Elements
    <3>3. 1 < k
      BY <3>2, <2>4, <1>3, <1>4
    <3>4. Before(t, c, b)
      BY <3>2, <3>3, <1>3, <1>4 DEF Before
    <3>5. c \in up[c]
      BY <1>1, <1>5
    <3>6. y \in Behind(t, h, c)
      BY <2>2, <3>4, <3>5 DEF Behind
    <3> QED
      BY <3>6 DEF FromHere
  <2> QED
    BY <2>3, <2>4
<1>8. ASSUME NEW y \in FromHere(t, h, c) PROVE y \in Inside(t, h)
  <2>1. CASE y \in Branch(t, c)
    <3>1. y \in DOMAIN t /\ c \in up[y]
      BY <2>1 DEF Branch
    <3>2. h \in up[c] /\ c # h
      BY <1>6, InsideIs
    <3>3. h \in up[y] /\ c <= y /\ h <= c
      <4>1. D \cup {0} = DOMAIN t
        BY <1>0
      <4> HIDE DEF D, pr, up
      <4> QED
        BY <1>0, <4>1, <3>1, <3>2, UpUp, UpIsBelow
    <3>4. c \in Nat /\ y \in Nat /\ h \in Nat
      BY <3>1, <1>5 DEF IsForest
    <3>5. y # h
      BY <3>2, <3>3, <3>4
    <3> QED
      BY <3>1, <3>3, <3>5, InsideIs
  <2>2. CASE y \in Behind(t, h, c)
    BY <2>2 DEF Behind
  <2> QED
    BY <2>1, <2>2 DEF FromHere
<1> QED
  BY <1>5, <1>6, <1>7, <1>8

LEMMA AboveFacts ==
  ASSUME NEW t, IsForest(t)
  PROVE  /\ \A y \in DOMAIN t : y \in Above(t)[y]
         /\ \A y \in DOMAIN t : \A a \in Above(t)[y] : a \in DOMAIN t /\ a <= y
         /\ \A y \in DOMAIN t : \A b \in Above(t)[y] : \A a \in Above(t)[b] : a \in Above(t)[y]
<1> DEFINE up == Above(t)
           D == DOMAIN t \ {0}
           pr == ParentIn(t)
<1>0. 0 \in DOMAIN t
  BY DEF IsForest
<1>1. Hierarchy(D, pr, up) /\ D \cup {0} = DOMAIN t
  BY <1>0, AboveIsUp
<1> HIDE DEF D, pr, up
<1>2. \A y \in DOMAIN t : y \in up[y] /\ \A a \in up[y] : a \in DOMAIN t /\ a <= y
  BY <1>1, UpIsBelow
<1>3. \A y \in DOMAIN t : \A b \in up[y] : \A a \in up[b] : a \in up[y]
  BY <1>1, UpUp
<1> QED
  BY <1>2, <1>3 DEF up

LEMMA InsideBelow ==
  ASSUME NEW t, IsForest(t), NEW h \in DOMAIN t, NEW x \in Inside(t, h),
         NEW y \in DOMAIN t, x \in Above(t)[y]
  PROVE  y \in Inside(t, h)
<1>1. h \in Above(t)[x] /\ x # h /\ x \in DOMAIN t
  BY InsideIs
<1>2. h \in Above(t)[y] /\ x <= y /\ h <= x
  BY <1>1, AboveFacts
<1>3. h \in Nat /\ x \in Nat /\ y \in Nat
  BY <1>1 DEF IsForest
<1>4. y # h
  BY <1>1, <1>2, <1>3
<1> QED
  BY <1>2, <1>4, InsideIs

LEMMA Childless ==
  ASSUME NEW t, IsForest(t), NEW x \in DOMAIN t, t[x] = <<>>
  PROVE  Branch(t, x) = {x}
<1>1. x \in Branch(t, x)
  BY AboveFacts DEF Branch
<1>2. ASSUME NEW y \in Branch(t, x), y # x PROVE FALSE
  <2>1. y \in DOMAIN t /\ x \in Above(t)[y]
    BY DEF Branch
  <2>2. PICK b \in DOMAIN t \ {0} : TreeView_GetParent(t, b) = x
    BY <2>1, <1>2, ChildBetween
  <2>3. b \in Elements(t[x])
    BY <2>2, ParentOf
  <2> QED
    BY <2>3 DEF Elements
<1> QED
  BY <1>1, <1>2

LEMMA NotBehindItself ==
  ASSUME NEW t, IsForest(t), NEW h \in DOMAIN t, NEW x \in DOMAIN t
  PROVE  x \notin Behind(t, h, x)
  BY BehindApart DEF Behind

(* An item counts with its first child. *)
LEMMA FromItsChild ==
  ASSUME NEW t, IsForest(t), NEW h \in DOMAIN t, NEW x \in Inside(t, h), t[x] # <<>>,
         NEW c, c = TreeView_GetChild(t, x)
  PROVE  /\ c \in Inside(t, h) /\ TreeView_GetParent(t, c) = x
         /\ FromHere(t, h, x) = {x} \cup FromHere(t, h, c) /\ x \notin FromHere(t, h, c)
<1> DEFINE up == Above(t)
           I == Inside(t, h)
<1>1. x \in DOMAIN t /\ x \in Nat
  BY InsideIs DEF IsForest
<1>2. /\ c \in Inside(t, x) /\ TreeView_GetParent(t, c) = x
      /\ FromHere(t, x, c) = Inside(t, x)
  BY <1>1, FromTheFirst
<1>3. c \in DOMAIN t \ {0} /\ x \in up[c] /\ up[c] = {c} \cup up[x] /\ x < c /\ c \in Nat
  <2>1. c \in DOMAIN t \ {0} /\ up[c] = {c} \cup up[x] /\ x < c /\ x \in up[x]
    BY <1>1, <1>2, InsideIs
  <2> HIDE DEF up
  <2>2. c \in Nat
    BY <2>1 DEF IsForest
  <2> QED
    BY <2>1, <2>2
<1>4. c \in I
  BY <1>3, InsideBelow
<1>5. \A k : \A z, y : y \in Behind(t, k, z) <=> y \in Inside(t, k) /\ \E a \in up[z], b \in up[y] : Before(t, a, b)
  BY DEF Behind
<1>6. /\ \A y : y \in FromHere(t, h, x) <=> (y \in DOMAIN t /\ x \in up[y]) \/ y \in Behind(t, h, x)
      /\ \A y : y \in FromHere(t, h, c) <=> (y \in DOMAIN t /\ c \in up[y]) \/ y \in Behind(t, h, c)
      /\ \A y : y \in FromHere(t, x, c) <=> (y \in DOMAIN t /\ c \in up[y]) \/ y \in Behind(t, x, c)
  BY DEF FromHere, Branch
<1>7. /\ \A y \in DOMAIN t : y \in up[y]
      /\ \A y \in DOMAIN t : \A a \in up[y] : a \in DOMAIN t /\ a <= y
      /\ \A y \in DOMAIN t : \A b \in up[y] : \A a \in up[b] : a \in up[y]
  BY AboveFacts
<1>8. \A y \in DOMAIN t : x \in up[y] => y \in I
  BY InsideBelow
<1>9. \A y : y \in Inside(t, x) <=> y \in DOMAIN t /\ x \in up[y] /\ y # x
  BY <1>1, InsideIs
<1>10. \A y \in I : y \in DOMAIN t
  BY InsideIs
<1> HIDE DEF up, I
<1>11. ASSUME NEW y \in FromHere(t, h, x), y # x PROVE y \in FromHere(t, h, c)
  <2>1. CASE y \in DOMAIN t /\ x \in up[y]
    <3>1. y \in FromHere(t, x, c)
      BY <2>1, <1>2, <1>9, <1>11
    <3>2. CASE y \in Behind(t, x, c)
      <4>1. y \in I
        BY <2>1, <1>8
      <4>2. y \in Behind(t, h, c)
        BY <4>1, <3>2, <1>5 DEF I
      <4> QED
        BY <4>2, <1>6
    <3> QED
      BY <3>1, <3>2, <1>6
  <2>2. CASE y \in Behind(t, h, x)
    <3>1. y \in Behind(t, h, c)
      BY <2>2, <1>3, <1>5
    <3> QED
      BY <3>1, <1>6
  <2> QED
    BY <2>1, <2>2, <1>6
<1>12. ASSUME NEW y \in FromHere(t, h, c) PROVE y \in FromHere(t, h, x)
  <2>1. CASE y \in DOMAIN t /\ c \in up[y]
    BY <2>1, <1>3, <1>6, <1>7
  <2>2. CASE y \in Behind(t, h, c)
    <3>1. PICK a \in up[c], b \in up[y] : Before(t, a, b)
      BY <2>2, <1>5
    <3>2. y \in I /\ y \in DOMAIN t
      BY <2>2, <1>5, <1>10 DEF I
    <3>3. CASE a = c
      <4>1. b \in DOMAIN t \ {0} /\ TreeView_GetParent(t, b) = x
        BY <3>1, <3>3, <1>2, BeforeIs
      <4>2. x \in up[b]
        <5>1. ParentIn(t)[b] = x /\ b \in DOMAIN t \ {0}
          BY <4>1 DEF ParentIn
        <5>2. up[b] = {b} \cup up[x]
          BY <5>1, AboveIsUp DEF Hierarchy, up
        <5> QED
          BY <5>2, <1>1, <1>7
      <4>3. x \in up[y]
        BY <4>2, <3>1, <3>2, <1>7
      <4> QED
        BY <4>3, <3>2, <1>6
    <3>4. CASE a # c
      <4>1. a \in up[x]
        BY <3>1, <3>4, <1>3
      <4>2. y \in Behind(t, h, x)
        BY <4>1, <3>1, <3>2, <1>5 DEF I
      <4> QED
        BY <4>2, <1>6
    <3> QED
      BY <3>3, <3>4
  <2> QED
    BY <2>1, <2>2, <1>6
<1>13. x \notin FromHere(t, h, c)
  <2>1. c \notin up[x]
    BY <1>1, <1>3, <1>7
  <2>2. x \notin Behind(t, h, c)
    <3> SUFFICES ASSUME x \in Behind(t, h, c) PROVE FALSE
      OBVIOUS
    <3>1. PICK a \in up[c], b \in up[x] : Before(t, a, b)
      BY <1>5
    <3>2. b \in up[c]
      BY <3>1, <1>3
    <3> QED
      BY <3>1, <3>2, <1>3, BehindApart DEF up
  <2> QED
    BY <2>1, <2>2, <1>6
<1>14. x \in FromHere(t, h, x)
  BY <1>1, <1>6, <1>7
<1> QED
  BY <1>2, <1>4, <1>11, <1>12, <1>13, <1>14 DEF I

(* In the tree with the new item no first child has children. *)
SeesAll(t, h) ==
  \A i \in Inside(t, h) :
    LET c == TreeView_GetChild(t, i) IN c # 0 => t[c] = <<>>

LEMMA ChildIs ==
  ASSUME NEW t, IsForest(t), NEW x \in DOMAIN t
  PROVE  TreeView_GetChild(t, x) = 0 <=> t[x] = <<>>
<1>1. t[x] \in Seq(DOMAIN t \ {0})
  BY DEF IsForest
<1>2. CASE t[x] = <<>>
  BY <1>2 DEF TreeView_GetChild
<1>3. CASE t[x] # <<>>
  <2> DEFINE s == t[x]
  <2>1. s \in Seq(DOMAIN t \ {0}) /\ s # <<>>
    BY <1>1, <1>3
  <2> HIDE DEF s
  <2>2. s[1] \in DOMAIN t \ {0}
    BY <2>1
  <2>3. s[1] # 0
    BY <2>2
  <2> QED
    BY <2>3, <1>3 DEF TreeView_GetChild, s
<1> QED
  BY <1>2, <1>3

LEMMA WalkStep ==
  ASSUME NEW t, IsForest(t), IsFiniteSet(DOMAIN t), NEW h \in DOMAIN t, NEW new, IsLast(t, h, new),
         SeesAll(t, h), NEW x \in Inside(t, h), x # new,
         NEW back, back = StepBack(t, x), NEW next, next = Climb(t, back)
  PROVE  /\ next \in Inside(t, h)
         /\ Cardinality(FromHere(t, h, x)) = (IF back = x THEN 1 ELSE 2) + Cardinality(FromHere(t, h, next))
         /\ Cardinality(FromHere(t, h, next)) \in Nat
<1> DEFINE R(y) == FromHere(t, h, y)
<1>1. x \in DOMAIN t \ {0}
  BY InsideIs
<1>2. \A y : IsFiniteSet(R(y))
  <2>1. \A y : R(y) \in SUBSET DOMAIN t
    BY InsideIs DEF FromHere, Behind, Branch
  <2> HIDE DEF R
  <2> QED
    BY <2>1, FS_Subset
<1>3. ASSUME NEW y \in Inside(t, h), t[y] = <<>>
      PROVE  R(y) = {y} \cup Behind(t, h, y) /\ y \notin Behind(t, h, y)
  <2>1. y \in DOMAIN t
    BY InsideIs
  <2>2. Branch(t, y) = {y}
    BY <2>1, <1>3, Childless
  <2>3. y \notin Behind(t, h, y)
    BY <2>1, NotBehindItself
  <2> QED
    BY <2>2, <2>3 DEF FromHere
<1>4. ASSUME NEW y, NEW S, IsFiniteSet(S), y \notin S, NEW U, U = {y} \cup S
      PROVE  Cardinality(U) = Cardinality(S) + 1 /\ Cardinality(S) \in Nat
  <2>1. U = S \cup {y}
    BY <1>4
  <2> QED
    BY <2>1, <1>4, FS_AddElement, FS_CardinalityType
<1>5. CASE t[x] = <<>>
  <2>1. back = x
    BY <1>1, <1>5, ChildIs DEF StepBack
  <2>2. next \in Inside(t, h) /\ Behind(t, h, x) = R(next)
    BY <2>1, ClimbGoesOn
  <2>3. R(x) = {x} \cup R(next) /\ x \notin R(next) /\ IsFiniteSet(R(next))
    BY <2>2, <1>2, <1>3, <1>5
  <2> HIDE DEF R
  <2>4. Cardinality(R(x)) = Cardinality(R(next)) + 1 /\ Cardinality(R(next)) \in Nat
    BY <2>3, <1>4
  <2>5. Cardinality(R(x)) = 1 + Cardinality(R(next))
    <3> DEFINE cn == Cardinality(R(next))
    <3>1. Cardinality(R(x)) = cn + 1 /\ cn \in Nat
      BY <2>4
    <3> HIDE DEF cn
    <3>2. Cardinality(R(x)) = 1 + cn
      BY <3>1
    <3> QED
      BY <3>2 DEF cn
  <2> QED
    BY <2>1, <2>2, <2>4, <2>5 DEF R
<1>6. CASE t[x] # <<>>
  <2>1. back = TreeView_GetChild(t, x) /\ back # 0
    BY <1>1, <1>6, ChildIs DEF StepBack
  <2>2. /\ back \in Inside(t, h) /\ TreeView_GetParent(t, back) = x
        /\ R(x) = {x} \cup R(back) /\ x \notin R(back)
    BY <2>1, <1>6, FromItsChild
  <2>3. t[back] = <<>>
    BY <2>1 DEF SeesAll
  <2>4. back # new
    <3>1. TreeView_GetParent(t, new) = h /\ x # h
      BY InsideIs DEF IsLast
    <3> QED
      BY <3>1, <2>2
  <2>5. next \in Inside(t, h) /\ Behind(t, h, back) = R(next)
    BY <2>2, <2>4, ClimbGoesOn
  <2>6. R(back) = {back} \cup R(next) /\ back \notin R(next) /\ IsFiniteSet(R(next)) /\ IsFiniteSet(R(back))
    BY <2>2, <2>3, <2>5, <1>2, <1>3
  <2>7. back # x
    <3>1. TreeView_GetParent(t, back) < back /\ back \in Nat
      <4>1. back \in DOMAIN t /\ back # 0
        BY <2>2, InsideIs
      <4> QED
        BY <4>1, ParentOf DEF IsForest
    <3> QED
      BY <3>1, <2>2
  <2> HIDE DEF R
  <2>8. Cardinality(R(back)) = Cardinality(R(next)) + 1 /\ Cardinality(R(next)) \in Nat
    BY <2>6, <1>4
  <2>9. Cardinality(R(x)) = Cardinality(R(back)) + 1
    BY <2>2, <2>6, <1>4
  <2>10. Cardinality(R(x)) = 2 + Cardinality(R(next))
    <3> DEFINE cx == Cardinality(R(x))
               cb == Cardinality(R(back))
               cn == Cardinality(R(next))
    <3>1. cx = cb + 1 /\ cb = cn + 1 /\ cn \in Nat
      BY <2>8, <2>9
    <3> HIDE DEF cx, cb, cn
    <3>2. cx = 2 + cn
      BY <3>1
    <3> QED
      BY <3>2 DEF cx, cn
  <2> QED
    BY <2>5, <2>7, <2>8, <2>10 DEF R
<1> QED
  BY <1>5, <1>6

(* The recursion of PositionFrom has a solution: one step after another. *)
LEMMA WalkIs ==
  ASSUME NEW t, NEW from, NEW new, Cardinality(DOMAIN t) \in Nat
  PROVE  \E walk :
           /\ PositionFrom(t, from, new) = walk[Cardinality(DOMAIN t)].i
           /\ walk[0] = [temp |-> from, i |-> 1]
           /\ \A n \in 1 .. Cardinality(DOMAIN t) :
                walk[n] = LET w == walk[n - 1]
                              back == StepBack(t, w.temp)
                          IN  IF w.temp = new THEN w
                              ELSE [temp |-> Climb(t, back), i |-> w.i + IF back = w.temp THEN 1 ELSE 2]
<1> DEFINE K == Cardinality(DOMAIN t)
           Start == [temp |-> from, i |-> 1]
           Step(w) == LET back == StepBack(t, w.temp)
                      IN  IF w.temp = new THEN w
                          ELSE [temp |-> Climb(t, back), i |-> w.i + IF back = w.temp THEN 1 ELSE 2]
           Fn(n, f) == f = [k \in 0 .. n |-> IF k = 0 THEN Start ELSE Step(f[k - 1])]
           F(f) == f = [n \in 0 .. K |-> IF n = 0 THEN [temp |-> from, i |-> 1]
                          ELSE LET w == f[n - 1]
                                   back == StepBack(t, w.temp)
                               IN  IF w.temp = new THEN w
                                   ELSE [temp |-> Climb(t, back), i |-> w.i + IF back = w.temp THEN 1 ELSE 2]]
           walk == CHOOSE f : F(f)
           T == {n \in Nat : ~ \E f : Fn(n, f)}
<1>1. PositionFrom(t, from, new) = walk[K].i
  BY Zenon DEF PositionFrom
<1>2. T = {}
  <2> SUFFICES ASSUME T # {} PROVE FALSE
    OBVIOUS
  <2>1. PICK n \in T : \A k \in T : n <= k
    <3>1. T \subseteq Nat
      OBVIOUS
    <3> HIDE DEF T
    <3> QED
      BY <3>1, LeastNat
  <2>2. n \in Nat /\ ~ \E f : Fn(n, f)
    OBVIOUS
  <2> HIDE DEF Start, Step
  <2>3. n # 0
    <3> DEFINE f == [k \in 0 .. 0 |-> Start]
    <3>1. Fn(0, f)
      OBVIOUS
    <3> QED
      BY <3>1, <2>2
  <2>4. n - 1 \in Nat /\ n - 1 \notin T
    <3>1. n - 1 \in Nat /\ ~(n <= n - 1)
      BY <2>2, <2>3
    <3>2. \A k \in T : n <= k
      BY <2>1
    <3> HIDE DEF T
    <3> QED
      BY <3>1, <3>2
  <2>5. PICK f : Fn(n - 1, f)
    BY <2>4
  <2> DEFINE g == [k \in 0 .. n |-> IF k < n THEN f[k] ELSE Step(f[n - 1])]
  <2>6. \A k \in 0 .. n - 1 : f[k] = IF k = 0 THEN Start ELSE Step(f[k - 1])
    BY <2>5
  <2>7. \A k \in 0 .. n - 1 : g[k] = f[k]
    BY <2>2, <2>4
  <2>8. g[n] = Step(f[n - 1])
    BY <2>2
  <2>9. \A k \in 0 .. n : g[k] = IF k = 0 THEN Start ELSE Step(g[k - 1])
    <3> SUFFICES ASSUME NEW k \in 0 .. n PROVE g[k] = IF k = 0 THEN Start ELSE Step(g[k - 1])
      OBVIOUS
    <3> HIDE DEF g
    <3>1. CASE k = n
      <4>1. n - 1 \in 0 .. n - 1
        BY <2>4
      <4>2. g[n - 1] = f[n - 1]
        BY <4>1, <2>7
      <4> QED
        BY <4>2, <3>1, <2>3, <2>8
    <3>2. CASE k # n
      <4>1. k \in 0 .. n - 1 /\ (k # 0 => k - 1 \in 0 .. n - 1)
        BY <3>2, <2>2
      <4> QED
        BY <4>1, <2>6, <2>7
    <3> QED
      BY <3>1, <3>2
  <2>10. g = [k \in 0 .. n |-> g[k]]
    OBVIOUS
  <2> HIDE DEF g
  <2>11. Fn(n, g)
    BY <2>9, <2>10
  <2> QED
    BY <2>2, <2>11
<1>3. \E f : F(f)
  <2>1. K \in Nat
    OBVIOUS
  <2>2. \E f : Fn(K, f)
    <3> HIDE DEF K, Fn
    <3> QED
      BY <2>1, <1>2
  <2> QED
    BY <2>2
<1>4. F(walk)
  <2> HIDE DEF F
  <2> QED
    BY <1>3, Zenon
<1>5. walk = [n \in 0 .. K |-> IF n = 0 THEN Start ELSE Step(walk[n - 1])]
  BY <1>4
<1> HIDE DEF walk, K, Start, Step
<1>6. walk[0] = Start /\ \A n \in 1 .. K : walk[n] = Step(walk[n - 1])
  <2>1. K \in Nat
    BY DEF K
  <2>2. 0 \in 0 .. K /\ \A n \in 1 .. K : n \in 0 .. K /\ n # 0
    BY <2>1
  <2> QED
    BY <1>5, <2>2
<1> QED
  BY <1>1, <1>6 DEF K, Start, Step

(* The position that the walk finds is the number of items below h. *)
LEMMA WalkCounts ==
  ASSUME NEW t, IsForest(t), IsFiniteSet(DOMAIN t), NEW h \in DOMAIN t, h # 0,
         NEW new, IsLast(t, h, new), SeesAll(t, h)
  PROVE  NewPosition(t, h, new) = Cardinality(Inside(t, h))
<1> DEFINE I == Inside(t, h)
           K == Cardinality(DOMAIN t)
           N == Cardinality(I)
           C(y) == Cardinality(FromHere(t, h, y))
           first == TreeView_GetChild(t, h)
<1>1. K \in Nat /\ N \in Nat /\ N < K
  <2>1. IsFiniteSet(DOMAIN t \ {h}) /\ Cardinality(DOMAIN t \ {h}) = K - 1 /\ K \in Nat
    BY FS_RemoveElement, FS_CardinalityType
  <2>2. I \in SUBSET (DOMAIN t \ {h})
    BY InsideIs
  <2>3. IsFiniteSet(I) /\ N <= Cardinality(DOMAIN t \ {h})
    BY <2>1, <2>2, FS_Subset
  <2>4. N \in Nat
    BY <2>3, FS_CardinalityType
  <2> HIDE DEF N, K
  <2> QED
    BY <2>1, <2>3, <2>4
<1>2. t[h] # <<>>
  <2>1. new \in Elements(t[h])
    BY ParentOf DEF IsLast
  <2> QED
    BY <2>1 DEF Elements
<1>3. first \in I /\ C(first) = N
  <2>1. first \in I /\ FromHere(t, h, first) = I
    BY <1>2, FromTheFirst
  <2> QED
    BY <2>1
<1>4. new \in I /\ C(new) = 1
  <2>1. new \in I /\ FromHere(t, h, new) = {new}
    BY FromTheLast
  <2>2. Cardinality({new}) = 1
    BY FS_Singleton
  <2> QED
    BY <2>1, <2>2
<1>5. PICK walk :
           /\ PositionFrom(t, first, new) = walk[K].i
           /\ walk[0] = [temp |-> first, i |-> 1]
           /\ \A n \in 1 .. K :
                walk[n] = LET w == walk[n - 1]
                              back == StepBack(t, w.temp)
                          IN  IF w.temp = new THEN w
                              ELSE [temp |-> Climb(t, back), i |-> w.i + IF back = w.temp THEN 1 ELSE 2]
  BY <1>1, WalkIs
<1> DEFINE temp(n) == walk[n].temp
           i(n) == walk[n].i
           Ok(n) == /\ temp(n) \in I /\ i(n) \in Nat /\ i(n) + C(temp(n)) = 1 + N
                    /\ temp(n) = new \/ n + C(temp(n)) <= N
           T == {n \in 0 .. K : ~Ok(n)}
<1>6. temp(0) = first /\ i(0) = 1
  BY <1>5
<1>7. ASSUME NEW n \in 1 .. K
      PROVE  LET back == StepBack(t, temp(n - 1))
             IN  /\ temp(n - 1) = new => temp(n) = new /\ i(n) = i(n - 1)
                 /\ temp(n - 1) # new => /\ temp(n) = Climb(t, back)
                                         /\ i(n) = i(n - 1) + IF back = temp(n - 1) THEN 1 ELSE 2
  <2> DEFINE w == walk[n - 1]
             back == StepBack(t, w.temp)
             c == Climb(t, back)
             j == w.i + IF back = w.temp THEN 1 ELSE 2
  <2>1. walk[n] = IF w.temp = new THEN w ELSE [temp |-> c, i |-> j]
    BY <1>5, Zenon
  <2> HIDE DEF w, back, c, j
  <2>2. w.temp = new => walk[n].temp = new /\ walk[n].i = w.i
    BY <2>1
  <2>3. w.temp # new => walk[n].temp = c /\ walk[n].i = j
    BY <2>1
  <2> QED
    BY <2>2, <2>3 DEF w, back, c, j
<1>8. ASSUME NEW x \in I, x # new, NEW back, back = StepBack(t, x), NEW next, next = Climb(t, back)
      PROVE  /\ next \in I /\ C(next) \in Nat
             /\ C(x) = (IF back = x THEN 1 ELSE 2) + C(next)
  BY <1>8, WalkStep
<1> HIDE DEF I, C, N, K, first, temp, i
<1>9. Ok(0)
  BY <1>1, <1>3, <1>6
<1>10. ASSUME NEW n \in 1 .. K, Ok(n - 1) PROVE Ok(n)
  <2> DEFINE x == temp(n - 1)
             back == StepBack(t, x)
             next == Climb(t, back)
  <2>1. x \in I /\ i(n - 1) \in Nat /\ i(n - 1) + C(x) = 1 + N /\ (x = new \/ n - 1 + C(x) <= N)
    BY <1>10
  <2>2. CASE x = new
    <3>1. temp(n) = new /\ i(n) = i(n - 1)
      BY <2>2, <1>7
    <3> QED
      BY <3>1, <2>1, <2>2
  <2>3. CASE x # new
    <3> DEFINE d == IF back = x THEN 1 ELSE 2
    <3>1. temp(n) = next /\ i(n) = i(n - 1) + d
      BY <2>3, <1>7
    <3>2. next \in I /\ C(next) \in Nat /\ C(x) = d + C(next)
      BY <2>1, <2>3, <1>8
    <3>3. d \in {1, 2}
      OBVIOUS
    <3>4. n - 1 + C(x) <= N
      BY <2>1, <2>3
    <3> DEFINE cx == C(x)
               cn == C(next)
               j == i(n - 1)
    <3>5. j \in Nat /\ j + cx = 1 + N /\ n - 1 + cx <= N /\ cn \in Nat /\ cx = d + cn
      BY <2>1, <3>2, <3>4
    <3> HIDE DEF x, back, next, d, cx, cn, j
    <3>6. j + d \in Nat /\ j + d + cn = 1 + N /\ n + cn <= N
      BY <3>3, <3>5, <1>1
    <3>7. C(temp(n)) = cn /\ i(n) = j + d /\ temp(n) \in I
      BY <3>1, <3>2 DEF cn, j
    <3> QED
      BY <3>6, <3>7
  <2> QED
    BY <2>2, <2>3
<1>11. T = {}
  <2> SUFFICES ASSUME T # {} PROVE FALSE
    OBVIOUS
  <2>1. PICK n \in T : \A k \in T : n <= k
    <3>1. T \subseteq Nat
      BY <1>1
    <3> HIDE DEF T
    <3> QED
      BY <3>1, LeastNat
  <2>2. n \in 0 .. K /\ ~Ok(n)
    OBVIOUS
  <2> HIDE DEF Ok
  <2>3. n # 0
    BY <2>2, <1>9
  <2>4. n \in 1 .. K /\ n - 1 \in 0 .. K /\ ~(n <= n - 1)
    BY <2>2, <2>3, <1>1
  <2>5. n - 1 \notin T
    <3>1. \A k \in T : n <= k
      BY <2>1
    <3> HIDE DEF T
    <3> QED
      BY <3>1, <2>4
  <2>6. Ok(n - 1)
    BY <2>4, <2>5
  <2> QED
    BY <2>2, <2>4, <2>6, <1>10
<1>12. Ok(K)
  <2>1. K \in 0 .. K
    BY <1>1
  <2> HIDE DEF Ok
  <2> QED
    BY <2>1, <1>11
<1>13. C(temp(K)) \in Nat
  <2>1. \A y : IsFiniteSet(FromHere(t, h, y))
    <3>1. \A y : FromHere(t, h, y) \in SUBSET DOMAIN t
      BY InsideIs DEF FromHere, Behind, Branch
    <3> QED
      BY <3>1, FS_Subset
  <2> QED
    BY <2>1, FS_CardinalityType DEF C
<1>14. temp(K) = new
  BY <1>1, <1>12, <1>13
<1>15. i(K) = N
  BY <1>1, <1>4, <1>12, <1>14
<1>16. NewPosition(t, h, new) = i(K)
  BY <1>5 DEF NewPosition, first, i
<1> QED
  BY <1>15, <1>16 DEF N, I

LEMMA GrownLast ==
  ASSUME NEW t, IsForest(t), NEW q \in DOMAIN t, NEW n, IsNext(t, n), NEW u, u = Grown(t, q, n)
  PROVE  IsLast(u, q, n)
<1>1. IsForest(u) /\ TreeView_GetParent(u, n) = q
  BY GrownForest
<1>2. /\ \A x : x \in DOMAIN u <=> x \in DOMAIN t \/ x = n
      /\ u[n] = <<>> /\ u[q] = Append(t[q], n) /\ n # 0
  BY GrownIs DEF IsNext
<1> DEFINE s == t[q]
           r == u[q]
           L == Len(s)
<1>3. s \in Seq(DOMAIN t \ {0}) /\ r = Append(s, n)
  BY <1>2 DEF IsForest
<1>4. /\ L \in Nat /\ DOMAIN r = 1 .. L + 1
      /\ \A k \in 1 .. L + 1 : r[k] = IF k <= L THEN s[k] ELSE n
  <2> HIDE DEF s, r
  <2> QED
    BY <1>3, ElementsOfAppend
<1>5. q \in DOMAIN u /\ r[L + 1] = n /\ L + 1 \in 1 .. L + 1
  BY <1>2, <1>4
<1>6. \A j, k \in 1 .. L + 1 : r[j] = r[k] => j = k
  <2>1. \A j, k \in DOMAIN r : r[j] = r[k] => j = k
    BY <1>1, <1>5 DEF IsForest
  <2> QED
    BY <2>1, <1>4
<1>7. ASSUME NEW b, Before(u, n, b) PROVE FALSE
  <2>1. PICK h \in DOMAIN u : \E j, k \in DOMAIN u[h] : j < k /\ u[h][j] = n /\ u[h][k] = b
    BY <1>7 DEF Before
  <2>2. h = q
    BY <2>1, <1>1, ParentIs DEF Elements
  <2>3. PICK j \in 1 .. L + 1, k \in 1 .. L + 1 : j < k /\ r[j] = n
    BY <2>1, <2>2, <1>4
  <2>4. j = L + 1
    BY <2>3, <1>5, <1>6
  <2> QED
    BY <2>3, <2>4, <1>4
<1>8. ASSUME NEW x \in DOMAIN u \ {0}, TreeView_GetParent(u, x) = q, x # n PROVE Before(u, x, n)
  <2>1. x \in Elements(r)
    BY <1>1, <1>8, ParentOf
  <2>2. PICK j \in 1 .. L + 1 : r[j] = x
    BY <2>1, <1>4 DEF Elements
  <2>3. j < L + 1
    BY <2>2, <1>4, <1>5, <1>8
  <2> QED
    BY <2>2, <2>3, <1>4, <1>5 DEF Before
<1> QED
  BY <1>1, <1>2, <1>7, <1>8 DEF IsLast

(* Below the parent there are now as many as there were with it. *)
LEMMA GrownInside ==
  ASSUME NEW t, IsForest(t), NEW q \in DOMAIN t, NEW n, IsNext(t, n), NEW u, u = Grown(t, q, n),
         IsFiniteSet(Branch(t, q))
  PROVE  /\ \A x : x \in Inside(u, q) <=> x = n \/ x \in Branch(t, q) \ {q}
         /\ Cardinality(Inside(u, q)) = Cardinality(Branch(t, q))
<1>1. /\ IsForest(u) /\ \A x \in DOMAIN t : Above(u)[x] = Above(t)[x]
      /\ Above(u)[n] = {n} \cup Above(t)[q]
  BY GrownForest
<1>2. \A x : x \in DOMAIN u <=> x \in DOMAIN t \/ x = n
  BY GrownIs
<1>3. n # q /\ n \notin DOMAIN t
  BY DEF IsNext
<1>4. q \in Above(t)[q]
  BY AboveFacts
<1>5. \A x : x \in Inside(u, q) <=> x = n \/ x \in Branch(t, q) \ {q}
  BY <1>1, <1>2, <1>3, <1>4 DEF Inside, Branch
<1> DEFINE B == Branch(t, q)
           S == B \ {q}
<1>6. q \in B /\ n \notin S
  BY <1>3, <1>4 DEF Branch
<1>7. Inside(u, q) = S \cup {n}
  BY <1>5
<1> HIDE DEF B
<1>8. IsFiniteSet(S) /\ Cardinality(S) = Cardinality(B) - 1 /\ Cardinality(B) \in Nat
  BY <1>6, FS_RemoveElement, FS_CardinalityType DEF B
<1>9. Cardinality(S \cup {n}) = Cardinality(S) + 1
  BY <1>6, <1>8, FS_AddElement
<1> HIDE DEF S
<1>10. Cardinality(S \cup {n}) = Cardinality(B)
  BY <1>8, <1>9
<1> QED
  BY <1>5, <1>7, <1>10 DEF B

LEMMA GrownSees ==
  ASSUME NEW t, IsForest(t), NEW q \in DOMAIN t, NEW n, IsNext(t, n), NEW u, u = Grown(t, q, n),
         IsFiniteSet(Branch(t, q)),
         \A x \in Branch(t, q) \ {q} :
           LET c == TreeView_GetChild(t, x) IN c # 0 => t[c] = <<>>
  PROVE  SeesAll(u, q)
<1>1. /\ \A x : x \in DOMAIN u <=> x \in DOMAIN t \/ x = n
      /\ u[n] = <<>> /\ \A x \in DOMAIN t : x # q => u[x] = t[x]
  BY GrownIs
<1> SUFFICES ASSUME NEW x \in Inside(u, q), NEW c, c = TreeView_GetChild(u, x), c # 0
             PROVE  u[c] = <<>>
  BY DEF SeesAll
<1>2. x = n \/ x \in Branch(t, q) \ {q}
  BY GrownInside
<1>3. x # n
  BY <1>1 DEF TreeView_GetChild
<1>4. x \in Inside(t, q) /\ x \in DOMAIN t /\ x # q
  BY <1>2, <1>3 DEF Inside, Branch
<1>5. c = TreeView_GetChild(t, x)
  BY <1>1, <1>4 DEF TreeView_GetChild
<1>6. t[c] = <<>>
  BY <1>2, <1>3, <1>5
<1>7. t[x] # <<>>
  BY <1>4, <1>5, ChildIs
<1>8. c \in Inside(t, q)
  BY <1>4, <1>5, <1>7, FromItsChild
<1>9. c \in DOMAIN t /\ c # q
  BY <1>8, InsideIs
<1> QED
  BY <1>1, <1>6, <1>9

(* The place behind the whole branch of the item at place p. *)
LEMMA BehindBranch ==
  ASSUME NEW D, NEW par, NEW up, Hierarchy(D, par, up),
         NEW m, IsMapOf(m, D), InTreeOrder(m, up), NEW p \in DOMAIN m,
         NEW d \in Nat, d >= 1, p + d <= Len(m) + 1,
         \A k \in DOMAIN m : m[p] \in up[m[k]] <=> p <= k /\ k < p + d
  PROVE  EndsBranch(m, up, m[p], p + d)
<1> DEFINE q == m[p]
           at == p + d
           N == Len(m)
<1>1. /\ N \in Nat /\ DOMAIN m = 1 .. N /\ \A k \in 1 .. N : m[k] \in D
  BY MapCount DEF IsMapOf
<1>2. p \in 1 .. N /\ at \in 1 .. N + 1 /\ p < at /\ at \in Nat
  BY <1>1
<1>3. \A k \in 1 .. N : q \in up[m[k]] <=> p <= k /\ k < at
  BY <1>1
<1>4. /\ \A i, k \in 1 .. N : m[i] \in up[m[k]] => i <= k
      /\ \A i, j, k \in 1 .. N : i <= j /\ j <= k /\ m[i] \in up[m[k]] => m[i] \in up[m[j]]
  BY <1>1 DEF InTreeOrder
<1>5. \A c \in D : \A b \in up[c] : \A a \in up[b] : a \in up[c]
  BY UpUp
<1> HIDE DEF at, N
<1>6. ASSUME NEW i \in 1 .. N, NEW j \in 1 .. N, i <= j, j < at, m[i] \in up[q] PROVE m[i] \in up[m[j]]
  <2>1. CASE p <= j
    BY <2>1, <1>1, <1>3, <1>5, <1>6
  <2>2. CASE j < p
    <3>1. i <= j /\ j <= p
      BY <2>2, <1>2, <1>6
    <3> QED
      BY <3>1, <1>2, <1>4, <1>6
  <2> QED
    BY <2>1, <2>2, <1>2
<1>7. ASSUME NEW i \in 1 .. N, m[i] \in up[q] PROVE i < at
  <2>1. i <= p
    BY <1>2, <1>4, <1>7
  <2> QED
    BY <2>1, <1>2
<1>8. ASSUME NEW i \in 1 .. N, NEW k \in 1 .. N, i < at, at <= k, m[i] \in up[m[k]] PROVE m[i] \in up[q]
  <2>1. CASE i <= p
    <3>1. i <= p /\ p <= k
      BY <2>1, <1>2, <1>8
    <3> QED
      BY <3>1, <1>2, <1>4, <1>8
  <2>2. CASE p < i
    <3>1. q \in up[m[i]]
      BY <2>2, <1>2, <1>3, <1>8
    <3>2. q \in up[m[k]]
      BY <3>1, <1>1, <1>5, <1>8
    <3>3. k < at
      BY <3>2, <1>3
    <3> QED
      BY <3>3, <1>2, <1>8
  <2> QED
    BY <2>1, <2>2, <1>2
<1> QED
  BY <1>1, <1>2, <1>6, <1>7, <1>8 DEF EndsBranch, at, N

(* What _AddItem below an item does, at the place behind its branch. *)
AddedBehind(p, q, at, id) ==
  /\ openNodes = <<>> /\ p \in DOMAIN pageMap /\ q \in LiveItems /\ q = pageMap[p]
  /\ at = p + Cardinality(Branch(children, q))
  /\ AddTreeItem(q, id, FALSE) /\ EndsBranch(pageMap, Above(children), q, at)
  /\ pageMap' = Inserted(pageMap, at, NewItem)
  /\ picture' = Inserted(picture, at, id)
  /\ headClick' = Inserted(headClick, at, NIL)
  /\ UNCHANGED <<itemIds, openNodes, treeError>>

LEMMA AddItemIs ==
  ASSUME TreeInv, ~DeepAdds, NEW value, NEW id \in NewIds, AddItem(value, id)
  PROVE  \E p, q, at : AddedBehind(p, q, at, id)
<1> DEFINE p == ItemPosition(value)
           q == pageMap[p]
           t == children
           u == children'
           n == NewItem
           N == Len(pageMap)
           d == Cardinality(Branch(children, q))
           at == p + d
<1>1. /\ Cardinality(LiveItems) = N /\ N \in Nat /\ DOMAIN pageMap = 1 .. N /\ IsFiniteSet(LiveItems)
      /\ pageMap \in Seq(LiveItems) /\ picture \in Seq(Nat) /\ Len(picture) = N
      /\ headClick \in Seq({NIL, 1}) /\ Len(headClick) = N
  BY MapCount DEF TreeInv, TreeTypes, IsMapOf
<1>2. /\ openNodes = <<>> /\ p \in 1 .. N /\ q \in LiveItems /\ AddTreeItem(q, id, FALSE)
      /\ WalkSeesAll(q) /\ UNCHANGED <<itemIds, openNodes, treeError>>
  BY <1>1 DEF AddItem, Ready, IsItem, TreeView_GetCount
<1>3. LET a == p + NewPosition(u, q, n)
      IN  /\ pageMap' = AIns(ASize(pageMap, TreeView_GetCount'), a, n)
          /\ picture' = AIns(ASize(picture, TreeView_GetCount'), a, id)
          /\ headClick' = AIns(ASize(headClick, TreeView_GetCount'), a, NIL)
  BY DEF AddItem
<1>0. p = ItemPosition(value) /\ q = pageMap[p]
  OBVIOUS
<1> HIDE DEF p, q
<1>4. IsForest(t) /\ q \in DOMAIN t /\ q # 0 /\ IsNext(t, n) /\ u = Grown(t, q, n)
  <2>1. IsForest(t) /\ made \in Nat /\ \A h \in DOMAIN t : h <= made /\ h \in Nat
    BY DEF TreeInv, TreeTypes, IsForest
  <2>2. q \in DOMAIN t /\ q # 0
    BY <1>2 DEF LiveItems
  <2>3. u = Grown(t, q, n)
    BY <1>2 DEF AddTreeItem, Grown
  <2>4. IsNext(t, n)
    BY <2>1 DEF IsNext, NewItem
  <2> QED
    BY <2>1, <2>2, <2>3, <2>4
<1>5. /\ IsFiniteSet(Branch(t, q)) /\ d \in Nat /\ d >= 1 /\ p + d <= N + 1
      /\ \A k \in DOMAIN pageMap : pageMap[k] \in Branch(t, q) <=> p <= k /\ k < p + d
      /\ Branch(t, q) = {x \in LiveItems : q \in Above(t)[x]}
  <2>1. p \in DOMAIN pageMap
    BY <1>1, <1>2
  <2> QED
    BY <1>0, <2>1, BranchFacts
<1>6. TreeView_GetCount' = N + 1
  <2>1. \A x : x \in DOMAIN u <=> x \in DOMAIN t \/ x = n
    BY <1>4, GrownIs
  <2>2. n \notin LiveItems /\ n # 0
    BY <1>4 DEF IsNext, LiveItems
  <2>3. LiveItems' = LiveItems \cup {n}
    BY <2>1, <2>2 DEF LiveItems
  <2> DEFINE D == LiveItems
             E == LiveItems'
  <2> HIDE DEF D, E
  <2>4. E = D \cup {n} /\ n \notin D /\ IsFiniteSet(D) /\ Cardinality(D) = N
    BY <2>2, <2>3, <1>1 DEF D, E
  <2>5. Cardinality(E) = N + 1
    BY ONLY <2>4, FS_AddElement
  <2> QED
    BY <2>5 DEF TreeView_GetCount, E
<1>7. NewPosition(u, q, n) = d
  <2>1. IsForest(u)
    BY <1>4, GrownForest
  <2>2. q \in DOMAIN u /\ IsFiniteSet(DOMAIN u)
    <3>1. \A x : x \in DOMAIN u <=> x \in DOMAIN t \/ x = n
      BY <1>4, GrownIs
    <3>0. DOMAIN t = LiveItems \cup {0}
      BY <1>4 DEF LiveItems, IsForest
    <3> HIDE DEF t, u, n
    <3>2. DOMAIN u = (LiveItems \cup {0}) \cup {n}
      BY ONLY <3>0, <3>1
    <3>3. IsFiniteSet((LiveItems \cup {0}) \cup {n})
      BY <1>1, FS_AddElement
    <3> QED
      BY <3>1, <3>2, <3>3, <1>4
  <2>3. IsLast(u, q, n)
    BY <1>4, GrownLast
  <2>4. \A x \in Branch(t, q) \ {q} : LET c == TreeView_GetChild(t, x) IN c # 0 => t[c] = <<>>
    BY <1>2 DEF WalkSeesAll
  <2> HIDE DEF t, u, n
  <2>5. SeesAll(u, q)
    BY <2>4, <1>4, <1>5, GrownSees
  <2>6. Cardinality(Inside(u, q)) = Cardinality(Branch(t, q))
    BY <1>4, <1>5, GrownInside
  <2>7. NewPosition(u, q, n) = Cardinality(Inside(u, q))
    BY <2>1, <2>2, <2>3, <2>5, <1>4, WalkCounts
  <2> QED
    BY <2>6, <2>7 DEF t
<1>8. /\ pageMap' = AIns(ASize(pageMap, N + 1), at, n)
      /\ picture' = AIns(ASize(picture, N + 1), at, id)
      /\ headClick' = AIns(ASize(headClick, N + 1), at, NIL)
  BY <1>3, <1>6, <1>7
<1>9. at \in 1 .. N + 1
  BY <1>1, <1>2, <1>5
<1>10. EndsBranch(pageMap, Above(children), q, at)
  <2> DEFINE D == DOMAIN t \ {0}
             pr == ParentIn(t)
             up == Above(t)
             m == pageMap
  <2>1. Hierarchy(D, pr, up) /\ IsMapOf(m, D) /\ InTreeOrder(m, up)
    BY <1>4, AboveIsUp DEF TreeInv, LiveItems
  <2>2. p \in DOMAIN m /\ q = m[p]
    BY <1>0, <1>1, <1>2
  <2>3. \A k \in DOMAIN m : m[p] \in up[m[k]] <=> p <= k /\ k < p + d
    <3>1. \A k \in DOMAIN m : m[k] \in LiveItems
      BY <1>1
    <3> QED
      BY <3>1, <1>5, <2>2
  <2>4. d \in Nat /\ d >= 1 /\ p + d <= Len(m) + 1
    BY <1>5
  <2> HIDE DEF D, pr, up, m, d
  <2>5. EndsBranch(m, up, m[p], p + d)
    BY ONLY <2>1, <2>2, <2>3, <2>4, BehindBranch
  <2> QED
    BY <2>2, <2>5 DEF m, up, t
<1>14. at = p + Cardinality(Branch(children, q))
  OBVIOUS
<1> HIDE DEF at
<1>11. pageMap' = Inserted(pageMap, at, n)
  <2>1. AIns(ASize(pageMap, Len(pageMap) + 1), at, n) = Inserted(pageMap, at, n)
    BY <1>1, <1>9, InsertIsInserted
  <2> QED
    BY <2>1, <1>8
<1>12. picture' = Inserted(picture, at, id)
  <2>1. AIns(ASize(picture, Len(picture) + 1), at, id) = Inserted(picture, at, id)
    BY <1>1, <1>9, InsertIsInserted
  <2> QED
    BY <2>1, <1>1, <1>8
<1>13. headClick' = Inserted(headClick, at, NIL)
  <2>1. AIns(ASize(headClick, Len(headClick) + 1), at, NIL) = Inserted(headClick, at, NIL)
    BY <1>1, <1>9, InsertIsInserted
  <2> QED
    BY <2>1, <1>1, <1>8
<1>15. AddedBehind(p, q, at, id)
  BY <1>0, <1>1, <1>2, <1>10, <1>11, <1>12, <1>13, <1>14 DEF AddedBehind
<1> QED
  BY <1>15

LEMMA AddItemKeeps ==
  ASSUME TreeInv, ~DeepAdds, NEW value, NEW id \in NewIds, AddItem(value, id)
  PROVE  TreeInv'
<1>1. PICK p, q, at : AddedBehind(p, q, at, id)
  BY AddItemIs
<1>2. id \in Nat /\ q \in DOMAIN children /\ FALSE \in BOOLEAN /\ NIL \in {NIL, 1}
  BY <1>1, NewIdsAre DEF AddedBehind, LiveItems
<1>3. /\ TreeTypes' /\ IsForest(children') /\ IsMapOf(pageMap', LiveItems')
      /\ InTreeOrder(pageMap', Above(children')) /\ IdsAgree'
  BY <1>1, <1>2, GrowKeeps DEF AddedBehind
<1>4. OpenAtTheEnd'
  BY <1>1 DEF AddedBehind, OpenAtTheEnd
<1> QED
  BY <1>3, <1>4 DEF TreeInv

-----------------------------------------------------------------------------
LEMMA TreeInitInv == TreeInit => TreeInv
<1> SUFFICES ASSUME TreeInit PROVE TreeInv
  OBVIOUS
<1> DEFINE t == children
<1>1. /\ itemIds \in BOOLEAN /\ openNodes = <<0>> /\ t = [h \in {0} |-> <<>>] /\ made = 0 /\ lparam = <<>>
      /\ pageMap = <<>> /\ picture = <<>> /\ headClick = <<>> /\ treeError = FALSE
  BY DEF TreeInit
<1>2. DOMAIN t = {0} /\ t[0] = <<>> /\ DOMAIN lparam = {} /\ LiveItems = {}
  BY <1>1 DEF LiveItems
<1>3. IsForest(t)
  <2>1. Elements(t[0]) = {}
    BY <1>2 DEF Elements
  <2> HIDE DEF t
  <2> QED
    BY <1>2, <2>1 DEF IsForest
<1>4. IsMapOf(pageMap, LiveItems) /\ InTreeOrder(pageMap, Above(t))
  BY <1>1, <1>2 DEF IsMapOf, InTreeOrder
<1>5. TreeTypes
  BY <1>1, <1>2 DEF TreeTypes
<1>6. OpenAtTheEnd
  <2>1. openNodes \in Seq(DOMAIN t) /\ DOMAIN openNodes = {1}
    BY <1>1, <1>2
  <2> HIDE DEF t
  <2> QED
    BY <1>1, <2>1 DEF OpenAtTheEnd, t
<1>7. IdsAgree
  BY <1>1 DEF IdsAgree
<1> QED
  BY <1>3, <1>4, <1>5, <1>6, <1>7 DEF TreeInv

LEMMA TreeStep == ~DeepAdds /\ TreeInv /\ [TreeNext]_treeVars => TreeInv'
<1> SUFFICES ASSUME ~DeepAdds, TreeInv, [TreeNext]_treeVars PROVE TreeInv'
  OBVIOUS
<1>1. CASE UNCHANGED treeVars
  BY <1>1 DEF treeVars, TreeInv, TreeTypes, OpenAtTheEnd, IdsAgree, LiveItems
<1>2. CASE TreeNext
  <2>1. ASSUME NEW id \in NewIds, NEW cargo \in SomeCargo, DefineTreeNode(id, cargo) PROVE TreeInv'
    BY <2>1, DefineTreeNodeKeeps
  <2>2. ASSUME NEW id \in NewIds, NEW cargo \in SomeCargo, DefineTreeItem(id, cargo) PROVE TreeInv'
    BY <2>2, DefineTreeItemKeeps
  <2>3. ASSUME NEW id \in NewIds, AddRootItem(id) PROVE TreeInv'
    BY <2>3, AddRootItemKeeps
  <2>4. ASSUME NEW id \in NewIds, NEW value, AddItem(value, id) PROVE TreeInv'
    BY <2>4, AddItemKeeps
  <2>5. ASSUME NEW value, DeleteItem(value) PROVE TreeInv'
    BY <2>5, DeleteItemKeeps
  <2>6. ASSUME NEW value, NEW cargo, SetItemCargo(value, cargo) PROVE TreeInv'
    BY <2>6, SetItemCargoKeeps
  <2>7. ASSUME NEW h, NEW order \in SortOrders, SortItems(h, order) PROVE TreeInv'
    BY <2>7, SortItemsKeeps
  <2>8. EndTreeNode \/ EndTree \/ ItemError \/ DeleteAllItems => TreeInv'
    BY EndTreeNodeKeeps, EndTreeKeeps, ItemErrorKeeps, DeleteAllItemsKeeps
  <2> QED
    BY <1>2, <2>1, <2>2, <2>3, <2>4, <2>5, <2>6, <2>7, <2>8 DEF TreeNext
<1> QED
  BY <1>1, <1>2

LEMMA TreeIsInvariant == ~DeepAdds => (TreeSpec => []TreeInv)
<1> SUFFICES ASSUME ~DeepAdds PROVE TreeSpec => []TreeInv
  OBVIOUS
<1>1. TreeInit => TreeInv
  BY TreeInitInv
<1>2. TreeInv /\ [TreeNext]_treeVars => TreeInv'
  BY TreeStep
<1> QED
  BY <1>1, <1>2, PTL DEF TreeSpec

LEMMA InvMapFollowsTree == TreeInv => MapFollowsTree
<1> SUFFICES ASSUME TreeInv PROVE MapFollowsTree
  OBVIOUS
<1> DEFINE N == Len(pageMap)
<1>1. /\ Elements(pageMap) = LiveItems /\ N = TreeView_GetCount /\ N \in Nat
      /\ DOMAIN pageMap = 1 .. N /\ pageMap \in Seq(LiveItems)
  BY MapCount DEF TreeInv, TreeView_GetCount, IsMapOf
<1>2. ASSUME NEW p \in DOMAIN pageMap, NEW B, B = Branch(children, pageMap[p])
      PROVE  Elements(SubSeq(pageMap, p, p + Cardinality(B) - 1)) = B
  <2> DEFINE d == Cardinality(B)
             e == p + d - 1
             s == SubSeq(pageMap, p, e)
  <2>1. /\ d \in Nat /\ d >= 1 /\ p + d <= N + 1
        /\ \A k \in DOMAIN pageMap : pageMap[k] \in B <=> p <= k /\ k < p + d
        /\ B \subseteq LiveItems
    BY <1>2, BranchFacts
  <2>2. p \in 1 .. N /\ e \in 1 .. N /\ p <= e
    BY <1>1, <2>1
  <2>3. \A k \in 1 .. N : pageMap[k] \in B <=> p <= k /\ k <= e
    BY <1>1, <2>1
  <2> HIDE DEF d, e, N
  <2>4. DOMAIN s = 1 .. e - p + 1 /\ \A k \in 1 .. e - p + 1 : s[k] = pageMap[p + k - 1]
    BY <1>1, <2>2 DEF N
  <2>5. ASSUME NEW x \in B PROVE x \in Elements(s)
    <3>1. PICK k \in 1 .. N : pageMap[k] = x
      BY <1>1, <2>1 DEF Elements
    <3>2. p <= k /\ k <= e
      BY <3>1, <2>3
    <3>3. k - p + 1 \in 1 .. e - p + 1 /\ p + (k - p + 1) - 1 = k
      BY <3>2, <2>2
    <3>4. s[k - p + 1] = x
      BY <3>1, <3>3, <2>4
    <3> HIDE DEF s
    <3> QED
      BY <3>3, <3>4, <2>4 DEF Elements
  <2>6. ASSUME NEW x \in Elements(s) PROVE x \in B
    <3>1. PICK k \in 1 .. e - p + 1 : s[k] = x
      BY <2>4 DEF Elements
    <3>2. p + k - 1 \in 1 .. N /\ p <= p + k - 1 /\ p + k - 1 <= e
      BY <2>2, <1>1
    <3> QED
      BY <3>1, <3>2, <2>3, <2>4
  <2>7. Elements(s) = B
    BY <2>5, <2>6
  <2> QED
    BY <2>7 DEF d, e
<1>3. DOMAIN lparam = LiveItems
  BY DEF TreeInv, TreeTypes
<1>4. itemIds => \A p \in DOMAIN pageMap : picture[p] = lparam[pageMap[p]].id
  BY DEF TreeInv, IdsAgree
<1>5. \A p \in DOMAIN pageMap :
        LET branch == Branch(children, pageMap[p])
        IN  Elements(SubSeq(pageMap, p, p + Cardinality(branch) - 1)) = branch
  BY <1>2
<1> QED
  BY <1>1, <1>3, <1>4, <1>5, Zenon DEF MapFollowsTree

(* However items are added, deleted and sorted, as long as no item is      *)
(* added where the walk of _AddItem misses some, the map of a TREE follows *)
(* the tree of win32: behind each item are those below it and no others,   *)
(* so that _DeleteItem takes out what win32 deletes, and what is told to   *)
(* the program of an item is its own.                                      *)
THEOREM TreeMapFollows == ~DeepAdds => (TreeSpec => []MapFollowsTree)
<1> SUFFICES ASSUME ~DeepAdds PROVE TreeSpec => []MapFollowsTree
  OBVIOUS
<1>1. TreeSpec => []TreeInv
  BY TreeIsInvariant
<1>2. TreeInv => MapFollowsTree
  BY InvMapFollowsTree
<1> QED
  BY <1>1, <1>2, PTL

-----------------------------------------------------------------------------
(* The arrays implement ItemTree. *)
PlaceIn(m, h) == CHOOSE p \in DOMAIN m : m[p] = h
NodesOf(t, m, ids, pic, car) ==
  [h \in {m[p] : p \in DOMAIN m} |->
     [parent |-> TreeView_GetParent(t, h),
      id |-> IF ids THEN pic[PlaceIn(m, h)] ELSE 0,
      cargo |-> car[PlaceIn(m, h)]]]

LEMMA TreeNodesAre ==
  /\ TreeNodes = NodesOf(children, pageMap, itemIds, picture, headClick)
  /\ TreeNodes' = NodesOf(children', pageMap', itemIds', picture', headClick')
  BY DEF TreeNodes, NodesOf, ItemAt, PlaceIn

LEMMA NodesAre ==
  ASSUME NEW D, NEW m, IsMapOf(m, D), NEW t, NEW ids, NEW pic, NEW car,
         NEW a, a = NodesOf(t, m, ids, pic, car)
  PROVE  /\ \A x : x \in DOMAIN a <=> x \in D
         /\ \A k \in DOMAIN m :
              a[m[k]] = [parent |-> TreeView_GetParent(t, m[k]),
                         id |-> IF ids THEN pic[k] ELSE 0, cargo |-> car[k]]
<1>1. /\ \A k \in DOMAIN m : m[k] \in D
      /\ \A x \in D : \E k \in DOMAIN m : m[k] = x
      /\ \A j, k \in DOMAIN m : m[j] = m[k] => j = k
  BY DEF IsMapOf
<1>2. \A x : x \in DOMAIN a <=> \E k \in DOMAIN m : m[k] = x
  BY DEF NodesOf
<1>3. ASSUME NEW k \in DOMAIN m
      PROVE  a[m[k]] = [parent |-> TreeView_GetParent(t, m[k]),
                        id |-> IF ids THEN pic[k] ELSE 0, cargo |-> car[k]]
  <2>1. PlaceIn(m, m[k]) = k
    BY <1>1 DEF PlaceIn
  <2>2. m[k] \in {m[p] : p \in DOMAIN m}
    OBVIOUS
  <2>3. a[m[k]] = [parent |-> TreeView_GetParent(t, m[k]),
                   id |-> IF ids THEN pic[PlaceIn(m, m[k])] ELSE 0, cargo |-> car[PlaceIn(m, m[k])]]
    BY <2>2 DEF NodesOf
  <2> QED
    BY <2>1, <2>3
<1> QED
  BY <1>1, <1>2, <1>3

SameParents(S, t, u) == \A x \in S : TreeView_GetParent(u, x) = TreeView_GetParent(t, x)

(* A new item changes no other. *)
LEMMA GrownNodes ==
  ASSUME NEW D, NEW m, IsMapOf(m, D), NEW n, n \notin D, NEW at, at \in 1 .. Len(m) + 1,
         NEW t, NEW u, SameParents(D, t, u),
         NEW ids, NEW pic, NEW car, Len(pic) = Len(m), Len(car) = Len(m), NEW id, NEW c,
         NEW a, a = NodesOf(t, m, ids, pic, car),
         NEW b, b = NodesOf(u, Inserted(m, at, n), ids, Inserted(pic, at, id), Inserted(car, at, c))
  PROVE  /\ \A x : x \in DOMAIN a <=> x \in D
         /\ \A x : x \in DOMAIN b <=> x \in D \/ x = n
         /\ \A x \in D : b[x] = a[x]
         /\ b[n] = [parent |-> TreeView_GetParent(u, n), id |-> IF ids THEN id ELSE 0, cargo |-> c]
<1> DEFINE r == Inserted(m, at, n)
           s == Inserted(pic, at, id)
           v == Inserted(car, at, c)
           N == Len(m)
<1>1. N \in Nat /\ DOMAIN m = 1 .. N /\ \A k \in 1 .. N : m[k] \in D
  BY MapCount DEF IsMapOf
<1>2. IsMapOf(r, D \cup {n})
  BY InsertedMap
<1>3. /\ DOMAIN r = 1 .. N + 1
      /\ \A j \in 1 .. N + 1 : r[j] = IF j < at THEN m[j] ELSE IF j = at THEN n ELSE m[j - 1]
      /\ \A j \in 1 .. N + 1 : s[j] = IF j < at THEN pic[j] ELSE IF j = at THEN id ELSE pic[j - 1]
      /\ \A j \in 1 .. N + 1 : v[j] = IF j < at THEN car[j] ELSE IF j = at THEN c ELSE car[j - 1]
  BY DEF Inserted
<1> HIDE DEF r, s, v, N
<1>4. /\ \A x : x \in DOMAIN a <=> x \in D
      /\ \A k \in 1 .. N : a[m[k]] = [parent |-> TreeView_GetParent(t, m[k]),
                                      id |-> IF ids THEN pic[k] ELSE 0, cargo |-> car[k]]
  BY <1>1, NodesAre
<1>5. /\ \A x : x \in DOMAIN b <=> x \in D \cup {n}
      /\ \A k \in 1 .. N + 1 : b[r[k]] = [parent |-> TreeView_GetParent(u, r[k]),
                                          id |-> IF ids THEN s[k] ELSE 0, cargo |-> v[k]]
  <2> DEFINE E == D \cup {n}
  <2>1. IsMapOf(r, E) /\ b = NodesOf(u, r, ids, s, v)
    BY <1>2 DEF r, s, v
  <2> HIDE DEF E
  <2>2. /\ \A x : x \in DOMAIN b <=> x \in E
        /\ \A k \in DOMAIN r : b[r[k]] = [parent |-> TreeView_GetParent(u, r[k]),
                                        id |-> IF ids THEN s[k] ELSE 0, cargo |-> v[k]]
    BY ONLY <2>1, NodesAre
  <2> QED
    BY <2>2, <1>3 DEF E
<1>6. at \in 1 .. N + 1
  BY DEF N
<1>7. b[n] = [parent |-> TreeView_GetParent(u, n), id |-> IF ids THEN id ELSE 0, cargo |-> c]
  <2>1. r[at] = n /\ s[at] = id /\ v[at] = c
    BY <1>1, <1>3, <1>6
  <2> QED
    BY <2>1, <1>5, <1>6
<1>8. ASSUME NEW x \in D PROVE b[x] = a[x]
  <2>1. PICK k \in 1 .. N : m[k] = x
    BY <1>1 DEF IsMapOf
  <2> DEFINE j == IF k < at THEN k ELSE k + 1
  <2>2. j \in 1 .. N + 1 /\ r[j] = m[k] /\ s[j] = pic[k] /\ v[j] = car[k]
    <3>1. CASE k < at
      BY <3>1, <1>1, <1>3
    <3>2. CASE ~(k < at)
      <4>1. k + 1 \in 1 .. N + 1 /\ ~(k + 1 < at) /\ k + 1 # at /\ k + 1 - 1 = k
        BY <3>2, <1>1, <1>6
      <4> QED
        BY <4>1, <3>2, <1>3
    <3> QED
      BY <3>1, <3>2
  <2> HIDE DEF j
  <2>3. b[r[j]] = [parent |-> TreeView_GetParent(u, r[j]), id |-> IF ids THEN s[j] ELSE 0, cargo |-> v[j]]
    BY <2>2, <1>5
  <2>4. b[x] = [parent |-> TreeView_GetParent(t, x), id |-> IF ids THEN pic[k] ELSE 0, cargo |-> car[k]]
    BY <2>1, <2>2, <2>3 DEF SameParents
  <2>5. a[x] = [parent |-> TreeView_GetParent(t, x), id |-> IF ids THEN pic[k] ELSE 0, cargo |-> car[k]]
    BY <2>1, <1>4
  <2> QED
    BY <2>4, <2>5
<1> QED
  BY <1>4, <1>5, <1>7, <1>8

(* The items that are left stay what they are. *)
LEMMA CutNodes ==
  ASSUME NEW D, NEW m, IsMapOf(m, D), NEW p, NEW d, p \in 1 .. Len(m), d \in Nat, p + d <= Len(m) + 1,
         NEW E, IsMapOf(Removed(m, p, d), E),
         NEW t, NEW u, SameParents(E, t, u),
         NEW ids, NEW pic, NEW qic, NEW car, Len(pic) = Len(m), Len(car) = Len(m),
         ids => qic = Removed(pic, p, d),
         NEW a, a = NodesOf(t, m, ids, pic, car),
         NEW b, b = NodesOf(u, Removed(m, p, d), ids, qic, Removed(car, p, d))
  PROVE  /\ \A x : x \in DOMAIN a <=> x \in D
         /\ \A x : x \in DOMAIN b <=> x \in E
         /\ \A x \in E : b[x] = a[x]
<1> DEFINE r == Removed(m, p, d)
           s == Removed(pic, p, d)
           v == Removed(car, p, d)
           N == Len(m)
<1>1. N \in Nat /\ DOMAIN m = 1 .. N /\ p \in 1 .. N
  BY MapCount
<1>2. IsMapOf(r, E)
  OBVIOUS
<1>3. /\ DOMAIN r = 1 .. N - d
      /\ \A j \in 1 .. N - d : r[j] = m[IF j < p THEN j ELSE j + d]
      /\ \A j \in 1 .. N - d : s[j] = pic[IF j < p THEN j ELSE j + d]
      /\ \A j \in 1 .. N - d : v[j] = car[IF j < p THEN j ELSE j + d]
  BY DEF Removed
<1>4. b = NodesOf(u, r, ids, qic, v) /\ (ids => qic = s)
  OBVIOUS
<1>5. p + d <= N + 1
  OBVIOUS
<1> HIDE DEF r, s, v, N
<1>6. /\ \A x : x \in DOMAIN a <=> x \in D
      /\ \A k \in 1 .. N : a[m[k]] = [parent |-> TreeView_GetParent(t, m[k]),
                                      id |-> IF ids THEN pic[k] ELSE 0, cargo |-> car[k]]
  BY <1>1, NodesAre
<1>7. /\ \A x : x \in DOMAIN b <=> x \in E
      /\ \A k \in 1 .. N - d : b[r[k]] = [parent |-> TreeView_GetParent(u, r[k]),
                                          id |-> IF ids THEN qic[k] ELSE 0, cargo |-> v[k]]
  <2>1. IsMapOf(r, E) /\ b = NodesOf(u, r, ids, qic, v)
    BY <1>2, <1>4
  <2>2. /\ \A x : x \in DOMAIN b <=> x \in E
        /\ \A k \in DOMAIN r : b[r[k]] = [parent |-> TreeView_GetParent(u, r[k]),
                                        id |-> IF ids THEN qic[k] ELSE 0, cargo |-> v[k]]
    BY ONLY <2>1, NodesAre
  <2> QED
    BY <2>2, <1>3
<1>8. ASSUME NEW x \in E PROVE b[x] = a[x]
  <2>1. PICK j \in 1 .. N - d : r[j] = x
    BY <1>2, <1>3 DEF IsMapOf
  <2> DEFINE k == IF j < p THEN j ELSE j + d
  <2>2. k \in 1 .. N
    BY <1>1, <1>5
  <2>3. r[j] = m[k] /\ s[j] = pic[k] /\ v[j] = car[k]
    BY <1>3
  <2> HIDE DEF k
  <2>4. b[x] = [parent |-> TreeView_GetParent(u, x), id |-> IF ids THEN qic[j] ELSE 0, cargo |-> v[j]]
    BY <2>1, <1>7
  <2>5. (IF ids THEN qic[j] ELSE 0) = (IF ids THEN pic[k] ELSE 0)
    BY <2>3, <1>4
  <2>6. a[x] = [parent |-> TreeView_GetParent(t, x), id |-> IF ids THEN pic[k] ELSE 0, cargo |-> car[k]]
    BY <2>1, <2>2, <2>3, <1>6
  <2> QED
    BY <2>3, <2>4, <2>5, <2>6 DEF SameParents
<1> QED
  BY <1>6, <1>7, <1>8

LEMMA NodeAdded ==
  ASSUME TreeInv, NEW q \in DOMAIN children, NEW id \in NewIds, NEW node \in BOOLEAN,
         NEW cargo \in {NIL, 1}, NEW at, GrowsAt(q, id, node, cargo, at)
  PROVE  Forest!ForestNext
<1> DEFINE n == NewItem
           a == TreeNodes
           b == TreeNodes'
           D == LiveItems
           t == children
           u == children'
           m == pageMap
           N == Len(pageMap)
<1>1. /\ id \in Nat /\ (itemIds => id # 0 /\ id \notin Elements(picture)) /\ (~itemIds => id = 0)
  BY NewIdsAre
<1>2. /\ n \notin DOMAIN t
      /\ \A x \in D : TreeView_GetParent(u, x) = TreeView_GetParent(t, x)
      /\ TreeView_GetParent(u, n) = q
  BY <1>1, GrowKeeps DEF GrowsAt
<1>3. IsMapOf(m, D) /\ N \in Nat /\ DOMAIN m = 1 .. N
  BY MapCount DEF TreeInv
<1>4. Len(picture) = N /\ Len(headClick) = N /\ picture \in Seq(Nat) /\ itemIds' = itemIds
  BY DEF TreeInv, TreeTypes, GrowsAt
<1>5. at \in 1 .. N + 1 /\ n \notin D /\ n \in TreeHandles
  BY <1>2 DEF GrowsAt, EndsBranch, LiveItems, AddTreeItem
<1>6. a = NodesOf(t, m, itemIds, picture, headClick)
  BY TreeNodesAre
<1>7. b = NodesOf(u, Inserted(m, at, n), itemIds, Inserted(picture, at, id), Inserted(headClick, at, cargo))
  BY <1>4, TreeNodesAre DEF GrowsAt
<1>8. D \cup {0} = DOMAIN t
  <2>1. 0 \in DOMAIN t
    BY DEF TreeInv, IsForest
  <2> QED
    BY <2>1 DEF LiveItems
<1>9. \A k \in 1 .. N : m[k] \in D
  BY <1>3 DEF IsMapOf
<1>10. \A x \in D : \E k \in 1 .. N : m[k] = x
  BY <1>3 DEF IsMapOf
<1> HIDE DEF n, a, b, D, t, u, m, N
<1>11. /\ \A x : x \in DOMAIN a <=> x \in D
       /\ \A x : x \in DOMAIN b <=> x \in D \/ x = n
       /\ \A x \in D : b[x] = a[x]
       /\ b[n] = [parent |-> TreeView_GetParent(u, n), id |-> IF itemIds THEN id ELSE 0, cargo |-> cargo]
  <2>1. /\ IsMapOf(m, D) /\ n \notin D /\ at \in 1 .. Len(m) + 1
        /\ SameParents(D, t, u) /\ Len(picture) = Len(m) /\ Len(headClick) = Len(m)
        /\ a = NodesOf(t, m, itemIds, picture, headClick)
        /\ b = NodesOf(u, Inserted(m, at, n), itemIds, Inserted(picture, at, id), Inserted(headClick, at, cargo))
    BY <1>2, <1>3, <1>4, <1>5, <1>6, <1>7 DEF N, m, SameParents
  <2> QED
    BY ONLY <2>1, GrownNodes
<1>12. ASSUME itemIds, NEW x \in D PROVE a[x].id # id
  <2>1. PICK k \in 1 .. N : m[k] = x
    BY <1>10
  <2>2. a[m[k]] = [parent |-> TreeView_GetParent(t, m[k]),
                   id |-> IF itemIds THEN picture[k] ELSE 0, cargo |-> headClick[k]]
    BY <1>3, <1>6, NodesAre
  <2>3. a[x].id = picture[k]
    BY <2>1, <2>2, <1>12
  <2>4. picture[k] \in Elements(picture)
    BY <1>4 DEF Elements
  <2> QED
    BY <2>3, <2>4, <1>1, <1>12
<1>13. /\ b[n].cargo \in {NIL, 1} /\ b[n].parent \in DOMAIN a \cup {0}
       /\ b[n].id = 0 \/ \A x \in DOMAIN a : a[x].id # b[n].id
  <2>1. b[n].cargo = cargo /\ b[n].parent = q /\ b[n].id = IF itemIds THEN id ELSE 0
    BY <1>2, <1>11
  <2>2. q \in D \cup {0}
    BY <1>8 DEF t
  <2> QED
    BY <2>1, <2>2, <1>11, <1>12
<1>14. DOMAIN b = DOMAIN a \cup {n} /\ n \in DOMAIN b \ DOMAIN a /\ n \in TreeHandles \ DOMAIN a
  BY <1>5, <1>11
<1>15. \A x \in DOMAIN a : b[x] = a[x]
  BY <1>11
<1>16. Forest!AddNode(n)
  BY <1>13, <1>14, <1>15 DEF Forest!AddNode, Forest!Present, a, b
<1> QED
  BY <1>14, <1>16 DEF Forest!ForestNext, Forest!Present, a, b

(* A step of the forest, or none. *)
ForestStep == Forest!ForestNext \/ TreeNodes' = TreeNodes

LEMMA DefineIsStep ==
  ASSUME TreeInv, NEW id \in NewIds, NEW cargo \in SomeCargo,
         DefineTreeNode(id, cargo) \/ DefineTreeItem(id, cargo)
  PROVE  ForestStep
<1> DEFINE q == openNodes[Len(openNodes)]
<1>1. openNodes # <<>> /\ AppendItem(id, cargo)
  BY DEF DefineTreeNode, DefineTreeItem
<1>2. AddTreeItem(q, id, TRUE) \/ AddTreeItem(q, id, FALSE)
  BY DEF DefineTreeNode, DefineTreeItem
<1>3. PICK node \in BOOLEAN : AddTreeItem(q, id, node)
  BY <1>2
<1>4. q \in DOMAIN children /\ AtTheEnd(pageMap, Above(children), q)
  BY <1>1, OpenNodeAtTheEnd
<1>5. cargo \in {NIL, 1}
  BY DEF SomeCargo
<1> HIDE DEF q
<1>6. PICK at : GrowsAt(q, id, node, cargo, at)
  BY <1>1, <1>3, <1>4, <1>5, AppendGrows
<1> QED
  BY <1>4, <1>5, <1>6, NodeAdded DEF ForestStep

LEMMA AddRootIsStep ==
  ASSUME TreeInv, NEW id \in NewIds, AddRootItem(id)
  PROVE  ForestStep
<1> DEFINE q == 0
           c == NIL
           node == FALSE
<1>1. /\ AddTreeItem(q, id, node) /\ AppendItem(id, c) /\ node \in BOOLEAN /\ c \in {NIL, 1}
      /\ q \in DOMAIN children /\ AtTheEnd(pageMap, Above(children), q)
  BY RootAtTheEnd DEF AddRootItem
<1> HIDE DEF q, c, node
<1>2. PICK at : GrowsAt(q, id, node, c, at)
  BY <1>1, AppendGrows
<1> QED
  BY <1>1, <1>2, NodeAdded DEF ForestStep

LEMMA AddItemIsStep ==
  ASSUME TreeInv, ~DeepAdds, NEW value, NEW id \in NewIds, AddItem(value, id)
  PROVE  ForestStep
<1>1. PICK p, q, at : AddedBehind(p, q, at, id)
  BY AddItemIs
<1> DEFINE c == NIL
           node == FALSE
<1>2. /\ GrowsAt(q, id, node, c, at) /\ node \in BOOLEAN /\ c \in {NIL, 1}
      /\ q \in DOMAIN children
  BY <1>1 DEF AddedBehind, GrowsAt, LiveItems
<1> HIDE DEF c, node
<1> QED
  BY <1>2, NodeAdded DEF ForestStep

LEMMA PresentItems ==
  ASSUME TreeInv
  PROVE  /\ \A x : x \in DOMAIN TreeNodes <=> x \in LiveItems
         /\ \A k \in DOMAIN pageMap :
              TreeNodes[pageMap[k]] = [parent |-> TreeView_GetParent(children, pageMap[k]),
                                       id |-> IF itemIds THEN picture[k] ELSE 0, cargo |-> headClick[k]]
         /\ \A x \in LiveItems : TreeNodes[x].parent = TreeView_GetParent(children, x)
<1>1. IsMapOf(pageMap, LiveItems) /\ TreeNodes = NodesOf(children, pageMap, itemIds, picture, headClick)
  BY TreeNodesAre DEF TreeInv
<1>2. /\ \A x : x \in DOMAIN TreeNodes <=> x \in LiveItems
      /\ \A k \in DOMAIN pageMap :
           TreeNodes[pageMap[k]] = [parent |-> TreeView_GetParent(children, pageMap[k]),
                                    id |-> IF itemIds THEN picture[k] ELSE 0, cargo |-> headClick[k]]
  BY ONLY <1>1, NodesAre
<1>3. \A x \in LiveItems : \E k \in DOMAIN pageMap : pageMap[k] = x
  BY <1>1 DEF IsMapOf
<1>4. ASSUME NEW x \in LiveItems PROVE TreeNodes[x].parent = TreeView_GetParent(children, x)
  <2>1. PICK k \in DOMAIN pageMap : pageMap[k] = x
    BY <1>3
  <2>2. TreeNodes[x] = [parent |-> TreeView_GetParent(children, x),
                        id |-> IF itemIds THEN picture[k] ELSE 0, cargo |-> headClick[k]]
    BY <2>1, <1>2
  <2> QED
    BY ONLY <2>2
<1> QED
  BY <1>2, <1>4

(* What is under an item is its branch. *)
LEMMA UnderIsBranch ==
  ASSUME TreeInv, NEW x \in LiveItems
  PROVE  Forest!Under(x) = Branch(children, x)
<1> DEFINE D == LiveItems
           t == children
           up == Above(t)
           P(y) == TreeView_GetParent(t, y)
           B == Branch(t, x)
           Closed(S) == \A k \in D : P(k) \in S => k \in S
           U == {j \in D : \A S \in SUBSET D : x \in S /\ Closed(S) => j \in S}
           n == TreeNodes
<1>1. (\A y : y \in DOMAIN n <=> y \in D) /\ \A y \in D : n[y].parent = P(y)
  BY PresentItems
<1>2. DOMAIN n = D
  <2> HIDE DEF n, D
  <2> QED
    BY <1>1
<1>3. Forest!Under(x) = {j \in DOMAIN n : \A S \in SUBSET DOMAIN n :
        x \in S /\ (\A k \in DOMAIN n : n[k].parent \in S => k \in S) => j \in S}
  BY Zenon DEF Forest!Under, Forest!Present
<1>4. Forest!Under(x) = U
  <2>1. \A S : (\A k \in D : n[k].parent \in S => k \in S) <=> Closed(S)
    BY <1>1
  <2> HIDE DEF n, D, P
  <2>2. Forest!Under(x) = {j \in D : \A S \in SUBSET D :
          x \in S /\ (\A k \in D : n[k].parent \in S => k \in S) => j \in S}
    BY <1>2, <1>3
  <2> QED
    BY <2>1, <2>2
<1>5. IsForest(t) /\ \A y : y \in D <=> y \in DOMAIN t \ {0}
  BY DEF TreeInv, LiveItems
<1>6. /\ up[0] = {0} /\ \A y \in D : up[y] = {y} \cup up[P(y)] /\ P(y) \in DOMAIN t /\ P(y) < y /\ y \in Nat
  <2>1. up[0] = {0} /\ \A y \in DOMAIN t \ {0} : up[y] = {y} \cup up[P(y)]
    BY <1>5, AboveIsUp DEF Hierarchy, ParentIn
  <2>2. \A y \in DOMAIN t \ {0} : P(y) \in DOMAIN t /\ P(y) < y /\ y \in Nat
    BY <1>5, ParentOf DEF IsForest
  <2> HIDE DEF D, P, up
  <2> QED
    BY <2>1, <2>2, <1>5
<1>7. \A y : y \in B <=> y \in D /\ x \in up[y]
  <2>1. x # 0
    BY DEF LiveItems
  <2> HIDE DEF D, up
  <2> QED
    BY <2>1, <1>5, <1>6 DEF Branch, up
<1>8. x \in B
  BY <1>6, <1>7
<1> HIDE DEF D, t, up, P, B
<1>9. ASSUME NEW j \in U PROVE j \in B
  <2>1. B \in SUBSET D
    BY <1>7
  <2>2. Closed(B)
    <3> SUFFICES ASSUME NEW k \in D, P(k) \in B PROVE k \in B
      OBVIOUS
    <3>1. x \in up[P(k)]
      BY <1>7
    <3>2. x \in up[k]
      BY <3>1, <1>6
    <3> QED
      BY <3>2, <1>7
  <2> HIDE DEF Closed
  <2> QED
    BY <2>1, <2>2, <1>8
<1>10. ASSUME NEW j \in B, j \notin U PROVE FALSE
  <2>1. j \in D
    BY <1>7
  <2>2. PICK S \in SUBSET D : x \in S /\ Closed(S) /\ j \notin S
    BY <2>1, <1>10
  <2> DEFINE T == {y \in B : y \notin S}
  <2>3. PICK y \in T : \A z \in T : y <= z
    <3>1. T \subseteq Nat /\ j \in T
      BY <2>2, <1>6, <1>7
    <3> HIDE DEF T
    <3> QED
      BY <3>1, LeastNat
  <2>4. y \in B /\ y \notin S /\ y \in D /\ x \in up[y]
    BY <1>7
  <2>5. y # x
    BY <2>2, <2>4
  <2>6. up[y] = {y} \cup up[P(y)] /\ P(y) \in DOMAIN t /\ P(y) < y /\ y \in Nat
    BY <2>4, <1>6
  <2>7. x \in up[P(y)]
    BY <2>4, <2>5, <2>6
  <2>8. P(y) # 0
    <3>1. x # 0
      BY <1>5, <1>7, <1>8
    <3> QED
      BY <3>1, <2>7, <1>6
  <2>9. P(y) \in B /\ P(y) \in Nat
    <3>1. P(y) \in D
      BY <2>6, <2>8, <1>5
    <3> QED
      BY <3>1, <2>7, <1>6, <1>7
  <2>10. P(y) \notin S
    BY <2>2, <2>4
  <2>11. P(y) \in T
    BY <2>9, <2>10
  <2>12. \A z \in T : y <= z
    BY <2>3
  <2> HIDE DEF T
  <2>13. y <= P(y)
    BY <2>11, <2>12
  <2> QED
    BY <2>6, <2>9, <2>13
<1>11. U = B
  <2>1. \A j \in U : j \in B
    BY <1>9
  <2>2. \A j \in B : j \in U
    BY <1>10
  <2> HIDE DEF U
  <2> QED
    BY <2>1, <2>2
<1> QED
  BY <1>4, <1>11 DEF B, t

LEMMA DeleteIsStep ==
  ASSUME TreeInv, NEW value, DeleteItem(value)
  PROVE  ForestStep
<1>0. PICK p, d : DeletedAt(p, d)
  BY DeleteItemIs
<1> DEFINE x == pageMap[p]
           B == Branch(children, x)
           D == LiveItems
           E == LiveItems'
           a == TreeNodes
           b == TreeNodes'
           t == children
           u == children'
           m == pageMap
<1>1. /\ p \in DOMAIN m /\ d \in Nat /\ p + d <= Len(m) + 1
      /\ m' = Removed(m, p, d) /\ headClick' = Removed(headClick, p, d)
      /\ (itemIds => picture' = Removed(picture, p, d)) /\ itemIds' = itemIds
  BY <1>0 DEF DeletedAt
<1>2. /\ TreeInv' /\ E = D \ B
      /\ \A y \in E : TreeView_GetParent(u, y) = TreeView_GetParent(t, y)
  BY <1>0, DeletedKeeps
<1>3. /\ IsMapOf(m, D) /\ DOMAIN m = 1 .. Len(m) /\ Len(picture) = Len(m) /\ Len(headClick) = Len(m)
  BY MapCount DEF TreeInv, TreeTypes
<1>4. IsMapOf(Removed(m, p, d), E)
  BY <1>1, <1>2 DEF TreeInv
<1>5. a = NodesOf(t, m, itemIds, picture, headClick)
  BY TreeNodesAre
<1>6. b = NodesOf(u, Removed(m, p, d), itemIds, picture', Removed(headClick, p, d))
  BY <1>1, TreeNodesAre
<1>7. x \in D
  BY <1>1, <1>3 DEF IsMapOf
<1>8. Forest!Under(x) = B
  BY <1>7, UnderIsBranch
<1>9. x \in B
  BY <1>7, AboveFacts DEF TreeInv, LiveItems, Branch
<1> HIDE DEF x, B, D, E, a, b, t, u, m
<1>10. /\ \A y : y \in DOMAIN a <=> y \in D
       /\ \A y : y \in DOMAIN b <=> y \in E
       /\ \A y \in E : b[y] = a[y]
  <2> DEFINE qic == picture'
  <2>1. /\ IsMapOf(m, D) /\ p \in 1 .. Len(m) /\ d \in Nat /\ p + d <= Len(m) + 1
        /\ IsMapOf(Removed(m, p, d), E) /\ SameParents(E, t, u)
        /\ Len(picture) = Len(m) /\ Len(headClick) = Len(m)
        /\ (itemIds => qic = Removed(picture, p, d))
        /\ a = NodesOf(t, m, itemIds, picture, headClick)
        /\ b = NodesOf(u, Removed(m, p, d), itemIds, qic, Removed(headClick, p, d))
    BY <1>1, <1>2, <1>3, <1>4, <1>5, <1>6 DEF SameParents
  <2> HIDE DEF qic
  <2> QED
    BY ONLY <2>1, CutNodes
<1>11. DOMAIN b = DOMAIN a \ B /\ x \in DOMAIN a \ DOMAIN b
  BY <1>2, <1>7, <1>9, <1>10
<1>12. b = [i \in DOMAIN a \ B |-> a[i]]
  <2>1. b = [i \in DOMAIN b |-> b[i]]
    BY TreeNodesAre DEF b, TreeNodes
  <2> QED
    BY <2>1, <1>10, <1>11
<1>13. Forest!RemoveNode(x)
  BY <1>8, <1>12, Zenon DEF Forest!RemoveNode, Forest!Restricted, Forest!Present, a, b
<1>14. x \in DOMAIN TreeNodes \ DOMAIN TreeNodes'
  BY <1>11 DEF a, b
<1>15. Forest!ForestNext
  BY <1>13, <1>14 DEF Forest!ForestNext, Forest!Present
<1> QED
  BY <1>15 DEF ForestStep

LEMMA SetCargoIsStep ==
  ASSUME TreeInv, NEW value, NEW cargo, SetItemCargo(value, cargo)
  PROVE  ForestStep
<1> DEFINE p == ItemPosition(value)
           x == pageMap[p]
           a == TreeNodes
           b == TreeNodes'
           D == LiveItems
           N == Len(pageMap)
<1>1. /\ Cardinality(D) = N /\ N \in Nat /\ DOMAIN pageMap = 1 .. N
      /\ \A k \in 1 .. N : pageMap[k] \in D
      /\ \A y \in D : \E k \in 1 .. N : pageMap[k] = y
      /\ \A j, k \in 1 .. N : pageMap[j] = pageMap[k] => j = k
  BY MapCount DEF TreeInv, IsMapOf
<1>2. headClick \in Seq({NIL, 1}) /\ Len(headClick) = N /\ DOMAIN headClick = 1 .. N
  BY DEF TreeInv, TreeTypes
<1>3. /\ p \in 1 .. N /\ cargo \in {NIL, 1} /\ headClick[p] # cargo
      /\ headClick' = [headClick EXCEPT ![p] = cargo]
      /\ UNCHANGED <<itemIds, openNodes, children, made, lparam, pageMap, picture, treeError>>
  BY <1>1 DEF SetItemCargo, IsItem, TreeView_GetCount, SomeCargo
<1> HIDE DEF p
<1>4. /\ \A y : y \in DOMAIN a <=> y \in D
      /\ \A k \in 1 .. N : a[pageMap[k]] = [parent |-> TreeView_GetParent(children, pageMap[k]),
                                            id |-> IF itemIds THEN picture[k] ELSE 0, cargo |-> headClick[k]]
  BY <1>1, PresentItems
<1>5. /\ \A y : y \in DOMAIN b <=> y \in D
      /\ \A k \in 1 .. N : b[pageMap[k]] = [parent |-> TreeView_GetParent(children, pageMap[k]),
                                            id |-> IF itemIds THEN picture[k] ELSE 0, cargo |-> headClick'[k]]
  <2> DEFINE car == headClick'
             m == pageMap
  <2>1. IsMapOf(m, D) /\ b = NodesOf(children, m, itemIds, picture, car)
    BY <1>3, TreeNodesAre DEF TreeInv
  <2>2. DOMAIN m = 1 .. N
    BY <1>1
  <2> HIDE DEF car, m, b, D, N
  <2>3. /\ \A y : y \in DOMAIN b <=> y \in D
        /\ \A k \in DOMAIN m : b[m[k]] = [parent |-> TreeView_GetParent(children, m[k]),
                                          id |-> IF itemIds THEN picture[k] ELSE 0, cargo |-> car[k]]
    BY ONLY <2>1, NodesAre
  <2> QED
    BY <2>2, <2>3 DEF m, car
<1>6. x \in D
  BY <1>1, <1>3
<1> HIDE DEF x, a, b, D, N
<1>7. b[x].cargo = cargo /\ a[x].cargo # cargo
  <2>1. headClick'[p] = cargo
    BY <1>2, <1>3
  <2>2. /\ a[x] = [parent |-> TreeView_GetParent(children, x),
                   id |-> IF itemIds THEN picture[p] ELSE 0, cargo |-> headClick[p]]
        /\ b[x] = [parent |-> TreeView_GetParent(children, x),
                   id |-> IF itemIds THEN picture[p] ELSE 0, cargo |-> headClick'[p]]
    BY <1>3, <1>4, <1>5 DEF x
  <2>3. b[x].cargo = headClick'[p] /\ a[x].cargo = headClick[p]
    BY ONLY <2>2
  <2> QED
    BY <2>1, <2>3, <1>3
<1>8. ASSUME NEW y \in D PROVE b[y] = IF y = x THEN [a[y] EXCEPT !.cargo = cargo] ELSE a[y]
  <2>1. PICK k \in 1 .. N : pageMap[k] = y
    BY <1>1
  <2>2. CASE y = x
    <3>1. k = p
      BY <2>1, <2>2, <1>1, <1>3 DEF x
    <3>2. b[y] = [parent |-> TreeView_GetParent(children, y),
                  id |-> IF itemIds THEN picture[k] ELSE 0, cargo |-> cargo]
      BY <2>1, <3>1, <1>2, <1>3, <1>5
    <3>3. a[y] = [parent |-> TreeView_GetParent(children, y),
                  id |-> IF itemIds THEN picture[k] ELSE 0, cargo |-> headClick[k]]
      BY <2>1, <1>4
    <3>4. [a[y] EXCEPT !.cargo = cargo]
            = [parent |-> TreeView_GetParent(children, y),
               id |-> IF itemIds THEN picture[k] ELSE 0, cargo |-> cargo]
      BY ONLY <3>3
    <3> QED
      BY <2>2, <3>2, <3>4
  <2>3. CASE y # x
    <3>1. k # p
      BY <2>1, <2>3, <1>1, <1>3 DEF x
    <3>2. headClick'[k] = headClick[k]
      BY <3>1, <1>2, <1>3
    <3>3. b[y] = a[y]
      BY <2>1, <3>2, <1>4, <1>5
    <3> QED
      BY <2>3, <3>3
  <2> QED
    BY <2>2, <2>3
<1>9. DOMAIN b = DOMAIN a /\ \A y \in DOMAIN a : y \in D
  BY <1>4, <1>5
<1>10. b = [a EXCEPT ![x].cargo = b[x].cargo]
  <2>1. b = [i \in DOMAIN b |-> b[i]]
    BY TreeNodesAre DEF b, TreeNodes
  <2>2. [a EXCEPT ![x].cargo = cargo] = [i \in DOMAIN a |-> IF i = x THEN [a[x] EXCEPT !.cargo = cargo] ELSE a[i]]
    <3>1. a = [i \in DOMAIN a |-> a[i]]
      BY DEF a, TreeNodes
    <3> QED
      BY <3>1
  <2>3. b = [i \in DOMAIN a |-> IF i = x THEN [a[x] EXCEPT !.cargo = cargo] ELSE a[i]]
    BY <2>1, <1>8, <1>9
  <2> QED
    BY <2>2, <2>3, <1>7
<1>11. b[x].cargo \in {NIL, 1} \ {a[x].cargo}
  BY <1>3, <1>7
<1>12. Forest!SetCargo(x)
  BY <1>10, <1>11 DEF Forest!SetCargo, a, b
<1>13. x \in DOMAIN TreeNodes /\ DOMAIN TreeNodes' = DOMAIN TreeNodes
  BY <1>4, <1>6, <1>9 DEF a, b
<1> QED
  BY <1>12, <1>13 DEF ForestStep, Forest!ForestNext, Forest!Present

LEMMA EmptiedIsStep ==
  ASSUME pageMap' = <<>>
  PROVE  ForestStep
<1>1. DOMAIN TreeNodes' = {}
  BY TreeNodesAre DEF NodesOf
<1>2. TreeNodes' = [i \in {} |-> TreeNodes[i]]
  <2>1. TreeNodes' = [i \in DOMAIN TreeNodes' |-> TreeNodes'[i]]
    BY TreeNodesAre DEF TreeNodes
  <2> QED
    BY <1>1, <2>1
<1>3. Forest!RemoveAll
  BY <1>2 DEF Forest!RemoveAll, Forest!Restricted
<1> QED
  BY <1>3 DEF ForestStep, Forest!ForestNext

LEMMA SameNodes ==
  ASSUME UNCHANGED <<itemIds, pageMap, picture, headClick>>,
         \A k \in DOMAIN pageMap : TreeView_GetParent(children', pageMap[k]) = TreeView_GetParent(children, pageMap[k])
  PROVE  ForestStep
<1>1. TreeNodes' = TreeNodes
  BY TreeNodesAre DEF NodesOf
<1> QED
  BY <1>1 DEF ForestStep

LEMMA ForestStarts == TreeInit => Forest!ForestInit
<1> SUFFICES ASSUME TreeInit PROVE Forest!ForestInit
  OBVIOUS
<1>1. DOMAIN TreeNodes = {}
  BY DEF TreeInit, TreeNodes
<1>2. TreeNodes = [i \in {} |-> TreeNodes[i]]
  <2>1. TreeNodes = [i \in DOMAIN TreeNodes |-> TreeNodes[i]]
    BY DEF TreeNodes
  <2> QED
    BY <1>1, <2>1
<1> QED
  BY <1>2 DEF Forest!ForestInit, Forest!Restricted

LEMMA EachTreeStep == ~DeepAdds /\ TreeInv /\ [TreeNext]_treeVars => [Forest!ForestNext]_TreeNodes
<1> SUFFICES ASSUME ~DeepAdds, TreeInv, [TreeNext]_treeVars PROVE ForestStep
  BY DEF ForestStep
<1>1. CASE UNCHANGED <<itemIds, children, pageMap, picture, headClick>>
  BY <1>1, SameNodes
<1>2. CASE TreeNext
  <2>1. ASSUME NEW id \in NewIds, NEW cargo \in SomeCargo,
               DefineTreeNode(id, cargo) \/ DefineTreeItem(id, cargo) PROVE ForestStep
    BY <2>1, DefineIsStep
  <2>2. ASSUME NEW id \in NewIds, AddRootItem(id) PROVE ForestStep
    BY <2>2, AddRootIsStep
  <2>3. ASSUME NEW id \in NewIds, NEW value, AddItem(value, id) PROVE ForestStep
    BY <2>3, AddItemIsStep
  <2>4. ASSUME NEW value, DeleteItem(value) PROVE ForestStep
    BY <2>4, DeleteIsStep
  <2>5. ASSUME NEW value, NEW cargo, SetItemCargo(value, cargo) PROVE ForestStep
    BY <2>5, SetCargoIsStep
  <2>6. ASSUME NEW h, NEW order \in SortOrders, SortItems(h, order) PROVE ForestStep
    <3>1. UNCHANGED <<itemIds, pageMap, picture, headClick>>
      BY <2>6 DEF SortItems
    <3>2. \A x \in LiveItems : TreeView_GetParent(children', x) = TreeView_GetParent(children, x)
      BY <2>6, SortItemsKeeps
    <3>3. \A k \in DOMAIN pageMap : pageMap[k] \in LiveItems
      BY DEF TreeInv, IsMapOf
    <3>4. \A k \in DOMAIN pageMap :
            TreeView_GetParent(children', pageMap[k]) = TreeView_GetParent(children, pageMap[k])
      BY <3>2, <3>3
    <3> QED
      BY <3>1, <3>4, SameNodes
  <2>7. ASSUME EndTreeNode \/ EndTree PROVE ForestStep
    BY <2>7, <1>1 DEF EndTreeNode, EndTree
  <2>8. ASSUME ItemError \/ DeleteAllItems PROVE ForestStep
    BY <2>8, EmptiedIsStep DEF ItemError, DeleteAllItems
  <2> QED
    BY <1>2, <2>1, <2>2, <2>3, <2>4, <2>5, <2>6, <2>7, <2>8 DEF TreeNext
<1> QED
  BY <1>1, <1>2 DEF treeVars

(* For any number of items, as long as none is added where the walk of     *)
(* _AddItem misses some: the arrays of a TREE tell of each item its        *)
(* parent, its id and its cargo as ItemTree does.  A command adds an item  *)
(* and changes no other, or takes one with all below it, or sets one       *)
(* cargo; sorting changes nothing.                                         *)
THEOREM TreeIsAForest == ~DeepAdds => (TreeSpec => ItemsAreATree)
<1> SUFFICES ASSUME ~DeepAdds PROVE TreeSpec => ItemsAreATree
  OBVIOUS
<1>1. TreeSpec => []TreeInv
  BY TreeIsInvariant
<1>2. TreeInit => Forest!ForestInit
  BY ForestStarts
<1>3. TreeInv /\ [TreeNext]_treeVars => [Forest!ForestNext]_TreeNodes
  BY EachTreeStep
<1> QED
  BY <1>1, <1>2, <1>3, PTL DEF TreeSpec, ItemsAreATree, Forest!ForestSpec
=============================================================================
