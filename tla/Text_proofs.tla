---------------------------- MODULE Text_proofs ----------------------------
(***************************************************************************)
(* The three libraries that write text.  A copy to the PostgreSQL server   *)
(* is all or nothing, for work areas of any size, any values and buffers   *)
(* of any length.  Base64 fits in its buffer and decodes to the string,    *)
(* for strings and lines of any length.  What the copy writes, what the    *)
(* server reads and what is left of base64 without its line breaks are     *)
(* folds over sequences; the first part proves how such a fold goes on     *)
(* with another element and over a concatenation.  A mail session of any   *)
(* length, with any number of recipients, sends and answer lines, reads    *)
(* the answers in step with its commands, a mail goes to the recipients of *)
(* its Send, and Send tells the truth.                                     *)
(***************************************************************************)
EXTENDS PgCopyProps, Base64Props, SmtpSessionProps, SequenceTheorems, FiniteSetTheorems,
        WellFoundedInduction, TLAPS

-----------------------------------------------------------------------------
(* Folding a sequence: the four folds of the model at once, told apart by *)
(* k, and the function on sets of indices by which a fold is defined.      *)
Step(k, x, c) ==
  IF k = "read" THEN NextChar(x, c) ELSE IF k = "double" THEN Doubled(x, c)
  ELSE IF k = "copy" THEN Copied(x, c) ELSE SkipBreak(x, c)

Folds(k, base, s, D, f) ==
  f = [S \in SUBSET D |->
         IF S = {} THEN base ELSE Step(k, f[S \ {Max(S)}], s[Max(S)])]

Upto(n) == 1 .. n

Fold(k, base, s) == (CHOOSE f : Folds(k, base, s, DOMAIN s, f))[DOMAIN s]

(* A set of natural numbers that is not empty has a least element.         *)
LEMMA LeastNat ==
  ASSUME NEW T, T \subseteq Nat, T # {}
  PROVE  \E x \in T : \A y \in T : x <= y
<1>1. PICK k \in T : \A j \in T : ~ (<<j, k>> \in OpToRel(<, Nat))
  BY WFMin, NatLessThanWellFounded
<1>2. \A j \in T : ~ (<<j, k>> \in {ss \in Nat \X Nat : ss[1] < ss[2]})
  BY ONLY <1>1, Zenon DEF OpToRel
<1>3. \A j \in T : ~ (j < k)
  BY <1>2
<1>4. \A j \in T : k <= j
  BY <1>3
<1> QED
  BY <1>4

(* Induction over the natural numbers, with a set in the place of a        *)
(* predicate.                                                              *)
LEMMA NatSets ==
  ASSUME NEW S, 0 \in S, \A n \in Nat : n \in S => n + 1 \in S
  PROVE  Nat \subseteq S
<1> SUFFICES ASSUME Nat \ S # {} PROVE FALSE
  OBVIOUS
<1>1. PICK x \in Nat \ S : \A y \in Nat \ S : x <= y
  <2>1. Nat \ S \subseteq Nat
    OBVIOUS
  <2> QED
    BY <2>1, LeastNat
<1>2. x - 1 \in Nat /\ x - 1 \notin Nat \ S
  BY <1>1
<1> QED
  BY <1>1, <1>2

(* The greatest index of a set of the first n + 1 that has the last one.   *)
LEMMA MaxIsLast ==
  ASSUME NEW n \in Nat, NEW S \in SUBSET (1 .. n + 1), n + 1 \in S
  PROVE  Max(S) = n + 1
<1>1. \A y \in S : n + 1 >= y
  OBVIOUS
<1>2. \A x \in S : (\A y \in S : x >= y) => x = n + 1
  OBVIOUS
<1> QED
  BY <1>1, <1>2 DEF Max

(* There is such a function, for the first n indices.                      *)
LEMMA FoldExists ==
  ASSUME NEW k, NEW base, NEW s, NEW m \in Nat
  PROVE  \E f : Folds(k, base, s, Upto(m), f)
<1> DEFINE I == {n \in Nat : \E f : Folds(k, base, s, 1 .. n, f)}
<1>1. 0 \in I
  <2> DEFINE f == [S \in SUBSET (1 .. 0) |-> base]
  <2>1. 1 .. 0 = {}
    OBVIOUS
  <2>2. Folds(k, base, s, 1 .. 0, f)
    BY <2>1 DEF Folds
  <2> QED
    BY <2>2
<1>2. ASSUME NEW n \in Nat, n \in I
      PROVE  n + 1 \in I
  <2>1. PICK f : Folds(k, base, s, 1 .. n, f)
    BY <1>2
  <2> DEFINE g == [S \in SUBSET (1 .. n + 1) |->
                     IF n + 1 \in S THEN Step(k, f[S \ {n + 1}], s[n + 1]) ELSE f[S]]
  <2>2. \A S \in SUBSET (1 .. n + 1) : n + 1 \notin S => S \in SUBSET (1 .. n)
    OBVIOUS
  <2>3. ASSUME NEW S \in SUBSET (1 .. n + 1)
        PROVE  g[S] = IF S = {} THEN base ELSE Step(k, g[S \ {Max(S)}], s[Max(S)])
    <3>1. CASE n + 1 \in S
      <4>1. Max(S) = n + 1
        BY <3>1, MaxIsLast
      <4>2. S \ {n + 1} \in SUBSET (1 .. n + 1) /\ n + 1 \notin S \ {n + 1}
        OBVIOUS
      <4>3. g[S \ {n + 1}] = f[S \ {n + 1}]
        BY <4>2
      <4>4. g[S] = Step(k, f[S \ {n + 1}], s[n + 1])
        BY <3>1
      <4> QED
        BY <3>1, <4>1, <4>3, <4>4
    <3>2. CASE n + 1 \notin S
      <4>1. S \in SUBSET (1 .. n)
        BY <3>2, <2>2
      <4>2. f[S] = IF S = {} THEN base ELSE Step(k, f[S \ {Max(S)}], s[Max(S)])
        BY <2>1, <4>1 DEF Folds
      <4>3. g[S] = f[S]
        BY <3>2
      <4>4. g[S \ {Max(S)}] = f[S \ {Max(S)}]
        BY <3>2
      <4> QED
        BY <4>2, <4>3, <4>4
    <3> QED
      BY <3>1, <3>2
  <2> DEFINE h == [S \in SUBSET (1 .. n + 1) |->
                     IF S = {} THEN base ELSE Step(k, g[S \ {Max(S)}], s[Max(S)])]
  <2>4. g = h
    <3>1. g = [S \in SUBSET (1 .. n + 1) |-> g[S]]
      OBVIOUS
    <3> HIDE DEF g
    <3> QED
      BY <3>1, <2>3
  <2>5. Folds(k, base, s, 1 .. n + 1, g)
    BY <2>4, Zenon DEF Folds, h
  <2> QED
    BY <2>5
<1>3. Nat \subseteq I
  <2> HIDE DEF I
  <2> QED
    BY <1>1, <1>2, NatSets
<1> QED
  BY <1>3 DEF Upto

(* The function on no index and on the first n + 1.                        *)
LEMMA FoldStart ==
  ASSUME NEW k, NEW base, NEW s, NEW m \in Nat, NEW f, Folds(k, base, s, Upto(m), f)
  PROVE  f[Upto(0)] = base
<1>1. ASSUME NEW S \in SUBSET (1 .. m)
      PROVE  f[S] = IF S = {} THEN base ELSE Step(k, f[S \ {Max(S)}], s[Max(S)])
  BY DEF Folds, Upto
<1>2. 1 .. 0 = {} /\ 1 .. 0 \in SUBSET (1 .. m)
  OBVIOUS
<1> QED
  BY <1>1, <1>2 DEF Upto

(* The function on one index more.                                         *)
LEMMA FoldFront ==
  ASSUME NEW k, NEW base, NEW s, NEW m \in Nat, NEW f, Folds(k, base, s, Upto(m), f),
         NEW n \in Nat, n + 1 <= m
  PROVE  f[Upto(n + 1)] = Step(k, f[Upto(n)], s[n + 1])
<1>1. ASSUME NEW S \in SUBSET (1 .. m)
      PROVE  f[S] = IF S = {} THEN base ELSE Step(k, f[S \ {Max(S)}], s[Max(S)])
  BY DEF Folds, Upto
<1>2. 1 .. n + 1 \in SUBSET (1 .. m) /\ n + 1 \in 1 .. n + 1
  OBVIOUS
<1>3. Max(1 .. n + 1) = n + 1
  BY <1>2, MaxIsLast
<1>4. (1 .. n + 1) \ {n + 1} = 1 .. n
  OBVIOUS
<1>5. 1 .. n + 1 # {}
  BY <1>2
<1> QED
  BY <1>1, <1>2, <1>3, <1>4, <1>5, Zenon DEF Upto

(* On the first n indices two sequences that begin alike fold alike.       *)
LEMMA FoldsAgree ==
  ASSUME NEW k, NEW base, NEW s, NEW t, NEW m \in Nat, NEW l \in Nat, NEW n \in Nat,
         NEW f, Folds(k, base, s, Upto(m), f), NEW g, Folds(k, base, t, Upto(l), g),
         n <= m, n <= l, \A i \in 1 .. n : s[i] = t[i]
  PROVE  f[Upto(n)] = g[Upto(n)]
<1> DEFINE I == {i \in Nat : i <= n => f[Upto(i)] = g[Upto(i)]}
<1>1. 0 \in I
  <2>1. f[Upto(0)] = base
    BY FoldStart, Zenon
  <2>2. g[Upto(0)] = base
    BY FoldStart, Zenon
  <2> QED
    BY <2>1, <2>2
<1>2. ASSUME NEW i \in Nat, i \in I
      PROVE  i + 1 \in I
  <2>1. CASE i + 1 <= n
    <3> i + 1 <= m /\ i + 1 <= l
      BY <2>1
    <3>1. f[Upto(i + 1)] = Step(k, f[Upto(i)], s[i + 1])
      BY FoldFront, SMT
    <3>2. g[Upto(i + 1)] = Step(k, g[Upto(i)], t[i + 1])
      BY FoldFront, SMT
    <3>3. f[Upto(i)] = g[Upto(i)] /\ s[i + 1] = t[i + 1]
      BY <1>2, <2>1
    <3> QED
      BY <3>1, <3>2, <3>3
  <2>2. CASE ~ (i + 1 <= n)
    BY <2>2
  <2> QED
    BY <2>1, <2>2
<1>3. Nat \subseteq I
  <2> HIDE DEF I
  <2> QED
    BY <1>1, <1>2, NatSets
<1> QED
  BY <1>3

(* The fold of a sequence is that of any function of this kind.            *)
LEMMA FoldIs ==
  ASSUME NEW k, NEW base, NEW s, NEW n \in Nat, DOMAIN s = 1 .. n,
         NEW t, NEW m \in Nat, n <= m, \A i \in 1 .. n : s[i] = t[i],
         NEW f, Folds(k, base, t, Upto(m), f)
  PROVE  Fold(k, base, s) = f[Upto(n)]
<1> DEFINE g == CHOOSE h : Folds(k, base, s, DOMAIN s, h)
<1>1. DOMAIN s = Upto(n)
  BY DEF Upto
<1>2. \E h : Folds(k, base, s, DOMAIN s, h)
  BY <1>1, FoldExists
<1>3. Folds(k, base, s, Upto(n), g)
  BY <1>1, <1>2, Zenon
<1>4. Fold(k, base, s) = g[Upto(n)]
  BY <1>1, Zenon DEF Fold
<1> HIDE DEF g
<1>5. n <= n
  OBVIOUS
<1>6. g[Upto(n)] = f[Upto(n)]
  BY <1>3, <1>5, FoldsAgree, SMT
<1> QED
  BY <1>4, <1>6

(* The fold of no elements, and of one more.                               *)
LEMMA FoldEmpty ==
  ASSUME NEW k, NEW base
  PROVE  Fold(k, base, <<>>) = base
<1> DEFINE e == <<>>
<1>1. 0 \in Nat /\ 0 <= 0 /\ DOMAIN e = 1 .. 0 /\ \A i \in 1 .. 0 : e[i] = e[i]
  OBVIOUS
<1> HIDE DEF e
<1>2. PICK f : Folds(k, base, e, Upto(0), f)
  BY <1>1, FoldExists, Zenon
<1>3. Fold(k, base, e) = f[Upto(0)]
  BY <1>1, <1>2, FoldIs, SMT
<1>4. f[Upto(0)] = base
  BY <1>1, <1>2, FoldStart, Zenon
<1> QED
  BY <1>3, <1>4 DEF e

(* A fold goes on with the element that is appended.                       *)
LEMMA FoldAppend ==
  ASSUME NEW k, NEW base, NEW T, NEW s \in Seq(T), NEW c \in T
  PROVE  Fold(k, base, Append(s, c)) = Step(k, Fold(k, base, s), c)
<1> DEFINE t == Append(s, c)
           n == Len(s)
<1>1. /\ n \in Nat /\ t \in Seq(T) /\ Len(t) = n + 1 /\ t[n + 1] = c
      /\ \A i \in 1 .. n : s[i] = t[i]
  OBVIOUS
<1> HIDE DEF t
<1>2. PICK f : Folds(k, base, t, Upto(n + 1), f)
  <2>1. n + 1 \in Nat
    BY <1>1
  <2> HIDE DEF n
  <2> QED
    BY <2>1, FoldExists, Zenon
<1>3. Fold(k, base, t) = f[Upto(n + 1)]
  BY <1>1, <1>2, FoldIs
<1>4. Fold(k, base, s) = f[Upto(n)]
  BY <1>1, <1>2, FoldIs
<1>5. f[Upto(n + 1)] = Step(k, f[Upto(n)], t[n + 1])
  <2> HIDE DEF n
  <2> QED
    BY <1>1, <1>2, FoldFront
<1> QED
  BY <1>1, <1>3, <1>4, <1>5, Zenon DEF t

(* The folds of the model.                                                 *)
LEMMA FoldIsChosen ==
  ASSUME NEW k, NEW base, NEW n \in Nat, NEW s, DOMAIN s = 1 .. n,
         NEW g, Folds(k, base, s, DOMAIN s, g)
  PROVE  g[DOMAIN s] = Fold(k, base, s)
<1>1. DOMAIN s = Upto(n)
  BY DEF Upto
<1>2. Folds(k, base, s, Upto(n), g)
  BY <1>1
<1>3. n <= n /\ \A i \in 1 .. n : s[i] = s[i]
  OBVIOUS
<1>4. Fold(k, base, s) = g[Upto(n)]
  BY <1>2, <1>3, FoldIs, SMT
<1> QED
  BY <1>1, <1>4

(* FoldLeft with the operators of the model is the fold of this kind.      *)
LEMMA ReadIsFold ==
  ASSUME NEW base, NEW n \in Nat, NEW s, DOMAIN s = 1 .. n
  PROVE  FoldLeft(NextChar, base, s) = Fold("read", base, s)
<1> DEFINE A(f) == f = [S \in SUBSET DOMAIN s |->
                          IF S = {} THEN base ELSE NextChar(f[S \ {Max(S)}], s[Max(S)])]
           g == CHOOSE f : A(f)
<1>1. FoldLeft(NextChar, base, s) = g[DOMAIN s]
  BY DEF FoldLeft, MapThenFoldSet
<1>2. \A f : A(f) <=> Folds("read", base, s, DOMAIN s, f)
  BY DEF Folds, Step
<1> HIDE DEF A
<1>3. \E f : Folds("read", base, s, Upto(n), f) /\ DOMAIN s = Upto(n)
  BY FoldExists DEF Upto
<1>4. A(g)
  BY <1>2, <1>3, Zenon
<1> HIDE DEF g
<1> QED
  BY <1>1, <1>2, <1>4, FoldIsChosen

(* The same for the quotes that are doubled.                               *)
LEMMA DoubleIsFold ==
  ASSUME NEW base, NEW n \in Nat, NEW s, DOMAIN s = 1 .. n
  PROVE  FoldLeft(Doubled, base, s) = Fold("double", base, s)
<1> DEFINE A(f) == f = [S \in SUBSET DOMAIN s |->
                          IF S = {} THEN base ELSE Doubled(f[S \ {Max(S)}], s[Max(S)])]
           g == CHOOSE f : A(f)
<1>1. FoldLeft(Doubled, base, s) = g[DOMAIN s]
  BY DEF FoldLeft, MapThenFoldSet
<1>2. \A f : A(f) <=> Folds("double", base, s, DOMAIN s, f)
  BY DEF Folds, Step
<1> HIDE DEF A
<1>3. \E f : Folds("double", base, s, Upto(n), f) /\ DOMAIN s = Upto(n)
  BY FoldExists DEF Upto
<1>4. A(g)
  BY <1>2, <1>3, Zenon
<1> HIDE DEF g
<1> QED
  BY <1>1, <1>2, <1>4, FoldIsChosen

(* The same for the characters that are copied.                            *)
LEMMA CopyIsFold ==
  ASSUME NEW base, NEW n \in Nat, NEW s, DOMAIN s = 1 .. n
  PROVE  FoldLeft(Copied, base, s) = Fold("copy", base, s)
<1> DEFINE A(f) == f = [S \in SUBSET DOMAIN s |->
                          IF S = {} THEN base ELSE Copied(f[S \ {Max(S)}], s[Max(S)])]
           g == CHOOSE f : A(f)
<1>1. FoldLeft(Copied, base, s) = g[DOMAIN s]
  BY DEF FoldLeft, MapThenFoldSet
<1>2. \A f : A(f) <=> Folds("copy", base, s, DOMAIN s, f)
  BY DEF Folds, Step
<1> HIDE DEF A
<1>3. \E f : Folds("copy", base, s, Upto(n), f) /\ DOMAIN s = Upto(n)
  BY FoldExists DEF Upto
<1>4. A(g)
  BY <1>2, <1>3, Zenon
<1> HIDE DEF g
<1> QED
  BY <1>1, <1>2, <1>4, FoldIsChosen

(* The same for the line breaks that are skipped.                          *)
LEMMA SkipIsFold ==
  ASSUME NEW base, NEW n \in Nat, NEW s, DOMAIN s = 1 .. n
  PROVE  FoldLeft(SkipBreak, base, s) = Fold("skip", base, s)
<1> DEFINE A(f) == f = [S \in SUBSET DOMAIN s |->
                          IF S = {} THEN base ELSE SkipBreak(f[S \ {Max(S)}], s[Max(S)])]
           g == CHOOSE f : A(f)
<1>1. FoldLeft(SkipBreak, base, s) = g[DOMAIN s]
  BY DEF FoldLeft, MapThenFoldSet
<1>2. \A f : A(f) <=> Folds("skip", base, s, DOMAIN s, f)
  BY DEF Folds, Step
<1> HIDE DEF A
<1>3. \E f : Folds("skip", base, s, Upto(n), f) /\ DOMAIN s = Upto(n)
  BY FoldExists DEF Upto
<1>4. A(g)
  BY <1>2, <1>3, Zenon
<1> HIDE DEF g
<1> QED
  BY <1>1, <1>2, <1>4, FoldIsChosen

(* What is folded in two parts.                                            *)
LEMMA FoldConcat ==
  ASSUME NEW k, NEW base, NEW T, NEW s \in Seq(T), NEW t \in Seq(T)
  PROVE  Fold(k, base, s \o t) = Fold(k, Fold(k, base, s), t)
<1> DEFINE Holds(u) == Fold(k, base, s \o u) = Fold(k, Fold(k, base, s), u)
           I == {n \in Nat : \A u \in Seq(T) : Len(u) = n => Holds(u)}
<1>1. 0 \in I
  <2>1. \A u \in Seq(T) : Len(u) = 0 => u = <<>>
    OBVIOUS
  <2>2. s \o <<>> = s
    OBVIOUS
  <2>3. Holds(<<>>)
    BY <2>2, FoldEmpty
  <2> QED
    BY <2>1, <2>3
<1>2. ASSUME NEW n \in Nat, n \in I
      PROVE  n + 1 \in I
  <2> SUFFICES ASSUME NEW u \in Seq(T), Len(u) = n + 1
               PROVE  Holds(u)
    OBVIOUS
  <2> DEFINE v == SubSeq(u, 1, n)
             c == u[n + 1]
  <2>1. v \in Seq(T) /\ Len(v) = n /\ c \in T /\ u = Append(v, c)
    OBVIOUS
  <2>2. Holds(v)
    BY <1>2, <2>1
  <2> HIDE DEF v, c
  <2>3. s \o u = Append(s \o v, c) /\ s \o v \in Seq(T)
    BY <2>1
  <2>4. Fold(k, base, s \o u) = Step(k, Fold(k, base, s \o v), c)
    <3> DEFINE w == s \o v
    <3>1. w \in Seq(T) /\ s \o u = Append(w, c)
      BY <2>3
    <3> HIDE DEF w
    <3>2. Fold(k, base, Append(w, c)) = Step(k, Fold(k, base, w), c)
      BY <2>1, <3>1, FoldAppend
    <3> QED
      BY <3>1, <3>2, Zenon DEF w
  <2>5. Fold(k, Fold(k, base, s), u) = Step(k, Fold(k, Fold(k, base, s), v), c)
    BY <2>1, FoldAppend
  <2> QED
    BY <2>2, <2>4, <2>5
<1>3. Nat \subseteq I
  <2> HIDE DEF I
  <2> QED
    BY <1>1, <1>2, NatSets
<1>4. Len(t) \in Nat
  OBVIOUS
<1> QED
  BY <1>3, <1>4

(* The fold of one element.                                                *)
LEMMA FoldSingle ==
  ASSUME NEW k, NEW base, NEW c
  PROVE  Fold(k, base, <<c>>) = Step(k, base, c)
<1> DEFINE e == <<>>
<1>1. e \in Seq({c}) /\ c \in {c} /\ <<c>> = Append(e, c)
  OBVIOUS
<1>2. Fold(k, base, e) = base
  BY FoldEmpty
<1> HIDE DEF e
<1>3. Fold(k, base, Append(e, c)) = Step(k, Fold(k, base, e), c)
  BY <1>1, FoldAppend
<1> QED
  BY <1>1, <1>2, <1>3

(* Induction over sequences, with a set in the place of a predicate.       *)
LEMMA SeqSets ==
  ASSUME NEW T, NEW P, <<>> \in P, \A s \in Seq(T), c \in T : s \in P => Append(s, c) \in P
  PROVE  Seq(T) \subseteq P
<1> DEFINE I == {n \in Nat : \A s \in Seq(T) : Len(s) = n => s \in P}
<1>1. 0 \in I
  <2>1. \A s \in Seq(T) : Len(s) = 0 => s = <<>>
    OBVIOUS
  <2> QED
    BY <2>1
<1>2. ASSUME NEW n \in Nat, n \in I
      PROVE  n + 1 \in I
  <2> SUFFICES ASSUME NEW s \in Seq(T), Len(s) = n + 1
               PROVE  s \in P
    OBVIOUS
  <2> DEFINE t == SubSeq(s, 1, n)
             c == s[n + 1]
  <2>1. t \in Seq(T) /\ Len(t) = n /\ c \in T /\ s = Append(t, c)
    OBVIOUS
  <2>2. t \in P
    BY <1>2, <2>1
  <2> HIDE DEF t, c
  <2> QED
    BY <2>1, <2>2
<1>3. Nat \subseteq I
  <2> HIDE DEF I
  <2> QED
    BY <1>1, <1>2, NatSets
<1>4. \A s \in Seq(T) : Len(s) \in Nat
  OBVIOUS
<1> QED
  BY <1>3, <1>4

-----------------------------------------------------------------------------
(* The characters in the data: those of the values and the ones that       *)
(* separate them.                                                          *)
Chars == STRING \cup {Quote, ",", "LF", EndOfCopy}

(* What is stored of a value, and how it is written, are strings.          *)
LEMMA FoldedText ==
  ASSUME NEW k \in {"copy", "double"}, NEW s \in Seq(Chars)
  PROVE  Fold(k, <<>>, s) \in Seq(Chars)
<1> DEFINE P == {t \in Seq(Chars) : Fold(k, <<>>, t) \in Seq(Chars)}
<1>1. <<>> \in P
  <2>1. <<>> \in Seq(Chars)
    OBVIOUS
  <2> QED
    BY <2>1, FoldEmpty
<1>2. ASSUME NEW t \in Seq(Chars), NEW c \in Chars, t \in P
      PROVE  Append(t, c) \in P
  <2> DEFINE f == Fold(k, <<>>, t)
  <2>1. f \in Seq(Chars)
    BY <1>2
  <2>2. Fold(k, <<>>, Append(t, c)) = Step(k, f, c)
    BY FoldAppend
  <2> HIDE DEF f
  <2>a. Append(f, c) \in Seq(Chars)
    BY <2>1
  <2>b. f \o <<Quote, Quote>> \in Seq(Chars)
    <3>1. Quote \in Chars
      BY DEF Chars
    <3>2. <<Quote, Quote>> \in Seq(Chars)
      BY <3>1
    <3> QED
      BY <2>1, <3>2, ConcatProperties
  <2>3. Copied(f, c) \in Seq(Chars)
    BY <2>1, <2>a, Zenon DEF Copied
  <2>4. Doubled(f, c) \in Seq(Chars)
    BY <2>a, <2>b, Zenon DEF Doubled
  <2>5. Step(k, f, c) \in Seq(Chars)
    BY <2>3, <2>4 DEF Step
  <2>6. Append(t, c) \in Seq(Chars)
    OBVIOUS
  <2> QED
    BY <2>2, <2>5, <2>6
<1>3. Seq(Chars) \subseteq P
  <2> HIDE DEF P
  <2> QED
    BY <1>1, <1>2, SeqSets
<1> QED
  BY <1>3

(* The indices of a sequence.                                              *)
LEMMA SeqDomain ==
  ASSUME NEW T, NEW s \in Seq(T)
  PROVE  \E n \in Nat : DOMAIN s = 1 .. n
<1>1. Len(s) \in Nat /\ DOMAIN s = 1 .. Len(s)
  OBVIOUS
<1> QED
  BY <1>1

(* Blanks at the end are cut off.                                          *)
LEMMA TrimmedText ==
  ASSUME NEW s \in Seq(Chars)
  PROVE  RTrim(s) \in Seq(Chars)
<1> DEFINE kept == {n \in 0 .. Len(s) : \A i \in n + 1 .. Len(s) : s[i] = " "}
           n == CHOOSE n \in kept : \A m \in kept : n <= m
<1>1. kept \subseteq Nat /\ Len(s) \in kept
  <2>1. Len(s) \in 0 .. Len(s) /\ Len(s) + 1 .. Len(s) = {}
    OBVIOUS
  <2>2. \A i \in Len(s) + 1 .. Len(s) : s[i] = " "
    BY <2>1
  <2>3. Len(s) \in kept
    BY <2>1, <2>2, Zenon
  <2>4. kept \subseteq 0 .. Len(s)
    BY Zenon
  <2>5. 0 .. Len(s) \subseteq Nat
    OBVIOUS
  <2> QED
    BY <2>3, <2>4, <2>5, Zenon
<1>2. kept \subseteq 0 .. Len(s)
  OBVIOUS
<1>3. RTrim(s) = SubSeq(s, 1, n)
  BY DEF RTrim
<1> HIDE DEF kept
<1>4. n \in kept
  <2>1. \E x \in kept : \A y \in kept : x <= y
    BY <1>1, LeastNat
  <2> QED
    BY <2>1
<1> HIDE DEF n
<1>5. n \in 0 .. Len(s)
  BY <1>2, <1>4
<1> QED
  BY <1>3, <1>5

(* What is stored of a value.                                              *)
LEMMA StoredText ==
  ASSUME NEW v \in Seq(Chars)
  PROVE  Stored(v) \in Seq(Chars)
<1>1. RTrim(v) \in Seq(Chars)
  BY TrimmedText
<1>2. Stored(v) = Fold("copy", <<>>, RTrim(v))
  BY <1>1, SeqDomain, CopyIsFold DEF Stored
<1> QED
  BY <1>1, <1>2, FoldedText

(* What is written of a value.                                             *)
LEMMA QuotedText ==
  ASSUME NEW v \in Seq(Chars)
  PROVE  /\ Fold("double", <<>>, Stored(v)) \in Seq(Chars)
         /\ Quoted(v) = <<Quote>> \o Fold("double", <<>>, Stored(v)) \o <<Quote>>
<1>1. Stored(v) \in Seq(Chars)
  BY StoredText
<1>2. Fold("double", <<>>, Stored(v)) \in Seq(Chars)
  BY <1>1, FoldedText
<1>3. FoldLeft(Doubled, <<>>, Stored(v)) = Fold("double", <<>>, Stored(v))
  BY <1>1, SeqDomain, DoubleIsFold
<1> QED
  BY <1>2, <1>3 DEF Quoted

-----------------------------------------------------------------------------
(* The server's reader: the rows read, the row and the field at hand, and  *)
(* how the next character is taken.                                        *)
Reader(r, w, f, m) == [rows |-> r, row |-> w, field |-> f, mode |-> m]

(* A quote opens a value, ends it, and after another one is part of it.    *)
LEMMA ReadsQuote ==
  ASSUME NEW r, NEW w, NEW f
  PROVE  /\ NextChar(Reader(r, w, f, "start"), Quote) = Reader(r, w, f, "quoted")
         /\ NextChar(Reader(r, w, f, "quoted"), Quote) = Reader(r, w, f, "quote")
         /\ NextChar(Reader(r, w, f, "quote"), Quote) = Reader(r, w, Append(f, Quote), "quoted")
  BY DEF NextChar, Reader, Quote, EndOfCopy

(* Any other character between quotes is part of the value.                *)
LEMMA ReadsQuoted ==
  ASSUME NEW r, NEW w, NEW f, NEW c, c # Quote
  PROVE  NextChar(Reader(r, w, f, "quoted"), c) = Reader(r, w, Append(f, c), "quoted")
  BY DEF NextChar, Reader

(* A comma ends the field, a line feed the row as well.                    *)
LEMMA ReadsDelimiter ==
  ASSUME NEW r, NEW w, NEW f
  PROVE  /\ NextChar(Reader(r, w, f, "quote"), ",") = Reader(r, Append(w, f), <<>>, "start")
         /\ NextChar(Reader(r, w, f, "quote"), "LF")
              = Reader(Append(r, Append(w, f)), <<>>, <<>>, "start")
  BY DEF NextChar, Reader, Quote, EndOfCopy

(* The marker ends the data only where a row could begin.                  *)
LEMMA ReadsEnd ==
  ASSUME NEW r, NEW w, NEW f
  PROVE  /\ NextChar(Reader(r, <<>>, f, "start"), EndOfCopy) = Reader(r, <<>>, f, "done")
         /\ w # <<>> => NextChar(Reader(r, w, f, "start"), EndOfCopy)
                          = Reader(r, w, Append(f, EndOfCopy), "plain")
  BY DEF NextChar, Reader, Quote, EndOfCopy

(* Between quotes the server reads the value that was stored.              *)
LEMMA ReadsDoubled ==
  ASSUME NEW r, NEW w, NEW s \in Seq(Chars)
  PROVE  Fold("read", Reader(r, w, <<>>, "quoted"), Fold("double", <<>>, s))
           = Reader(r, w, s, "quoted")
<1> DEFINE start == Reader(r, w, <<>>, "quoted")
           P == {t \in Seq(Chars) :
                   Fold("read", start, Fold("double", <<>>, t)) = Reader(r, w, t, "quoted")}
<1>1. <<>> \in P
  <2>1. <<>> \in Seq(Chars)
    OBVIOUS
  <2>2. Fold("double", <<>>, <<>>) = <<>> /\ Fold("read", start, <<>>) = start
    BY FoldEmpty
  <2> QED
    BY <2>1, <2>2
<1>2. ASSUME NEW t \in Seq(Chars), NEW c \in Chars, t \in P
      PROVE  Append(t, c) \in P
  <2> DEFINE d == Fold("double", <<>>, t)
  <2>1. Fold("read", start, d) = Reader(r, w, t, "quoted")
    BY <1>2
  <2>2. d \in Seq(Chars)
    BY FoldedText
  <2>3. Fold("double", <<>>, Append(t, c)) = Step("double", d, c)
    BY FoldAppend
  <2>4. Append(t, c) \in Seq(Chars)
    OBVIOUS
  <2> HIDE DEF d, start
  <2>5. Fold("read", start, Step("double", d, c)) = Reader(r, w, Append(t, c), "quoted")
    <3>1. CASE c = Quote
      <4> DEFINE d1 == Append(d, Quote)
      <4>1. d1 \in Seq(Chars) /\ Quote \in Chars
        BY <2>2, <3>1
      <4>2. Step("double", d, c) = Append(d1, Quote)
        <5>1. d \o <<Quote, Quote>> = Append(Append(d, Quote), Quote)
          BY <2>2, <4>1
        <5> QED
          BY <3>1, <5>1 DEF Step, Doubled
      <4>3. Fold("read", start, d1) = NextChar(Fold("read", start, d), Quote)
        BY <2>2, <4>1, FoldAppend DEF Step
      <4> HIDE DEF d1
      <4>4. Fold("read", start, Append(d1, Quote)) = NextChar(Fold("read", start, d1), Quote)
        BY <4>1, FoldAppend DEF Step
      <4>5. Fold("read", start, d1) = Reader(r, w, t, "quote")
        BY <2>1, <4>3, ReadsQuote
      <4>6. Fold("read", start, Append(d1, Quote)) = Reader(r, w, Append(t, Quote), "quoted")
        BY <4>4, <4>5, ReadsQuote
      <4> QED
        BY <3>1, <4>2, <4>6
    <3>2. CASE c # Quote
      <4>1. Step("double", d, c) = Append(d, c)
        BY <3>2 DEF Step, Doubled
      <4>2. Fold("read", start, Append(d, c)) = NextChar(Fold("read", start, d), c)
        BY <2>2, FoldAppend DEF Step
      <4>3. NextChar(Reader(r, w, t, "quoted"), c) = Reader(r, w, Append(t, c), "quoted")
        BY <3>2, ReadsQuoted
      <4> QED
        BY <2>1, <4>1, <4>2, <4>3
    <3> QED
      BY <3>1, <3>2
  <2> QED
    BY <2>3, <2>4, <2>5
<1>3. Seq(Chars) \subseteq P
  <2> HIDE DEF P
  <2> QED
    BY <1>1, <1>2, SeqSets
<1> QED
  BY <1>3

(* A field that was written is read: the value stored ends the row or not. *)
LEMMA ReadsField ==
  ASSUME NEW r, NEW w, NEW v \in Seq(Chars), NEW i
  PROVE  /\ Quoted(v) \o Delimiter(i) \in Seq(Chars)
         /\ Quoted(v) \o Delimiter(i) # <<>>
         /\ Fold("read", Reader(r, w, <<>>, "start"), Quoted(v) \o Delimiter(i))
              = IF i = FieldCount
                THEN Reader(Append(r, Append(w, Stored(v))), <<>>, <<>>, "start")
                ELSE Reader(r, Append(w, Stored(v)), <<>>, "start")
<1> DEFINE d == Fold("double", <<>>, Stored(v))
           start == Reader(r, w, <<>>, "start")
           s == Stored(v)
           q == <<Quote>>
           l == IF i = FieldCount THEN "LF" ELSE ","
           e == <<l>>
<1>1. d \in Seq(Chars) /\ Quoted(v) = (q \o d) \o q /\ s \in Seq(Chars)
  BY QuotedText, StoredText
<1>2. q \in Seq(Chars) /\ e \in Seq(Chars)
  <2>1. Quote \in Chars /\ l \in Chars
    BY DEF Chars
  <2> HIDE DEF d, start, s, l
  <2>2. q \in Seq(Chars)
    BY <2>1
  <2>3. e \in Seq(Chars)
    BY <2>1
  <2> QED
    BY <2>2, <2>3
<1>3. Delimiter(i) = e
  BY DEF Delimiter
<1>4. Fold("read", start, q) = Reader(r, w, <<>>, "quoted")
  BY FoldSingle, ReadsQuote, ZenonT(40) DEF Step
<1>5. Fold("read", Reader(r, w, <<>>, "quoted"), d) = Reader(r, w, s, "quoted")
  BY <1>1, ReadsDoubled
<1>6. Fold("read", Reader(r, w, s, "quoted"), q) = Reader(r, w, s, "quote")
  BY FoldSingle, ReadsQuote, ZenonT(40) DEF Step
<1>7. Fold("read", Reader(r, w, s, "quote"), e)
        = IF i = FieldCount THEN Reader(Append(r, Append(w, s)), <<>>, <<>>, "start")
          ELSE Reader(r, Append(w, s), <<>>, "start")
  <2>1. Fold("read", Reader(r, w, s, "quote"), e) = NextChar(Reader(r, w, s, "quote"), l)
    BY FoldSingle, Zenon DEF Step
  <2> HIDE DEF s
  <2> QED
    BY <2>1, ReadsDelimiter
<1> HIDE DEF d, q, e, start, s
<1> DEFINE a == q \o d
           b == a \o q
           z == b \o e
<1>8. a \in Seq(Chars)
  BY <1>1, <1>2
<1>9. Fold("read", start, a) = Reader(r, w, s, "quoted")
  BY <1>1, <1>2, <1>4, <1>5, FoldConcat
<1> HIDE DEF a
<1>10. b \in Seq(Chars)
  BY <1>2, <1>8
<1>11. Fold("read", start, b) = Reader(r, w, s, "quote")
  BY <1>2, <1>6, <1>8, <1>9, FoldConcat
<1> HIDE DEF b
<1>12. z \in Seq(Chars)
  BY <1>2, <1>10
<1>13. Fold("read", start, z) = Fold("read", Reader(r, w, s, "quote"), e)
  BY <1>2, <1>10, <1>11, FoldConcat
<1>14. z # <<>>
  <2>1. Len(e) = 1
    BY DEF e
  <2>2. Len(z) = Len(b) + Len(e) /\ Len(b) \in Nat
    BY <1>2, <1>10
  <2> QED
    BY <2>1, <2>2
<1>15. Quoted(v) \o Delimiter(i) = z
  BY <1>1, <1>3, Zenon DEF a, b
<1> HIDE DEF z
<1> QED
  BY <1>7, <1>12, <1>13, <1>14, <1>15, Zenon DEF start, s

-----------------------------------------------------------------------------
(* What is in the buffer and what was sent, together, is what was written, *)
(* wherever the buffer was full.                                           *)
LEMMA WholeBuffers ==
  ASSUME NEW a \in Nat, NEW b \in Nat \ {0}
  PROVE  (a \div b) * b \in 0 .. a
<1>1. a \div b \in Nat /\ a % b \in Nat /\ a = b * (a \div b) + (a % b)
  OBVIOUS
<1> DEFINE q == a \div b
           r == (a % b)
<1>2. q * b = b * q /\ b * q \in Nat
  BY <1>1
<1> HIDE DEF q, r
<1>3. a = b * q + r /\ r \in Nat
  BY <1>1 DEF q, r
<1> DEFINE p == b * q
<1>4. p \in Nat /\ q * b = p /\ a = p + r
  BY <1>2, <1>3
<1> HIDE DEF p
<1>5. q * b \in 0 .. a
  BY <1>3, <1>4
<1> QED
  BY <1>5 DEF q

(* What is added to the buffer is added to the data, full buffers being    *)
(* sent.                                                                   *)
LEMMA AddedToData ==
  ASSUME PgCopyAssumption, buffer \in Seq(Chars), sentData \in Seq(Chars),
         NEW s \in Seq(Chars), s # <<>>, AddToContext(s), trouble' = "none"
  PROVE  /\ buffer' \in Seq(Chars) /\ sentData' \in Seq(Chars)
         /\ sentData' \o buffer' = (sentData \o buffer) \o s
<1> DEFINE all == buffer \o s
           n == Flushes(s) * BufferLength
           l == Len(all)
<1>1. all \in Seq(Chars) /\ l \in Nat \ {0}
  <2>1. Len(s) \in Nat \ {0}
    OBVIOUS
  <2> QED
    BY <2>1
<1>2. n \in 0 .. l
  <2> HIDE DEF l
  <2>1. l - 1 \in Nat /\ BufferLength \in Nat \ {0}
    BY <1>1 DEF PgCopyAssumption
  <2>2. n = ((l - 1) \div BufferLength) * BufferLength
    BY DEF Flushes, l
  <2> HIDE DEF n
  <2>3. ((l - 1) \div BufferLength) * BufferLength \in 0 .. l - 1
    BY <2>1, WholeBuffers
  <2> QED
    BY <1>1, <2>2, <2>3
<1>3. sentData' = sentData \o SubSeq(all, 1, n) /\ buffer' = SubSeq(all, n + 1, l)
  BY DEF AddToContext
<1> HIDE DEF n
<1>4. SubSeq(all, 1, n) \o SubSeq(all, n + 1, l) = all
  <2> HIDE DEF all, l
  <2>1. 1 \in 1 .. l + 1 /\ n \in 1 - 1 .. l /\ l \in n .. l /\ l = Len(all)
    BY <1>1, <1>2 DEF l
  <2>2. SubSeq(all, 1, n) \o SubSeq(all, n + 1, l) = SubSeq(all, 1, l)
    BY <1>1, <2>1, ConcatAdjacentSubSeq
  <2>3. SubSeq(all, 1, l) = all
    BY <1>1, SubSeqFull DEF l
  <2> QED
    BY <2>2, <2>3
<1>5. SubSeq(all, 1, n) \in Seq(Chars) /\ SubSeq(all, n + 1, l) \in Seq(Chars)
  <2> HIDE DEF all
  <2> QED
    BY <1>1, <1>2 DEF l
<1>6. sentData' \o buffer' = sentData \o (SubSeq(all, 1, n) \o SubSeq(all, n + 1, l))
  <2> DEFINE x == SubSeq(all, 1, n)
             y == SubSeq(all, n + 1, l)
  <2>1. /\ x \in Seq(Chars) /\ y \in Seq(Chars) /\ sentData \in Seq(Chars)
        /\ sentData' = sentData \o x /\ buffer' = y
    BY <1>3, <1>5
  <2> HIDE DEF x, y
  <2>2. (sentData \o x) \o y = sentData \o (x \o y)
    <3>1. x \in Seq(Chars) /\ y \in Seq(Chars) /\ sentData \in Seq(Chars)
      BY <2>1, Zenon
    <3> QED
      BY ONLY <3>1, ConcatAssociative
  <2> QED
    BY <2>1, <2>2 DEF x, y
<1>7. sentData \o (buffer \o s) = (sentData \o buffer) \o s
  BY ConcatAssociative
<1>8. buffer' \in Seq(Chars) /\ sentData' \in Seq(Chars)
  <2> DEFINE x == SubSeq(all, 1, n)
             y == SubSeq(all, n + 1, l)
  <2>1. x \in Seq(Chars) /\ y \in Seq(Chars) /\ sentData' = sentData \o x /\ buffer' = y
    BY <1>3, <1>5
  <2> HIDE DEF x, y
  <2> QED
    BY <2>1
<1> QED
  BY <1>4, <1>6, <1>7, <1>8

-----------------------------------------------------------------------------
(* The inductive invariant.  While the records are copied and no buffer    *)
(* was dropped, the server would read from what was sent and what is in    *)
(* the buffer the records that were read and the values of the one at      *)
(* hand; if not all fields are copied, no line ends and all values are in  *)
(* one row, which is too long with the marker.                             *)
Row == Seq(Seq(Chars))
Read == Fold("read", Reader(<<>>, <<>>, <<>>, "start"), sentData \o buffer)

PgTypeOK ==
  /\ step \in {"idle", "record", "field", "end", "fail"}
  /\ fields \in 1 .. FieldCount
  /\ record \in Row /\ records \in Seq(Row)

DataInv ==
  /\ buffer \in Seq(Chars) /\ sentData \in Seq(Chars)
  /\ fields = FieldCount => Read = Reader(records, record, <<>>, "start")
  /\ fields # FieldCount =>
       \E w \in Row : /\ Read = Reader(<<>>, w, <<>>, "start")
                      /\ w = <<>> <=> records = <<>> /\ record = <<>>
                      /\ Len(record) <= Len(w)
                      /\ records # <<>> => fields <= Len(w)

Sent ==
  \/ trouble = "none" /\ DataInv
  \/ trouble = "dropped" /\ ~blocking

PgInv ==
  /\ PgTypeOK
  /\ \A i \in DOMAIN records : Len(records[i]) = fields
  /\ step \in {"record", "end"} => record = <<>>
  /\ step = "field" => Len(record) < fields
  /\ step \in {"record", "field", "end"} => Sent
  /\ step = "fail" => trouble = "failed"
  /\ step # "idle" => ret = "none"
  /\ ret = "none" => table = <<>>
  /\ CopyAllOrNothing

PgSpec == PgInit /\ [][PgNext]_pgVars

(* The empty data are read as nothing.                                     *)
LEMMA PgStart == PgCopyAssumption /\ PgInit => PgInv
<1> SUFFICES ASSUME PgCopyAssumption, PgInit
             PROVE  PgInv
  OBVIOUS
<1>1. <<>> \in Row /\ <<>> \in Seq(Row)
  BY DEF Row
<1>2. PgTypeOK
  BY <1>1 DEF PgInit, PgTypeOK, PgCopyAssumption
<1> QED
  BY <1>2 DEF PgInit, PgInv, CopyAllOrNothing

(* A copy starts with empty data.                                          *)
LEMMA StartKeeps ==
  ASSUME PgCopyAssumption, PgInv, NEW n \in FieldLists \cup {FieldCount}, NEW most \in 0 .. 1,
         ret = "none", Start(n, most)
  PROVE  PgInv'
<1>1. <<>> \in Seq(Chars) /\ <<>> \in Row /\ <<>> \in Seq(Row) /\ <<>> \o <<>> = <<>> /\ Len(<<>>) = 0
  BY DEF Row
<1>2. n \in 1 .. FieldCount
  BY DEF PgCopyAssumption
<1>3. PgTypeOK'
  BY <1>1, <1>2 DEF Start, PgTypeOK
<1>4. Read' = Reader(<<>>, <<>>, <<>>, "start")
  <2>1. sentData' \o buffer' = <<>>
    BY <1>1 DEF Start
  <2> QED
    BY <2>1, FoldEmpty, Zenon DEF Read
<1>5. DataInv'
  BY <1>1, <1>4 DEF DataInv, Start
<1>6. step' # "fail" => Sent'
  BY <1>5 DEF Sent, Start
<1> QED
  BY <1>3, <1>6 DEF Start, PgInv, CopyAllOrNothing

(* Between the fields, and when a record begins, no data are added.        *)
LEMMA SameData ==
  ASSUME UNCHANGED <<blocking, fields, buffer, sentData, records, trouble>>, Sent,
         record' = record
  PROVE  Sent'
  BY DEF Sent, DataInv, Read

(* No more records.                                                        *)
LEMMA LastRecordKeeps ==
  ASSUME PgInv, LastRecord
  PROVE  PgInv'
<1>1. Sent'
  BY SameData DEF PgInv, LastRecord
<1> QED
  BY <1>1 DEF PgInv, LastRecord, PgTypeOK, CopyAllOrNothing

(* A record is begun; it has fields that are to be copied.                 *)
LEMMA NextRecordKeeps ==
  ASSUME PgInv, NextRecord
  PROVE  PgInv'
<1>1. record' = record
  BY DEF PgInv, NextRecord
<1>2. Sent'
  BY <1>1, SameData DEF PgInv, NextRecord
<1>3. Len(record') < fields
  BY DEF PgInv, NextRecord, PgTypeOK
<1> QED
  BY <1>1, <1>2, <1>3 DEF PgInv, NextRecord, PgTypeOK, CopyAllOrNothing

(* A failure ends what is known of the data.                               *)
LEMMA FailsKeeps ==
  ASSUME PgInv, step \in {"record", "field", "end"}, step' = "fail", trouble' = "failed",
         UNCHANGED <<blocking, fields, buffer, sentData, record, records, table, ret>>
  PROVE  PgInv'
  BY DEF PgInv, PgTypeOK, CopyAllOrNothing

(* A copy that failed leaves the table as it was.                          *)
LEMMA GiveUpKeeps ==
  ASSUME PgInv, GiveUp
  PROVE  PgInv'
  BY DEF PgInv, GiveUp, Return, PgTypeOK, CopyAllOrNothing

(* Something appended, a sequence is not empty.                            *)
LEMMA AppendNotEmpty ==
  ASSUME NEW T, NEW s \in Seq(T), NEW c \in T
  PROVE  Append(s, c) # <<>>
<1>1. Len(Append(s, c)) = Len(s) + 1 /\ Len(s) \in Nat
  OBVIOUS
<1> QED
  BY <1>1

(* A value that is written is read as a value of the row at hand, and with *)
(* the last field of the work area the row ends.                           *)
LEMMA FieldKeepsData ==
  ASSUME PgCopyAssumption, PgInv, NEW value \in Values, step = "field", DataInv,
         AddToContext(Quoted(value) \o Delimiter(Len(record) + 1)), fields' = fields,
         trouble' = "none",
         record' = IF Len(record) + 1 = fields THEN <<>> ELSE Append(record, Stored(value)),
         records' = IF Len(record) + 1 = fields
                    THEN Append(records, Append(record, Stored(value))) ELSE records
  PROVE  DataInv'
<1> DEFINE i == Len(record) + 1
           s == Quoted(value) \o Delimiter(i)
           v == Stored(value)
           start == Reader(<<>>, <<>>, <<>>, "start")
           data == sentData \o buffer
<1>1. value \in Seq(Chars)
  <2>1. STRING \subseteq Chars
    BY DEF Chars
  <2>2. Seq(STRING) \subseteq Seq(Chars)
    BY <2>1, SeqMonotonic
  <2> QED
    BY <2>2 DEF PgCopyAssumption
<1>2. v \in Seq(Chars)
  BY <1>1, StoredText
<1>3. /\ s \in Seq(Chars) /\ s # <<>>
      /\ \A r, w : Fold("read", Reader(r, w, <<>>, "start"), s)
                     = IF i = FieldCount THEN Reader(Append(r, Append(w, v)), <<>>, <<>>, "start")
                       ELSE Reader(r, Append(w, v), <<>>, "start")
  <2>1. PgCopyAssumption /\ value \in Seq(Chars)
    BY <1>1
  <2> QED
    BY ONLY <2>1, ReadsField
<1>4. buffer \in Seq(Chars) /\ sentData \in Seq(Chars) /\ data \in Seq(Chars)
  <2>1. buffer \in Seq(Chars) /\ sentData \in Seq(Chars)
    BY DEF DataInv
  <2> QED
    BY <2>1
<1>5. AddToContext(s) /\ trouble' = "none"
  OBVIOUS
<1> HIDE DEF s, v
<1>6. buffer' \in Seq(Chars) /\ sentData' \in Seq(Chars) /\ sentData' \o buffer' = data \o s
  BY <1>3, <1>4, <1>5, AddedToData
<1>7. Read = Fold("read", start, data) /\ Read' = Fold("read", start, data \o s)
  BY <1>6, Zenon DEF Read
<1> HIDE DEF start, data
<1>8. Read' = Fold("read", Read, s)
  BY <1>3, <1>4, <1>7, FoldConcat
<1>9. /\ record \in Row /\ records \in Seq(Row) /\ Len(record) < fields /\ DataInv
      /\ fields \in 1 .. FieldCount /\ FieldCount \in Nat
  BY DEF PgInv, PgTypeOK, PgCopyAssumption
<1>10. i \in 1 .. fields
  BY <1>9 DEF Row
<1>11. CASE fields = FieldCount
  <2>1. Read = Reader(records, record, <<>>, "start")
    BY <1>9, <1>11 DEF DataInv
  <2>2. Read' = IF i = FieldCount THEN Reader(Append(records, Append(record, v)), <<>>, <<>>, "start")
                ELSE Reader(records, Append(record, v), <<>>, "start")
    BY <1>3, <1>8, <2>1, Zenon
  <2>3. record' = (IF i = fields THEN <<>> ELSE Append(record, v))
        /\ records' = IF i = fields THEN Append(records, Append(record, v)) ELSE records
    BY Zenon DEF v
  <2>4. Read' = Reader(records', record', <<>>, "start")
    <3> HIDE DEF i
    <3> QED
      BY <1>11, <2>2, <2>3, Zenon
  <2> QED
    BY <1>6, <1>11, <2>4, Zenon DEF DataInv
<1>12. CASE fields # FieldCount
  <2>1. PICK w \in Row : /\ Read = Reader(<<>>, w, <<>>, "start")
                         /\ w = <<>> <=> records = <<>> /\ record = <<>>
                         /\ Len(record) <= Len(w)
                         /\ records # <<>> => fields <= Len(w)
    BY <1>9, <1>12 DEF DataInv
  <2>2. i # FieldCount
    BY <1>9, <1>10, <1>12
  <2>3. Read' = Reader(<<>>, Append(w, v), <<>>, "start")
    BY <1>3, <1>8, <2>1, <2>2, Zenon
  <2>4. Append(w, v) \in Row /\ Append(w, v) # <<>>
    <3>1. w \in Seq(Seq(Chars))
      BY <2>1 DEF Row
    <3>2. Append(w, v) \in Seq(Seq(Chars)) /\ Append(w, v) # <<>>
      BY <1>2, <3>1, AppendNotEmpty, SMTT(30)
    <3> QED
      BY <3>2, Zenon DEF Row
  <2>5. ~ (records' = <<>> /\ record' = <<>>)
    <3>1. record \in Seq(Seq(Chars))
      BY <1>9 DEF Row
    <3>2. Append(record, v) # <<>>
      BY <1>2, <3>1, AppendNotEmpty
    <3>3. Append(records, Append(record, v)) # <<>>
      <4> DEFINE a == Append(record, v)
      <4>1. a \in Row
        BY <1>2, <3>1 DEF Row
      <4> HIDE DEF a
      <4>2. Append(records, a) # <<>>
        BY <1>9, <4>1, AppendNotEmpty
      <4> QED
        BY <4>2 DEF a
    <3>4. record' = (IF i = fields THEN <<>> ELSE Append(record, v))
          /\ records' = IF i = fields THEN Append(records, Append(record, v)) ELSE records
      BY Zenon DEF v
    <3> HIDE DEF i
    <3> QED
      BY <3>2, <3>3, <3>4
  <2>6. Len(record') <= Len(Append(w, v)) /\ (records' # <<>> => fields <= Len(Append(w, v)))
    <3>1. w \in Seq(Seq(Chars)) /\ record \in Seq(Seq(Chars))
      BY <1>9, <2>1 DEF Row
    <3>2. Len(Append(w, v)) = Len(w) + 1 /\ Len(Append(record, v)) = Len(record) + 1
      BY <1>2, <3>1
    <3>3. record' = (IF i = fields THEN <<>> ELSE Append(record, v))
          /\ records' = IF i = fields THEN Append(records, Append(record, v)) ELSE records
      BY Zenon DEF v
    <3>4. Len(w) \in Nat /\ Len(record) \in Nat /\ fields \in Nat /\ Len(<<>>) = 0
      BY <1>9, <3>1
    <3>5. CASE i = fields
      <4>1. Len(record') = 0 /\ fields = Len(record) + 1
        BY <3>3, <3>4, <3>5
      <4> QED
        BY <2>1, <3>2, <3>4, <4>1
    <3>6. CASE i # fields
      <4>1. record' = Append(record, v) /\ records' = records
        BY <3>3, <3>6
      <4> QED
        BY <2>1, <3>2, <3>4, <4>1
    <3> QED
      BY <3>5, <3>6
  <2> DEFINE u == Append(w, v)
  <2> HIDE DEF u, i, s, v
  <2>7. /\ u \in Row /\ u # <<>> /\ Read' = Reader(<<>>, u, <<>>, "start")
        /\ Len(record') <= Len(u) /\ (records' # <<>> => fields <= Len(u))
    BY <2>3, <2>4, <2>6 DEF u
  <2> QED
    BY <1>6, <1>12, <2>5, <2>7, Zenon DEF DataInv
<1> QED
  BY <1>11, <1>12

(* A field is written, or the buffer could not be sent.                    *)
LEMMA FieldKeeps ==
  ASSUME PgCopyAssumption, PgInv, NEW value \in Values, Field(value)
  PROVE  PgInv'
<1> DEFINE i == Len(record) + 1
           s == Quoted(value) \o Delimiter(i)
           v == Stored(value)
<1>1. CASE AddFails(s) /\ UNCHANGED <<blocking, fields, nCount, table, ret>>
  <2>1. step = "field"
    BY DEF Field
  <2> HIDE DEF s
  <2> QED
    BY <1>1, <2>1, FailsKeeps DEF AddFails
<1>2. CASE /\ AddToContext(s)
           /\ record' = IF i = fields THEN <<>> ELSE Append(record, v)
           /\ records' = IF i = fields THEN Append(records, Append(record, v)) ELSE records
           /\ step' = IF i = fields THEN "record" ELSE "field"
           /\ UNCHANGED <<blocking, fields, nCount, table, ret>>
  <2>1. step = "field" /\ Sent
    BY DEF Field, PgInv
  <2>2. Sent'
    <3>1. \/ trouble' = trouble
          \/ ~blocking /\ trouble' = "dropped"
      <4> HIDE DEF s
      <4> QED
        BY <1>2 DEF AddToContext
    <3>2. CASE trouble' = "none"
      <4>1. DataInv
        BY <2>1, <3>1, <3>2 DEF Sent
      <4>2. DataInv'
        BY <1>2, <2>1, <3>2, <4>1, FieldKeepsData
      <4> QED
        BY <3>2, <4>2 DEF Sent
    <3>3. CASE trouble' # "none"
      <4>1. ~blocking /\ trouble' = "dropped"
        BY <2>1, <3>1, <3>3 DEF Sent
      <4> QED
        BY <1>2, <4>1 DEF Sent
    <3> QED
      BY <3>2, <3>3
  <2>3. v \in Seq(Chars)
    <3>1. STRING \subseteq Chars
      BY DEF Chars
    <3>2. value \in Seq(Chars)
      BY <3>1, SeqMonotonic DEF PgCopyAssumption
    <3> QED
      BY <3>2, StoredText
  <2>4. /\ record \in Row /\ records \in Seq(Row) /\ fields \in 1 .. FieldCount
        /\ Len(record) < fields /\ \A j \in DOMAIN records : Len(records[j]) = fields
        /\ ret = "none" /\ table = <<>> /\ FieldCount \in Nat
    BY <2>1 DEF PgInv, PgTypeOK, PgCopyAssumption
  <2> HIDE DEF s, v
  <2> DEFINE a == Append(record, v)
  <2>5. a \in Row /\ Len(a) = Len(record) + 1 /\ Len(record) \in Nat
    BY <2>3, <2>4 DEF Row
  <2> HIDE DEF a
  <2>6. <<>> \in Row
    BY DEF Row
  <2>7. CASE i = fields
    <3>1. record' = <<>> /\ records' = Append(records, a) /\ step' = "record"
      BY <1>2, <2>7 DEF a
    <3>2. records' \in Seq(Row) /\ \A j \in DOMAIN records' : Len(records'[j]) = fields
      BY <2>4, <2>5, <2>7, <3>1
    <3> QED
      BY <1>2, <2>2, <2>4, <2>6, <3>1, <3>2 DEF PgInv, PgTypeOK, CopyAllOrNothing
  <2>8. CASE i # fields
    <3>1. record' = a /\ records' = records /\ step' = "field"
      BY <1>2, <2>8 DEF a
    <3>2. Len(a) < fields
      BY <2>4, <2>5, <2>8
    <3> QED
      BY <1>2, <2>2, <2>4, <2>5, <3>1, <3>2 DEF PgInv, PgTypeOK, CopyAllOrNothing
  <2> QED
    BY <2>7, <2>8
<1> QED
  BY <1>1, <1>2, Zenon DEF Field

(* The server takes what the records are, or, if a row has no end, nothing *)
(* at all.                                                                 *)
LEMMA ServerTakes ==
  ASSUME PgCopyAssumption, PgInv, step = "end", DataInv
  PROVE  /\ Accepts(AllData) => Rows(AllData) = records
         /\ fields = FieldCount => Accepts(AllData)
<1> DEFINE start == Reader(<<>>, <<>>, <<>>, "start")
           all == sentData \o buffer
           data == all \o <<EndOfCopy>>
<1>1. /\ buffer \in Seq(Chars) /\ sentData \in Seq(Chars) /\ record = <<>> /\ DataInv
      /\ \A i \in DOMAIN records : Len(records[i]) = fields
  BY DEF PgInv, DataInv
<1>2. all \in Seq(Chars)
  BY <1>1
<1> HIDE DEF all
<1>3. EndOfCopy \in Chars
  BY DEF Chars
<1>4. data \in Seq(Chars) /\ data = Append(all, EndOfCopy)
  BY <1>2, <1>3
<1> HIDE DEF data
<1>5. Parsed(data) = Fold("read", start, data)
  BY <1>4, SeqDomain, ReadIsFold DEF Parsed, Reader
<1>6. Parsed(data) = NextChar(Read, EndOfCopy)
  <2>1. Fold("read", start, Append(all, EndOfCopy)) = Step("read", Fold("read", start, all), EndOfCopy)
    BY <1>2, <1>3, FoldAppend
  <2>2. Read = Fold("read", start, all)
    BY Zenon DEF Read, all
  <2> QED
    BY <1>4, <1>5, <2>1, <2>2 DEF Step
<1>9. AllData = data
  BY Zenon DEF AllData, Rest, data, all
<1>7. CASE fields = FieldCount
  <2>1. Read = Reader(records, <<>>, <<>>, "start")
    BY <1>1, <1>7 DEF DataInv
  <2>2. Parsed(data) = Reader(records, <<>>, <<>>, "done")
    BY <1>6, <2>1, ReadsEnd
  <2>3. Parsed(data).rows = records /\ Parsed(data).mode = "done"
    BY <2>2 DEF Reader
  <2>4. Rows(data) = records
    BY <2>3, Zenon DEF Rows
  <2> QED
    BY <1>1, <1>9, <2>3, <2>4 DEF Accepts
<1>8. CASE fields # FieldCount
  <2>1. PICK w \in Row : /\ Read = Reader(<<>>, w, <<>>, "start")
                         /\ w = <<>> <=> records = <<>> /\ record = <<>>
                         /\ records # <<>> => fields <= Len(w)
    BY <1>1, <1>8 DEF DataInv
  <2>2. CASE w = <<>>
    <3>1. records = <<>>
      BY <2>1, <2>2
    <3>2. Parsed(data) = Reader(<<>>, <<>>, <<>>, "done")
      BY <1>6, <2>1, <2>2, ReadsEnd
    <3>3. Parsed(data).rows = records /\ Parsed(data).mode = "done"
      BY <3>1, <3>2 DEF Reader
    <3>4. Rows(data) = records
      BY <3>3, Zenon DEF Rows
    <3> QED
      BY <1>8, <1>9, <3>4
  <2>3. CASE w # <<>>
    <3> DEFINE c == Append(<<>>, EndOfCopy)
               row == Append(w, c)
    <3>1. Parsed(data) = Reader(<<>>, w, c, "plain")
      BY <1>6, <2>1, <2>3, ReadsEnd
    <3>2. /\ Parsed(data).mode = "plain" /\ Parsed(data).rows = <<>>
          /\ Parsed(data).row = w /\ Parsed(data).field = c
      <4> HIDE DEF c
      <4> QED
        BY <3>1 DEF Reader
    <3>3. row \in Row /\ Len(row) = Len(w) + 1 /\ Len(w) \in Nat
      <4>1. c \in Seq(Chars)
        BY <1>3
      <4> HIDE DEF c
      <4> QED
        BY <2>1, <4>1 DEF Row
    <3> HIDE DEF c
    <3>4. Rows(data) = Append(<<>>, row)
      BY <3>2 DEF Rows
    <3> HIDE DEF row
    <3>5. 1 \in DOMAIN Rows(data) /\ Rows(data)[1] = row
      BY <3>3, <3>4
    <3>6. fields <= Len(w) /\ fields \in Nat
      BY <1>1, <2>1, <2>3 DEF PgInv, PgTypeOK, PgCopyAssumption
    <3>7. Len(row) # fields
      BY <3>3, <3>6
    <3> QED
      BY <1>8, <1>9, <3>5, <3>7 DEF Accepts
  <2> QED
    BY <2>2, <2>3
<1> QED
  BY <1>7, <1>8

(* The end of the transfer.                                                *)
LEMMA FinishKeeps ==
  ASSUME PgCopyAssumption, PgInv, Finish
  PROVE  PgInv'
<1>1. step = "end" /\ Sent /\ ret = "none" /\ table = <<>>
  BY DEF PgInv, Finish
<1>2. /\ step' = "idle"
      /\ UNCHANGED <<blocking, fields, nCount, buffer, sentData, record, records>>
  BY DEF Finish, Ends, Return
<1>3. PICK data : Ends(data) /\ (data = AllData \/ ~blocking)
  BY Zenon DEF Finish
<1>4. \/ /\ Accepts(data) /\ table' = table \o Rows(data) /\ ret' = "true"
         /\ trouble' = IF data = AllData THEN trouble ELSE "dropped"
      \/ /\ ~ Accepts(data) /\ ret' = "false" /\ table' = table
         /\ trouble' = IF data = AllData THEN trouble ELSE "dropped"
      \/ ret' = "false" /\ trouble' = "answer"
      \/ ret' = "false" /\ table' = table /\ trouble' = "failed"
  BY <1>3, Zenon DEF Ends, Return
<1>5. PgTypeOK' /\ \A i \in DOMAIN records' : Len(records'[i]) = fields'
  BY <1>2 DEF PgInv, PgTypeOK
<1>6. CopyAllOrNothing'
  <2>1. CASE trouble = "none" /\ data = AllData
    <3>1. /\ Accepts(data) => Rows(data) = records
          /\ fields = FieldCount => Accepts(data)
      BY <1>1, <2>1, ServerTakes DEF Sent
    <3>2. <<>> \o records = records
      <4>1. records \in Seq(Row)
        BY DEF PgInv, PgTypeOK
      <4> QED
        BY <4>1
    <3> QED
      BY <1>1, <1>2, <1>4, <2>1, <3>1, <3>2 DEF CopyAllOrNothing
  <2>2. CASE ~ (trouble = "none" /\ data = AllData)
    <3>1. ~blocking /\ (IF data = AllData THEN trouble ELSE "dropped") = "dropped"
      BY <1>1, <1>3, <2>2 DEF Sent
    <3> QED
      BY <1>1, <1>2, <1>4, <3>1 DEF CopyAllOrNothing
  <2> QED
    BY <2>1, <2>2
<1>7. step' = "idle" /\ ret' # "none"
  BY <1>2, <1>4
<1> QED
  BY <1>5, <1>6, <1>7 DEF PgInv

-----------------------------------------------------------------------------
(* A copy of any number of records with any number of fields of any        *)
(* characters, through a buffer of any length, which may fail at any       *)
(* point: .T. is returned only if the table has the records that were      *)
(* read, value by value, or if PQputCopyData did not take a buffer on a    *)
(* nonblocking connection, which the code takes for success and where it   *)
(* loses rows; .F. means the table has none of them, or that the server's  *)
(* answer was lost; and a copy of all fields in which nothing fails and no *)
(* buffer is dropped is never refused.                                     *)
THEOREM CopiesAllOrNothing == PgCopyAssumption => (PgSpec => []CopyAllOrNothing)
<1> SUFFICES ASSUME PgCopyAssumption
             PROVE  PgSpec => []CopyAllOrNothing
  OBVIOUS
<1>1. PgInit => PgInv
  BY PgStart
<1>2. PgInv /\ [PgNext]_pgVars => PgInv'
  <2> SUFFICES ASSUME PgInv, [PgNext]_pgVars
               PROVE  PgInv'
    OBVIOUS
  <2>1. ASSUME NEW n \in FieldLists \cup {FieldCount}, NEW most \in 0 .. 1,
               ret = "none", Start(n, most)
        PROVE  PgInv'
    BY <2>1, StartKeeps
  <2>2. CASE LastRecord
    BY <2>2, LastRecordKeeps
  <2>3. CASE NextRecord
    BY <2>3, NextRecordKeeps
  <2>4. ASSUME NEW value \in Values, Field(value)
        PROVE  PgInv'
    BY <2>4, FieldKeeps
  <2>5. CASE FieldFails
    BY <2>5, FailsKeeps DEF FieldFails
  <2>6. CASE Finish
    BY <2>6, FinishKeeps
  <2>7. CASE GiveUp
    BY <2>7, GiveUpKeeps
  <2>8. CASE UNCHANGED pgVars
    BY <2>8 DEF pgVars, PgInv, PgTypeOK, Sent, DataInv, Read, CopyAllOrNothing
  <2> QED
    BY <2>1, <2>2, <2>3, <2>4, <2>5, <2>6, <2>7, <2>8, Zenon DEF PgNext
<1>3. PgInv => CopyAllOrNothing
  BY DEF PgInv
<1> QED
  BY <1>1, <1>2, <1>3, PTL DEF PgSpec

-----------------------------------------------------------------------------
(* Base64: what a decoder makes of the characters of a string.             *)

Octets == 0 .. 255
Octet(s, i) == IF i < Len(s) THEN s[i + 1] ELSE 0

(* The four values of three bytes *)
Sextet(b0, b1, b2, m) ==
  IF m = 0 THEN b0 \div 4
  ELSE IF m = 1 THEN (b0 % 4) * 16 + (b1 \div 16)
  ELSE IF m = 2 THEN (b1 % 16) * 4 + (b2 \div 64)
  ELSE b2 % 64

(* What is decoded from four values *)
Byte0(v0, v1) == ((v0 * 4) % 256) + (v1 \div 16)
Byte2(v2, v3) == (v2 % 4) * 64 + v3

(* The values are smaller than 64, and give the bytes back.                *)
LEMMA SextetsOfBytes ==
  ASSUME NEW b0 \in Octets, NEW b1 \in Octets, NEW b2 \in Octets
  PROVE  /\ \A m \in 0 .. 3 : Sextet(b0, b1, b2, m) \in 0 .. 63
         /\ Byte0(Sextet(b0, b1, b2, 0), Sextet(b0, b1, b2, 1)) = b0
         /\ SecondByte(Sextet(b0, b1, b2, 1), Sextet(b0, b1, b2, 2)) = b1
         /\ Byte2(Sextet(b0, b1, b2, 2), Sextet(b0, b1, b2, 3)) = b2
<1> DEFINE p == b0 \div 4
           q == b0 % 4
           x1 == b1 \div 16
           y1 == b1 % 16
           x2 == b2 \div 64
           y2 == b2 % 64
<1>1. /\ p \in 0 .. 63 /\ q \in 0 .. 3 /\ b0 = 4 * p + q
      /\ x1 \in 0 .. 15 /\ y1 \in 0 .. 15 /\ b1 = 16 * x1 + y1
      /\ x2 \in 0 .. 3 /\ y2 \in 0 .. 63 /\ b2 = 64 * x2 + y2
  <2>1. \A b \in 0 .. 255 : b \div 4 \in 0 .. 63 /\ b % 4 \in 0 .. 3 /\ b = 4 * (b \div 4) + (b % 4)
    OBVIOUS
  <2>2. \A b \in 0 .. 255 : /\ b \div 16 \in 0 .. 15 /\ b % 16 \in 0 .. 15
                           /\ b = 16 * (b \div 16) + (b % 16)
    OBVIOUS
  <2>3. \A b \in 0 .. 255 : /\ b \div 64 \in 0 .. 3 /\ b % 64 \in 0 .. 63
                           /\ b = 64 * (b \div 64) + (b % 64)
    OBVIOUS
  <2>4. b0 \in 0 .. 255 /\ b1 \in 0 .. 255 /\ b2 \in 0 .. 255
    BY DEF Octets
  <2> QED
    BY <2>1, <2>2, <2>3, <2>4
<1>9. /\ Sextet(b0, b1, b2, 0) = p /\ Sextet(b0, b1, b2, 1) = q * 16 + x1
      /\ Sextet(b0, b1, b2, 2) = y1 * 4 + x2 /\ Sextet(b0, b1, b2, 3) = y2
  BY DEF Sextet
<1> HIDE DEF p, q, x1, y1, x2, y2
<1>2. \A m \in 0 .. 3 : Sextet(b0, b1, b2, m) \in 0 .. 63
  <2>1. \A m \in 0 .. 3 : m = 0 \/ m = 1 \/ m = 2 \/ m = 3
    OBVIOUS
  <2> QED
    BY <1>1, <1>9, <2>1
<1>3. ASSUME NEW x \in 0 .. 63, NEW y \in 0 .. 3, NEW z \in 0 .. 15
      PROVE  ((x * 4) % 256) + ((y * 16 + z) \div 16) = 4 * x + y
  <2>1. (x * 4) % 256 = 4 * x
    OBVIOUS
  <2>2. (y * 16 + z) \div 16 = y
    OBVIOUS
  <2> QED
    BY <2>1, <2>2
<1>4. Byte0(Sextet(b0, b1, b2, 0), Sextet(b0, b1, b2, 1)) = b0
  <2>1. ((p * 4) % 256) + ((q * 16 + x1) \div 16) = 4 * p + q
    BY <1>1, <1>3
  <2> QED
    BY <1>1, <1>9, <2>1 DEF Byte0
<1>5. ASSUME NEW x \in 0 .. 3, NEW y \in 0 .. 15, NEW z \in 0 .. 15, NEW u \in 0 .. 3
      PROVE  (((x * 16 + y) % 16) * 16) + (((z * 4 + u) \div 4) % 16) = 16 * y + z
  <2>1. (x * 16 + y) % 16 = y
    OBVIOUS
  <2>2. (z * 4 + u) \div 4 = z /\ z % 16 = z
    OBVIOUS
  <2> QED
    BY <2>1, <2>2
<1>6. SecondByte(Sextet(b0, b1, b2, 1), Sextet(b0, b1, b2, 2)) = b1
  <2>1. (((q * 16 + x1) % 16) * 16) + (((y1 * 4 + x2) \div 4) % 16) = 16 * x1 + y1
    BY <1>1, <1>5
  <2> QED
    BY <1>1, <1>9, <2>1 DEF SecondByte
<1>7. ASSUME NEW x \in 0 .. 15, NEW y \in 0 .. 3, NEW z \in 0 .. 63
      PROVE  ((x * 4 + y) % 4) * 64 + z = 64 * y + z
  <2>1. (x * 4 + y) % 4 = y
    OBVIOUS
  <2> QED
    BY <2>1
<1>8. Byte2(Sextet(b0, b1, b2, 2), Sextet(b0, b1, b2, 3)) = b2
  <2>1. ((y1 * 4 + x2) % 4) * 64 + y2 = 64 * x2 + y2
    BY <1>1, <1>7
  <2> QED
    BY <1>1, <1>9, <2>1 DEF Byte2
<1> QED
  BY <1>2, <1>4, <1>6, <1>8

(* The groups of a string: the last one has a byte.                        *)
LEMMA GroupsAre ==
  ASSUME NEW n \in Nat
  PROVE  /\ Groups(n) \in Nat /\ 3 * Groups(n) >= n /\ 3 * Groups(n) <= n + 2
         /\ \A g \in Nat : g < Groups(n) => 3 * g < n
  BY DEF Groups

(* The value of a character of a group, which is 0 for an = sign.          *)
ValueIn(s, g, m) ==
  Sextet(Octet(s, 3 * g), Octet(s, 3 * g + 1), Octet(s, 3 * g + 2), m)

(* An octet, or 0 behind the end.                                         *)
LEMMA OctetIs ==
  ASSUME NEW s \in Seq(Octets), NEW i \in Nat
  PROVE  Octet(s, i) \in Octets /\ (i >= Len(s) => Octet(s, i) = 0)
<1>1. i < Len(s) => s[i + 1] \in Octets
  OBVIOUS
<1>2. 0 \in Octets
  BY DEF Octets
<1> QED
  BY <1>1, <1>2 DEF Octet

(* Of the last bytes only the characters they need.                        *)
LEMMA CharacterIs ==
  ASSUME NEW s \in Seq(Octets), NEW g \in Nat, 3 * g < Len(s), NEW m \in 0 .. 3
  PROVE  /\ GroupChars(s, g)[m] \in 0 .. 64
         /\ ValueOf(GroupChars(s, g)[m]) = ValueIn(s, g, m)
<1> DEFINE n == Len(s) - 3 * g
           b0 == Octet(s, 3 * g)
           b1 == Octet(s, 3 * g + 1)
           b2 == Octet(s, 3 * g + 2)
           c == GroupChars(s, g)[m]
           v == ValueIn(s, g, m)
<1>1. Len(s) \in Nat /\ n \in Nat /\ n >= 1
  OBVIOUS
<1>2. b0 \in Octets /\ b1 \in Octets /\ b2 \in Octets
  BY OctetIs
<1>3. (n <= 1 => b1 = 0) /\ (n <= 2 => b2 = 0)
  BY <1>1, OctetIs
<1>4. /\ m = 0 => c = b0 \div 4
      /\ m = 1 => c = (b0 % 4) * 16 + (b1 \div 16)
      /\ m = 2 => c = IF n <= 1 THEN Equals ELSE (b1 % 16) * 4 + (b2 \div 64)
      /\ m = 3 => c = IF n <= 2 THEN Equals ELSE b2 % 64
  <2> DEFINE t(i) == IF i < n THEN s[3 * g + i + 1] ELSE 0
  <2>1. t(0) = b0 /\ t(1) = b1 /\ t(2) = b2
    BY <1>1 DEF Octet
  <2>2. c = CASE m = 0 -> t(0) \div 4
              [] m = 1 -> (t(0) % 4) * 16 + (t(1) \div 16)
              [] m = 2 -> IF n <= 1 THEN Equals ELSE (t(1) % 16) * 4 + (t(2) \div 64)
              [] OTHER -> IF n <= 2 THEN Equals ELSE t(2) % 64
    BY DEF GroupChars
  <2> HIDE DEF t, c, n, b0, b1, b2
  <2> QED
    BY <2>1, <2>2
<1>5. v = Sextet(b0, b1, b2, m)
  BY DEF ValueIn
<1> HIDE DEF n, b0, b1, b2, c, v
<1>6. \A i \in 0 .. 3 : Sextet(b0, b1, b2, i) \in 0 .. 63
  BY <1>2, SextetsOfBytes
<1>7. v \in 0 .. 63
  BY <1>5, <1>6
<1>8. c = v \/ (c = Equals /\ v = 0)
  <2>1. CASE m = 2 /\ n <= 1
    <3>1. v = 0
      BY <1>3, <1>1, <1>5, <2>1 DEF Sextet
    <3> QED
      BY <1>4, <2>1, <3>1
  <2>2. CASE m = 3 /\ n <= 2
    <3>1. v = 0
      BY <1>3, <1>1, <1>5, <2>2 DEF Sextet
    <3> QED
      BY <1>4, <2>2, <3>1
  <2>3. CASE ~ (m = 2 /\ n <= 1) /\ ~ (m = 3 /\ n <= 2)
    BY <1>4, <1>5, <2>3 DEF Sextet
  <2> QED
    BY <2>1, <2>2, <2>3
<1>9. c \in 0 .. 64 /\ ValueOf(c) = v
  BY <1>7, <1>8 DEF ValueOf, Equals
<1> QED
  BY <1>9 DEF c, v

(* The characters of a string without line breaks, and = signs behind.     *)
PlainChar(s, i) ==
  IF i \div 4 < Groups(Len(s)) THEN GroupChars(s, i \div 4)[i % 4] ELSE Equals
IsPlain(w, s) ==
  /\ Len(w) \in Nat /\ Len(w) >= 4 * Groups(Len(s))
  /\ \A i \in 0 .. Len(w) - 1 : w[i + 1] = PlainChar(s, i)

ValueAt(w, g, m) == IF 4 * g + m < Len(w) THEN ValueOf(w[4 * g + m + 1]) ELSE 0

(* The decoder gets the values of all groups, and 0 from then on.          *)
LEMMA ValuesAre ==
  ASSUME NEW s \in Seq(Octets), NEW w, IsPlain(w, s), NEW g \in Nat, NEW m \in 0 .. 3
  PROVE  ValueAt(w, g, m) = ValueIn(s, g, m)
<1> DEFINE n == Len(s)
           i == 4 * g + m
<1>1. n \in Nat /\ i \in Nat /\ i \div 4 = g /\ i % 4 = m
  OBVIOUS
<1>2. Groups(n) \in Nat /\ 3 * Groups(n) >= n /\ (g < Groups(n) => 3 * g < n)
  BY <1>1, GroupsAre
<1>3. /\ Len(w) \in Nat /\ Len(w) >= 4 * Groups(n)
      /\ \A j \in 0 .. Len(w) - 1 : w[j + 1] = PlainChar(s, j)
  BY DEF IsPlain
<1> HIDE DEF n, i
<1>4. ValueAt(w, g, m) = IF i < Len(w) THEN ValueOf(w[i + 1]) ELSE 0
  BY DEF ValueAt, i
<1>5. CASE g < Groups(n)
  <2>1. i \in 0 .. Len(w) - 1
    BY <1>1, <1>2, <1>3, <1>5 DEF i
  <2>2. w[i + 1] = GroupChars(s, g)[m]
    BY <1>1, <1>3, <1>5, <2>1 DEF PlainChar, n
  <2>3. 3 * g < Len(s)
    BY <1>2, <1>5 DEF n
  <2>4. ValueOf(GroupChars(s, g)[m]) = ValueIn(s, g, m)
    BY <2>3, CharacterIs
  <2> QED
    BY <1>3, <1>4, <2>1, <2>2, <2>4
<1>6. CASE ~ (g < Groups(n))
  <2>1. ValueIn(s, g, m) = 0
    <3>1. Octet(s, 3 * g) = 0 /\ Octet(s, 3 * g + 1) = 0 /\ Octet(s, 3 * g + 2) = 0
      <4>1. 3 * g >= n /\ 3 * g \in Nat /\ 3 * g + 1 \in Nat /\ 3 * g + 2 \in Nat
        BY <1>1, <1>2, <1>6
      <4>2. 3 * g >= Len(s) /\ 3 * g + 1 >= Len(s) /\ 3 * g + 2 >= Len(s)
        BY <1>1, <4>1 DEF n
      <4> QED
        BY <4>1, <4>2, OctetIs
    <3> QED
      BY <3>1 DEF ValueIn, Sextet
  <2>2. i < Len(w) => w[i + 1] = Equals
    BY <1>1, <1>3, <1>6 DEF PlainChar, n
  <2> QED
    BY <1>4, <2>1, <2>2 DEF ValueOf, Equals
<1> QED
  BY <1>5, <1>6

(* What is decoded has the bytes of the string, and zeros behind them.     *)
LEMMA PlainDecodes ==
  ASSUME NEW s \in Seq(Octets), NEW w, IsPlain(w, s)
  PROVE  LET d == Decode64(w)
         IN  /\ \A i \in DOMAIN d : d[i] = IF i \in DOMAIN s THEN s[i] ELSE 0
             /\ Len(d) >= Len(s)
<1> DEFINE d == Decode64(w)
           l == 3 * ((Len(w) + 3) \div 4)
<1>1. Len(s) \in Nat /\ DOMAIN s = 1 .. Len(s)
  OBVIOUS
<1>2. /\ Len(w) \in Nat /\ Len(w) >= 4 * Groups(Len(s))
      /\ Groups(Len(s)) \in Nat /\ 3 * Groups(Len(s)) >= Len(s)
  BY <1>1, GroupsAre DEF IsPlain
<1>3. l \in Nat /\ l >= Len(s)
  BY <1>1, <1>2
<1>4. d = [k \in 1 .. l |->
             LET g == (k - 1) \div 3
                 i == (k - 1) % 3
             IN  CASE i = 0 -> Byte0(ValueAt(w, g, 0), ValueAt(w, g, 1))
                   [] i = 1 -> SecondByte(ValueAt(w, g, 1), ValueAt(w, g, 2))
                   [] OTHER -> Byte2(ValueAt(w, g, 2), ValueAt(w, g, 3))]
  BY Zenon DEF Decode64, ValueAt, Byte0, Byte2
<1> HIDE DEF d, l
<1>5. DOMAIN d = 1 .. l /\ Len(d) = l
  BY <1>3, <1>4
<1>6. ASSUME NEW k \in 1 .. l
      PROVE  d[k] = Octet(s, k - 1)
  <2> DEFINE g == (k - 1) \div 3
             i == (k - 1) % 3
             b0 == Octet(s, 3 * g)
             b1 == Octet(s, 3 * g + 1)
             b2 == Octet(s, 3 * g + 2)
  <2>1. /\ g \in Nat /\ 3 * g \in Nat /\ 3 * g + 1 \in Nat /\ 3 * g + 2 \in Nat
        /\ i \in 0 .. 2 /\ k - 1 = 3 * g + i
    BY <1>3
  <2>2. d[k] = CASE i = 0 -> Byte0(ValueAt(w, g, 0), ValueAt(w, g, 1))
                 [] i = 1 -> SecondByte(ValueAt(w, g, 1), ValueAt(w, g, 2))
                 [] OTHER -> Byte2(ValueAt(w, g, 2), ValueAt(w, g, 3))
    BY <1>4
  <2>3. b0 \in Octets /\ b1 \in Octets /\ b2 \in Octets
    BY <2>1, OctetIs
  <2> HIDE DEF g, i
  <2>4. \A m \in 0 .. 3 : ValueAt(w, g, m) = Sextet(b0, b1, b2, m)
    <3>1. \A m \in 0 .. 3 : ValueAt(w, g, m) = ValueIn(s, g, m)
      BY <2>1, ValuesAre
    <3> QED
      BY <3>1 DEF ValueIn
  <2> HIDE DEF b0, b1, b2
  <2>5. /\ Byte0(Sextet(b0, b1, b2, 0), Sextet(b0, b1, b2, 1)) = b0
        /\ SecondByte(Sextet(b0, b1, b2, 1), Sextet(b0, b1, b2, 2)) = b1
        /\ Byte2(Sextet(b0, b1, b2, 2), Sextet(b0, b1, b2, 3)) = b2
    BY <2>3, SextetsOfBytes
  <2>6. d[k] = IF i = 0 THEN b0 ELSE IF i = 1 THEN b1 ELSE b2
    <3>1. 0 \in 0 .. 3 /\ 1 \in 0 .. 3 /\ 2 \in 0 .. 3 /\ 3 \in 0 .. 3
      OBVIOUS
    <3> QED
      BY <2>1, <2>2, <2>4, <2>5, <3>1
  <2>7. b0 = Octet(s, 3 * g) /\ b1 = Octet(s, 3 * g + 1) /\ b2 = Octet(s, 3 * g + 2)
    BY DEF b0, b1, b2
  <2>8. i = 0 \/ i = 1 \/ i = 2
    BY <2>1
  <2>9. i = 0 => k - 1 = 3 * g
    BY <2>1
  <2> QED
    BY <2>1, <2>6, <2>7, <2>8, <2>9
<1>7. ASSUME NEW k \in DOMAIN d
      PROVE  d[k] = IF k \in DOMAIN s THEN s[k] ELSE 0
  <2>1. k \in 1 .. l
    BY <1>5
  <2>2. d[k] = Octet(s, k - 1) /\ k - 1 \in Nat
    BY <1>6, <2>1, <1>3
  <2>3. Octet(s, k - 1) = IF k \in 1 .. Len(s) THEN s[k] ELSE 0
    BY <1>1, <1>3, <2>1 DEF Octet
  <2> QED
    BY <1>1, <2>2, <2>3
<1>8. Len(d) >= Len(s)
  BY <1>3, <1>5
<1> QED
  BY <1>7, <1>8 DEF d

-----------------------------------------------------------------------------
(* Base64: where the characters are put.                                   *)

(* The groups, of the first g, that a line break is written after *)
Breaks(g, l) == {j \in 1 .. g : BreakAfter(j, l)}

(* A finite set, as a part of an interval.                                 *)
LEMMA BreaksAreFinite ==
  ASSUME NEW g \in Nat, NEW l
  PROVE  IsFiniteSet(Breaks(g, l)) /\ Cardinality(Breaks(g, l)) \in Nat
<1>1. IsFiniteSet(1 .. g)
  BY FS_Interval
<1>2. Breaks(g, l) \subseteq 1 .. g
  BY DEF Breaks
<1>3. IsFiniteSet(Breaks(g, l))
  BY <1>1, <1>2, FS_Subset
<1> QED
  BY <1>3, FS_CardinalityType

(* The first group is at the beginning, and each behind the one before.    *)
LEMMA StartsAre ==
  ASSUME NEW g \in Nat, NEW l
  PROVE  /\ StartOf(g, l) \in Nat
         /\ StartOf(0, l) = 0
         /\ StartOf(g + 1, l) = StartOf(g, l) + (IF BreakAfter(g + 1, l) THEN 6 ELSE 4)
<1>1. \A h \in Nat : StartOf(h, l) = 4 * h + 2 * Cardinality(Breaks(h, l))
  BY DEF StartOf, Breaks
<1>2. Cardinality(Breaks(g, l)) \in Nat /\ IsFiniteSet(Breaks(g, l))
  BY BreaksAreFinite
<1>3. Cardinality(Breaks(0, l)) = 0
  <2>1. Breaks(0, l) = {}
    BY DEF Breaks
  <2> QED
    BY <2>1, FS_EmptySet
<1>4. Cardinality(Breaks(g + 1, l)) =
        Cardinality(Breaks(g, l)) + (IF BreakAfter(g + 1, l) THEN 1 ELSE 0)
  <2>1. CASE BreakAfter(g + 1, l)
    <3>1. Breaks(g + 1, l) = Breaks(g, l) \cup {g + 1} /\ g + 1 \notin Breaks(g, l)
      BY <2>1 DEF Breaks
    <3>2. Cardinality(Breaks(g, l) \cup {g + 1}) = Cardinality(Breaks(g, l)) + 1
      BY <1>2, <3>1, FS_AddElement
    <3> QED
      BY <2>1, <3>1, <3>2
  <2>2. CASE ~ BreakAfter(g + 1, l)
    <3>1. Breaks(g + 1, l) = Breaks(g, l)
      <4>1. \A j : j \in 1 .. g + 1 <=> j \in 1 .. g \/ j = g + 1
        OBVIOUS
      <4> QED
        BY <2>2, <4>1, Zenon DEF Breaks
    <3> QED
      BY <1>2, <2>2, <3>1
  <2> QED
    BY <2>1, <2>2
<1> QED
  BY <1>1, <1>2, <1>3, <1>4

(* A later group is further behind.                                        *)
LEMMA StartsGrow ==
  ASSUME NEW g \in Nat, NEW h \in Nat, g <= h, NEW l
  PROVE  StartOf(g, l) + 4 * (h - g) <= StartOf(h, l)
<1>1. Breaks(g, l) \subseteq Breaks(h, l)
  BY DEF Breaks
<1>2. /\ IsFiniteSet(Breaks(h, l)) /\ Cardinality(Breaks(h, l)) \in Nat
      /\ Cardinality(Breaks(g, l)) \in Nat
  BY BreaksAreFinite
<1>3. Cardinality(Breaks(g, l)) <= Cardinality(Breaks(h, l))
  BY <1>1, <1>2, FS_Subset
<1>4. /\ StartOf(g, l) = 4 * g + 2 * Cardinality(Breaks(g, l))
      /\ StartOf(h, l) = 4 * h + 2 * Cardinality(Breaks(h, l))
  BY DEF StartOf, Breaks
<1> QED
  BY <1>2, <1>3, <1>4

(* Every character is in one group at most, in its place there.            *)
LEMMA CharOfGroup ==
  ASSUME NEW s, NEW n \in Nat, Len(s) = n, NEW l, NEW g \in 0 .. Groups(n) - 1,
         NEW m \in 0 .. 5, m < 4 \/ BreakAfter(g + 1, l)
  PROVE  CharAt(s, l, StartOf(g, l) + m) =
           IF m < 4 THEN GroupChars(s, g)[m] ELSE IF m = 4 THEN CR ELSE LF
<1> DEFINE i == StartOf(g, l) + m
           written == {h \in 0 .. Groups(Len(s)) - 1 :
                         StartOf(h, l) <= i /\ i < StartOf(h + 1, l)}
           c == CHOOSE h \in written : TRUE
<1>1. Groups(n) \in Nat /\ g \in Nat
  BY GroupsAre
<1>2. /\ StartOf(g, l) \in Nat /\ StartOf(g + 1, l) \in Nat
      /\ StartOf(g + 1, l) = StartOf(g, l) + (IF BreakAfter(g + 1, l) THEN 6 ELSE 4)
  BY <1>1, StartsAre
<1>3. g \in written
  <2>1. StartOf(g, l) <= i /\ i < StartOf(g + 1, l)
    BY <1>2
  <2> QED
    BY <1>1, <2>1
<1>4. ASSUME NEW h \in written
      PROVE  h = g
  <2>1. h \in Nat /\ h + 1 \in Nat /\ g + 1 \in Nat
    BY <1>1
  <2>2. StartOf(h, l) \in Nat /\ StartOf(h + 1, l) \in Nat
    BY <2>1, StartsAre
  <2>3. StartOf(h, l) <= i /\ i < StartOf(h + 1, l) /\ StartOf(g, l) <= i /\ i < StartOf(g + 1, l)
    BY <1>2
  <2> HIDE DEF i, written
  <2>4. i \in Nat
    BY <1>2 DEF i
  <2>5. CASE h < g
    <3>1. StartOf(h + 1, l) + 4 * (g - (h + 1)) <= StartOf(g, l)
      BY <1>1, <2>1, <2>5, StartsGrow
    <3>2. 4 * (g - (h + 1)) >= 0 /\ 4 * (g - (h + 1)) \in Int
      BY <1>1, <2>1, <2>5
    <3> QED
      BY <1>2, <2>2, <2>3, <2>4, <3>1, <3>2
  <2>6. CASE g < h
    <3>1. StartOf(g + 1, l) + 4 * (h - (g + 1)) <= StartOf(h, l)
      BY <1>1, <2>1, <2>6, StartsGrow
    <3>2. 4 * (h - (g + 1)) >= 0 /\ 4 * (h - (g + 1)) \in Int
      BY <1>1, <2>1, <2>6
    <3> QED
      BY <1>2, <2>2, <2>3, <2>4, <3>1, <3>2
  <2> QED
    BY <1>1, <2>1, <2>5, <2>6
<1>5. c = g
  <2> HIDE DEF written
  <2> QED
    BY <1>3, <1>4
<1>6. CharAt(s, l, i) = IF written = {} THEN Equals
                        ELSE IF i - StartOf(c, l) < 4 THEN GroupChars(s, c)[i - StartOf(c, l)]
                        ELSE IF i - StartOf(c, l) = 4 THEN CR ELSE LF
  BY DEF CharAt
<1>7. i - StartOf(g, l) = m
  BY <1>2
<1> HIDE DEF written, i, c
<1>8. CharAt(s, l, i) = IF m < 4 THEN GroupChars(s, g)[m] ELSE IF m = 4 THEN CR ELSE LF
  BY <1>3, <1>5, <1>6, <1>7
<1> QED
  BY <1>8 DEF i

(* Behind the last group the buffer keeps its = signs.                     *)
LEMMA CharBehind ==
  ASSUME NEW s, NEW n \in Nat, Len(s) = n, NEW l, NEW i \in Nat, i >= EndOfWrites(n, l)
  PROVE  CharAt(s, l, i) = Equals
<1> DEFINE written == {h \in 0 .. Groups(Len(s)) - 1 :
                         StartOf(h, l) <= i /\ i < StartOf(h + 1, l)}
<1>1. Groups(n) \in Nat
  BY GroupsAre
<1>2. ASSUME NEW h \in written
      PROVE  FALSE
  <2>1. h \in Nat /\ h + 1 \in Nat /\ h + 1 <= Groups(n) /\ i < StartOf(h + 1, l)
    BY <1>1
  <2>2. StartOf(h + 1, l) \in Nat /\ StartOf(Groups(n), l) \in Nat
    BY <1>1, <2>1, StartsAre
  <2>3. StartOf(h + 1, l) + 4 * (Groups(n) - (h + 1)) <= StartOf(Groups(n), l)
    BY <1>1, <2>1, StartsGrow
  <2>4. i >= StartOf(Groups(n), l)
    BY DEF EndOfWrites
  <2> QED
    BY <1>1, <2>1, <2>2, <2>3, <2>4
<1>3. written = {}
  <2> HIDE DEF written
  <2> QED
    BY <1>2
<1> QED
  BY <1>3, Zenon DEF CharAt

-----------------------------------------------------------------------------
(* Base64: the size of the buffer.                                         *)

(* Division by a number that is not known.                                 *)
LEMMA Division ==
  ASSUME NEW a \in Nat, NEW l \in Nat, l >= 1
  PROVE  /\ a \div l \in Nat /\ a % l \in Nat /\ a % l < l
         /\ a = l * (a \div l) + (a % l)
  OBVIOUS

(* Multiplying keeps the order.                                            *)
LEMMA TimesGrows ==
  ASSUME NEW l \in Nat, NEW a \in Nat, NEW b \in Nat, a <= b
  PROVE  l * a <= l * b
<1>1. l * b = l * a + l * (b - a) /\ l * (b - a) >= 0
  OBVIOUS
<1> QED
  BY <1>1

(* There is room for as many line breaks as are written.                   *)
LEMMA BreaksFit ==
  ASSUME NEW n \in Nat, NEW l \in Nat, l >= 1
  PROVE  Cardinality(Breaks(Groups(n), l)) <= (n \div l) + 1
<1> DEFINE B == Breaks(Groups(n), l)
           d == n \div l
<1>1. Groups(n) \in Nat /\ 3 * Groups(n) <= n + 2
  BY GroupsAre
<1>2. d \in Nat /\ n < l * d + l
  BY Division
<1>3. IsFiniteSet(1 .. d + 1) /\ Cardinality(1 .. d + 1) = d + 1
  BY <1>2, FS_Interval
<1>4. CASE l = 1
  <2>1. d = n
    BY <1>4
  <2>2. IsFiniteSet(1 .. Groups(n)) /\ Cardinality(1 .. Groups(n)) <= n
    BY <1>1, FS_Interval DEF Groups
  <2>3. B \subseteq 1 .. Groups(n)
    BY DEF Breaks
  <2>4. Cardinality(B) <= Cardinality(1 .. Groups(n))
    BY <2>2, <2>3, FS_Subset
  <2>5. Cardinality(B) \in Nat /\ Cardinality(1 .. Groups(n)) \in Nat
    BY <1>1, <2>2, BreaksAreFinite, FS_CardinalityType
  <2> QED
    BY <2>1, <2>2, <2>4, <2>5
<1>5. CASE l >= 2
  <2> DEFINE f == [j \in B |-> (3 * j) \div l]
  <2>1. ASSUME NEW j \in B
        PROVE  /\ f[j] \in 1 .. d + 1
               /\ 3 * j = l * f[j]
    <3> DEFINE q == (3 * j) \div l
    <3>1. j \in Nat /\ 3 * j \in Nat /\ 3 * j >= 3 /\ 3 * j <= n + 2 /\ (3 * j) % l = 0
      BY <1>1, <1>5 DEF Breaks, BreakAfter
    <3>2. q \in Nat /\ 3 * j = l * q
      BY <1>5, <3>1, Division
    <3> HIDE DEF q
    <3>3. q >= 1
      BY <3>1, <3>2
    <3>4. q <= d + 1
      <4>1. SUFFICES ASSUME d + 2 <= q PROVE FALSE
        BY <1>2, <3>2
      <4>2. l * (d + 2) <= l * q
        BY <1>2, <3>2, <4>1, TimesGrows
      <4>3. l * (d + 2) = l * d + 2 * l
        BY <1>2
      <4> HIDE DEF d
      <4> QED
        BY <1>2, <1>5, <3>1, <3>2, <4>2, <4>3
    <3>5. f[j] = q
      BY DEF q
    <3> QED
      BY <1>2, <3>2, <3>3, <3>4, <3>5
  <2> HIDE DEF d
  <2>2. f \in Injection(B, 1 .. d + 1)
    <3>1. f \in [B -> 1 .. d + 1]
      BY <2>1
    <3>2. ASSUME NEW i \in B, NEW j \in B, f[i] = f[j]
          PROVE  i = j
      <4>1. 3 * i = 3 * j
        BY <2>1, <3>2
      <4>2. i \in Nat /\ j \in Nat
        BY DEF Breaks
      <4> QED
        BY <4>1, <4>2
    <3> QED
      BY <3>1, <3>2, Zenon DEF Injection, IsInjective
  <2>3. Cardinality(B) <= Cardinality(1 .. d + 1)
    BY <1>3, <2>2, FS_Injection
  <2> QED
    BY <1>3, <2>3 DEF d
<1> QED
  BY <1>4, <1>5

(* The code writes no further than the buffer.                             *)
LEMMA WritesFit ==
  ASSUME NEW n \in Nat, NEW l \in Nat
  PROVE  /\ EncodedLen(n, l) \in Nat /\ EndOfWrites(n, l) \in Nat
         /\ EndOfWrites(n, l) <= EncodedLen(n, l)
         /\ l = 0 => EndOfWrites(n, l) = 4 * Groups(n) /\ EncodedLen(n, l) = 4 * Groups(n)
<1>1. Groups(n) \in Nat
  BY GroupsAre
<1>2. EndOfWrites(n, l) = 4 * Groups(n) + 2 * Cardinality(Breaks(Groups(n), l))
  BY DEF EndOfWrites, StartOf, Breaks
<1>3. Cardinality(Breaks(Groups(n), l)) \in Nat
  BY <1>1, BreaksAreFinite
<1>4. CASE l = 0
  <2>1. Breaks(Groups(n), l) = {}
    BY <1>4 DEF Breaks, BreakAfter
  <2>2. Cardinality(Breaks(Groups(n), l)) = 0
    BY <2>1, FS_EmptySet
  <2>3. EncodedLen(n, l) = 4 * Groups(n)
    BY <1>1, <1>4 DEF EncodedLen
  <2> QED
    BY <1>1, <1>2, <2>2, <2>3
<1>5. CASE l >= 1
  <2>1. Cardinality(Breaks(Groups(n), l)) <= (n \div l) + 1
    BY <1>5, BreaksFit
  <2>2. n \div l \in Nat
    BY <1>5, Division
  <2>3. EncodedLen(n, l) = 4 * Groups(n) + ((n \div l) + 1) * 2
    BY <1>5 DEF EncodedLen
  <2> DEFINE d == n \div l
  <2> HIDE DEF d
  <2>4. /\ d \in Nat /\ EncodedLen(n, l) = 4 * Groups(n) + (d + 1) * 2
        /\ Cardinality(Breaks(Groups(n), l)) <= d + 1
    BY <2>1, <2>2, <2>3 DEF d
  <2> QED
    BY <1>1, <1>2, <1>3, <1>5, <2>4
<1> QED
  BY <1>4, <1>5

-----------------------------------------------------------------------------
(* Base64: the characters without the line breaks.                         *)

Plain(s, k) == [i \in 1 .. k |-> PlainChar(s, i - 1)]
Skipped(c, k) == Fold("skip", <<>>, SubSeq(c, 1, k))

(* The characters are copied one after the other.                          *)
LEMMA SkippingIs ==
  ASSUME NEW T, NEW c \in Seq(T)
  PROVE  /\ Skipped(c, 0) = <<>>
         /\ \A k \in 0 .. Len(c) - 1 : Skipped(c, k + 1) = SkipBreak(Skipped(c, k), c[k + 1])
         /\ WithoutBreaks(c) = Skipped(c, Len(c))
<1>1. Skipped(c, 0) = <<>>
  <2>1. SubSeq(c, 1, 0) = <<>>
    OBVIOUS
  <2> QED
    BY <2>1, FoldEmpty DEF Skipped
<1>2. ASSUME NEW k \in 0 .. Len(c) - 1
      PROVE  Skipped(c, k + 1) = SkipBreak(Skipped(c, k), c[k + 1])
  <2> DEFINE u == SubSeq(c, 1, k)
             x == c[k + 1]
             e == <<>>
  <2>1. u \in Seq(T) /\ x \in T /\ SubSeq(c, 1, k + 1) = Append(u, x)
    OBVIOUS
  <2> HIDE DEF u, x, e
  <2>2. Fold("skip", e, Append(u, x)) = Step("skip", Fold("skip", e, u), x)
    BY <2>1, FoldAppend
  <2>3. Step("skip", Fold("skip", e, u), x) = SkipBreak(Fold("skip", e, u), x)
    BY DEF Step
  <2> QED
    BY <2>1, <2>2, <2>3, Zenon DEF Skipped, u, x, e
<1>3. WithoutBreaks(c) = Skipped(c, Len(c))
  <2>1. DOMAIN c = 1 .. Len(c) /\ Len(c) \in Nat
    OBVIOUS
  <2>2. SubSeq(c, 1, Len(c)) = c
    OBVIOUS
  <2>3. FoldLeft(SkipBreak, <<>>, c) = Fold("skip", <<>>, c)
    BY <2>1, SkipIsFold, Zenon
  <2> QED
    BY <2>2, <2>3, Zenon DEF WithoutBreaks, Skipped
<1> QED
  BY <1>1, <1>2, <1>3

(* No character of a string without line breaks is one.                    *)
LEMMA PlainCharIs ==
  ASSUME NEW s \in Seq(Octets), NEW i \in Nat
  PROVE  PlainChar(s, i) \notin {CR, LF}
<1> DEFINE g == i \div 4
           m == i % 4
<1>1. g \in Nat /\ m \in 0 .. 3 /\ Len(s) \in Nat
  OBVIOUS
<1>2. g < Groups(Len(s)) => 3 * g < Len(s)
  BY <1>1, GroupsAre
<1>3. PlainChar(s, i) = IF g < Groups(Len(s)) THEN GroupChars(s, g)[m] ELSE Equals
  BY DEF PlainChar
<1> HIDE DEF g, m
<1>4. CASE g < Groups(Len(s))
  <2>1. GroupChars(s, g)[m] \in 0 .. 64
    BY <1>1, <1>2, <1>4, CharacterIs
  <2>2. \A x \in 0 .. 64 : x \notin {CR, LF}
    BY DEF CR, LF
  <2>3. GroupChars(s, g)[m] \notin {CR, LF}
    BY <2>1, <2>2, Zenon
  <2> QED
    BY <1>3, <1>4, <2>3, Zenon
<1>5. CASE ~ (g < Groups(Len(s)))
  BY <1>3, <1>5 DEF CR, LF, Equals
<1> QED
  BY <1>4, <1>5

(* One character more.                                                     *)
LEMMA PlainGoesOn ==
  ASSUME NEW s \in Seq(Octets), NEW k \in Nat
  PROVE  /\ SkipBreak(Plain(s, k), PlainChar(s, k)) = Plain(s, k + 1)
         /\ SkipBreak(Plain(s, k), CR) = Plain(s, k)
         /\ SkipBreak(Plain(s, k), LF) = Plain(s, k)
<1>1. PlainChar(s, k) \notin {CR, LF}
  BY PlainCharIs
<1>2. Append(Plain(s, k), PlainChar(s, k)) = Plain(s, k + 1)
  <2> DEFINE T == {PlainChar(s, i) : i \in Nat}
  <2>1. Plain(s, k) \in Seq(T) /\ Plain(s, k + 1) \in Seq(T) /\ PlainChar(s, k) \in T
    <3>1. ASSUME NEW n \in Nat PROVE [i \in 1 .. n |-> PlainChar(s, i - 1)] \in Seq(T)
      <4>1. \A i \in 1 .. n : PlainChar(s, i - 1) \in T
        OBVIOUS
      <4> HIDE DEF T
      <4> QED
        BY <4>1
    <3> HIDE DEF T
    <3>2. Plain(s, k) \in Seq(T) /\ Plain(s, k + 1) \in Seq(T)
      BY <3>1 DEF Plain
    <3> QED
      BY <3>2 DEF T
  <2>2. Len(Plain(s, k)) = k /\ Len(Plain(s, k + 1)) = k + 1
    BY DEF Plain
  <2>3. \A i \in 1 .. k : Plain(s, k)[i] = Plain(s, k + 1)[i]
    BY DEF Plain
  <2>4. Plain(s, k + 1)[k + 1] = PlainChar(s, k)
    BY DEF Plain
  <2> HIDE DEF T
  <2> QED
    BY <2>1, <2>2, <2>3, <2>4
<1> QED
  BY <1>1, <1>2 DEF SkipBreak

(* The characters that Encode64 writes, counted from 0.                    *)
LEMMA EncodedIs ==
  ASSUME NEW s \in Seq(Octets), NEW l \in Nat
  PROVE  /\ Encode64(s, l) \in Seq({CharAt(s, l, i) : i \in Nat})
         /\ Len(Encode64(s, l)) = EncodedLen(Len(s), l)
         /\ \A i \in 0 .. EncodedLen(Len(s), l) - 1 : Encode64(s, l)[i + 1] = CharAt(s, l, i)
<1> DEFINE T == {CharAt(s, l, i) : i \in Nat}
           n == EncodedLen(Len(s), l)
<1>1. Len(s) \in Nat
  OBVIOUS
<1>2. n \in Nat
  BY <1>1, WritesFit
<1>3. Encode64(s, l) = [i \in 1 .. n |-> CharAt(s, l, i - 1)]
  BY Zenon DEF Encode64
<1> HIDE DEF n
<1>4. \A i \in 1 .. n : CharAt(s, l, i - 1) \in T
  BY <1>2
<1> HIDE DEF T
<1>5. Encode64(s, l) \in Seq(T)
  BY <1>2, <1>3, <1>4
<1>6. Len(Encode64(s, l)) = n /\ \A i \in 0 .. n - 1 : Encode64(s, l)[i + 1] = CharAt(s, l, i)
  BY <1>2, <1>3
<1> QED
  BY <1>5, <1>6 DEF T, n

(* Group by group: what is before a group, without the line breaks, are    *)
(* the characters of the groups before it.                                 *)
LEMMA GroupsWithoutBreaks ==
  ASSUME NEW s \in Seq(Octets), NEW l \in Nat, NEW g \in Nat, g < Groups(Len(s)),
         Skipped(Encode64(s, l), StartOf(g, l)) = Plain(s, 4 * g)
  PROVE  Skipped(Encode64(s, l), StartOf(g + 1, l)) = Plain(s, 4 * (g + 1))
<1> DEFINE e == Encode64(s, l)
           b == StartOf(g, l)
           n == Len(s)
           T == {CharAt(s, l, i) : i \in Nat}
<1>1. n \in Nat /\ Groups(n) \in Nat
  BY GroupsAre
<1>2. /\ b \in Nat /\ StartOf(g + 1, l) \in Nat
      /\ StartOf(g + 1, l) = b + (IF BreakAfter(g + 1, l) THEN 6 ELSE 4)
  BY StartsAre
<1>3. StartOf(g + 1, l) <= EncodedLen(n, l)
  <2>1. StartOf(g + 1, l) + 4 * (Groups(n) - (g + 1)) <= EndOfWrites(n, l)
    BY <1>1, StartsGrow DEF EndOfWrites
  <2>2. /\ EncodedLen(n, l) \in Nat /\ EndOfWrites(n, l) \in Nat
        /\ EndOfWrites(n, l) <= EncodedLen(n, l)
    BY <1>1, WritesFit
  <2>3. Groups(n) - (g + 1) >= 0 /\ Groups(n) - (g + 1) \in Int
    BY <1>1
  <2> HIDE DEF n
  <2> QED
    BY <1>2, <2>1, <2>2, <2>3
<1>4. EncodedLen(n, l) \in Nat
  BY <1>1, WritesFit
<1>5. /\ e \in Seq(T) /\ Len(e) = EncodedLen(n, l)
      /\ \A i \in 0 .. EncodedLen(n, l) - 1 : e[i + 1] = CharAt(s, l, i)
  BY EncodedIs
<1>6. ASSUME NEW m \in 0 .. 5, m < 4 \/ BreakAfter(g + 1, l)
      PROVE  Skipped(e, b + m + 1) =
               SkipBreak(Skipped(e, b + m),
                         IF m < 4 THEN GroupChars(s, g)[m] ELSE IF m = 4 THEN CR ELSE LF)
  <2>1. b + m \in 0 .. EncodedLen(n, l) - 1
    <3>1. b + m < StartOf(g + 1, l)
      BY <1>2, <1>6
    <3> HIDE DEF b, n
    <3> QED
      BY <1>2, <1>3, <1>4, <3>1
  <2>2. CharAt(s, l, b + m) = IF m < 4 THEN GroupChars(s, g)[m] ELSE IF m = 4 THEN CR ELSE LF
    BY <1>1, <1>6, CharOfGroup
  <2>3. e[b + m + 1] = CharAt(s, l, b + m)
    BY <1>5, <2>1
  <2> HIDE DEF e, T
  <2>4. Skipped(e, (b + m) + 1) = SkipBreak(Skipped(e, b + m), e[(b + m) + 1])
    BY <1>5, <2>1, SkippingIs
  <2> QED
    BY <2>2, <2>3, <2>4
<1>7. ASSUME NEW m \in 0 .. 3
      PROVE  PlainChar(s, 4 * g + m) = GroupChars(s, g)[m]
  <2>1. (4 * g + m) \div 4 = g /\ (4 * g + m) % 4 = m
    OBVIOUS
  <2> QED
    BY <2>1 DEF PlainChar
<1> HIDE DEF e, b, n, T
<1>8. ASSUME NEW m \in 0 .. 3, Skipped(e, b + m) = Plain(s, 4 * g + m)
      PROVE  Skipped(e, b + m + 1) = Plain(s, 4 * g + m + 1)
  <2> DEFINE k == 4 * g + m
  <2>1. k \in Nat
    OBVIOUS
  <2>2. Skipped(e, b + m + 1) = SkipBreak(Plain(s, k), PlainChar(s, k))
    <3>1. m \in 0 .. 5 /\ m < 4
      OBVIOUS
    <3>2. Skipped(e, b + m + 1) = SkipBreak(Skipped(e, b + m), GroupChars(s, g)[m])
      BY <1>6, <3>1
    <3> QED
      BY <1>7, <1>8, <3>2, Zenon
  <2> HIDE DEF k
  <2>3. SkipBreak(Plain(s, k), PlainChar(s, k)) = Plain(s, k + 1)
    BY <2>1, PlainGoesOn
  <2> QED
    BY <2>2, <2>3 DEF k
<1>9. Skipped(e, b + 0) = Plain(s, 4 * g + 0)
  BY <1>2 DEF e, b
<1>10. Skipped(e, b + 1) = Plain(s, 4 * g + 1)
  BY <1>2, <1>8, <1>9
<1>11. Skipped(e, b + 2) = Plain(s, 4 * g + 2)
  <2>1. b + 1 + 1 = b + 2 /\ 4 * g + 1 + 1 = 4 * g + 2
    BY <1>2
  <2> QED
    BY <1>8, <1>10, <2>1
<1>12. Skipped(e, b + 3) = Plain(s, 4 * g + 3)
  <2>1. b + 2 + 1 = b + 3 /\ 4 * g + 2 + 1 = 4 * g + 3
    BY <1>2
  <2> QED
    BY <1>8, <1>11, <2>1
<1>13. Skipped(e, b + 4) = Plain(s, 4 * g + 4)
  <2>1. b + 3 + 1 = b + 4 /\ 4 * g + 3 + 1 = 4 * g + 4
    BY <1>2
  <2> QED
    BY <1>8, <1>12, <2>1
<1>14. Skipped(e, StartOf(g + 1, l)) = Plain(s, 4 * g + 4)
  <2>1. CASE BreakAfter(g + 1, l)
    <3> DEFINE p == 4 * g + 4
    <3>1. p \in Nat
      OBVIOUS
    <3> HIDE DEF p
    <3>2. SkipBreak(Plain(s, p), CR) = Plain(s, p) /\ SkipBreak(Plain(s, p), LF) = Plain(s, p)
      BY <3>1, PlainGoesOn
    <3>3. Skipped(e, b + 4 + 1) = SkipBreak(Skipped(e, b + 4), CR)
      BY <1>6, <2>1
    <3>4. Skipped(e, b + 5 + 1) = SkipBreak(Skipped(e, b + 5), LF)
      BY <1>6, <2>1
    <3>5. b + 4 + 1 = b + 5 /\ b + 5 + 1 = StartOf(g + 1, l)
      BY <1>2, <2>1 DEF b
    <3> QED
      BY <1>13, <3>2, <3>3, <3>4, <3>5 DEF p
  <2>2. CASE ~ BreakAfter(g + 1, l)
    BY <1>2, <1>13, <2>2
  <2> QED
    BY <2>1, <2>2
<1>15. 4 * g + 4 = 4 * (g + 1)
  OBVIOUS
<1> QED
  BY <1>14, <1>15 DEF e

(* Without its line breaks the result is plain.                            *)
LEMMA WithoutBreaksPlain ==
  ASSUME NEW s \in Seq(Octets), NEW l \in Nat
  PROVE  IsPlain(WithoutBreaks(Encode64(s, l)), s)
<1> DEFINE e == Encode64(s, l)
           n == Len(s)
           G == Groups(n)
           w == EndOfWrites(n, l)
           z == EncodedLen(n, l)
           T == {CharAt(s, l, i) : i \in Nat}
<1>1. n \in Nat /\ G \in Nat
  BY GroupsAre
<1>2. w \in Nat /\ z \in Nat /\ w <= z
  BY <1>1, WritesFit
<1>3. /\ e \in Seq(T) /\ Len(e) = z
      /\ \A i \in 0 .. z - 1 : e[i + 1] = CharAt(s, l, i)
  BY EncodedIs
<1>4. /\ Skipped(e, 0) = <<>>
      /\ \A k \in 0 .. z - 1 : Skipped(e, k + 1) = SkipBreak(Skipped(e, k), e[k + 1])
      /\ WithoutBreaks(e) = Skipped(e, z)
  <2> HIDE DEF e, z, T
  <2> QED
    BY <1>3, SkippingIs
<1>5. Skipped(e, w) = Plain(s, 4 * G)
  <2> DEFINE I == {g \in Nat : g <= G => Skipped(e, StartOf(g, l)) = Plain(s, 4 * g)}
  <2>1. 0 \in I
    <3>1. StartOf(0, l) = 0
      BY StartsAre
    <3>2. Plain(s, 4 * 0) = <<>>
      BY DEF Plain
    <3> QED
      BY <1>4, <3>1, <3>2
  <2>2. ASSUME NEW g \in Nat, g \in I
        PROVE  g + 1 \in I
    <3>1. SUFFICES ASSUME g + 1 <= G PROVE Skipped(e, StartOf(g + 1, l)) = Plain(s, 4 * (g + 1))
      OBVIOUS
    <3>2. g < Groups(Len(s)) /\ g <= G
      BY <1>1, <3>1
    <3>3. Skipped(Encode64(s, l), StartOf(g, l)) = Plain(s, 4 * g)
      BY <2>2, <3>2
    <3> QED
      BY <3>2, <3>3, GroupsWithoutBreaks
  <2>3. Nat \subseteq I
    <3> HIDE DEF I
    <3> QED
      BY <2>1, <2>2, NatSets
  <2> QED
    BY <1>1, <2>3 DEF EndOfWrites
<1>6. Skipped(e, z) = Plain(s, 4 * G + (z - w))
  <2> DEFINE I == {k \in Nat : w + k <= z => Skipped(e, w + k) = Plain(s, 4 * G + k)}
  <2> HIDE DEF e, w, z, G
  <2>1. 0 \in I
    BY <1>1, <1>2, <1>5
  <2>2. ASSUME NEW k \in Nat, k \in I
        PROVE  k + 1 \in I
    <3> DEFINE p == 4 * G + k
    <3>1. SUFFICES ASSUME w + (k + 1) <= z
                   PROVE  Skipped(e, w + (k + 1)) = Plain(s, 4 * G + (k + 1))
      OBVIOUS
    <3>2. w + k \in 0 .. z - 1 /\ w + k <= z /\ p \in Nat /\ w + k \in Nat /\ w + k >= w
      BY <1>1, <1>2, <3>1
    <3>3. Skipped(e, w + k) = Plain(s, p)
      BY <2>2, <3>2
    <3>4. Skipped(e, (w + k) + 1) = SkipBreak(Skipped(e, w + k), e[(w + k) + 1])
      BY <1>4, <3>2
    <3>5. e[(w + k) + 1] = Equals
      <4>1. e[(w + k) + 1] = CharAt(s, l, w + k)
        BY <1>3, <3>2
      <4>2. CharAt(s, l, w + k) = Equals
        BY <1>1, <3>2, CharBehind DEF w
      <4> QED
        BY <4>1, <4>2
    <3>6. PlainChar(s, p) = Equals
      <4>1. p \div 4 >= G
        BY <1>1
      <4> QED
        BY <1>1, <4>1 DEF PlainChar, G
    <3> HIDE DEF p
    <3>7. SkipBreak(Plain(s, p), PlainChar(s, p)) = Plain(s, p + 1)
      BY <3>2, PlainGoesOn
    <3>8. (w + k) + 1 = w + (k + 1) /\ p + 1 = 4 * G + (k + 1)
      BY <1>1, <1>2 DEF p
    <3> QED
      BY <3>3, <3>4, <3>5, <3>6, <3>7, <3>8
  <2>3. Nat \subseteq I
    <3> HIDE DEF I
    <3> QED
      BY <2>1, <2>2, NatSets
  <2>4. z - w \in Nat /\ w + (z - w) = z
    BY <1>2
  <2> QED
    BY <1>2, <2>3, <2>4
<1> DEFINE q == 4 * G + (z - w)
<1>7. q \in Nat /\ q >= 4 * G
  BY <1>1, <1>2
<1>8. IsPlain(Plain(s, q), s)
  <2> HIDE DEF q
  <2>1. Len(Plain(s, q)) = q /\ \A i \in 0 .. q - 1 : Plain(s, q)[i + 1] = PlainChar(s, i)
    BY <1>7 DEF Plain
  <2> QED
    BY <1>7, <2>1 DEF IsPlain
<1> QED
  BY <1>4, <1>6, <1>8

(* With no line breaks the result is plain as it is.                       *)
LEMMA UnbrokenPlain ==
  ASSUME NEW s \in Seq(Octets)
  PROVE  IsPlain(Encode64(s, 0), s)
<1> DEFINE e == Encode64(s, 0)
           n == Len(s)
<1>1. n \in Nat /\ Groups(n) \in Nat
  BY GroupsAre
<1>2. EncodedLen(n, 0) = 4 * Groups(n)
  BY <1>1, WritesFit
<1>3. Len(e) = 4 * Groups(n) /\ \A i \in 0 .. 4 * Groups(n) - 1 : e[i + 1] = CharAt(s, 0, i)
  BY <1>2, EncodedIs
<1>4. ASSUME NEW i \in 0 .. 4 * Groups(n) - 1
      PROVE  CharAt(s, 0, i) = PlainChar(s, i)
  <2> DEFINE g == i \div 4
             m == i % 4
  <2>1. g \in 0 .. Groups(n) - 1 /\ m \in 0 .. 3 /\ i = 4 * g + m
    BY <1>1
  <2>2. g \in Nat
    BY <1>1
  <2> HIDE DEF g, m
  <2>3. StartOf(g, 0) = 4 * g
    <3>1. Breaks(g, 0) = {}
      BY DEF Breaks, BreakAfter
    <3>2. Cardinality(Breaks(g, 0)) = 0
      BY <3>1, FS_EmptySet
    <3> QED
      BY <2>2, <3>2 DEF StartOf, Breaks
  <2>4. m \in 0 .. 5 /\ m < 4
    BY <2>1
  <2> DEFINE z == 0
  <2> HIDE DEF z
  <2>5. CharAt(s, z, StartOf(g, z) + m) = GroupChars(s, g)[m]
    BY <1>1, <2>1, <2>4, CharOfGroup
  <2>6. PlainChar(s, i) = GroupChars(s, g)[m]
    BY <1>1, <2>1 DEF PlainChar, g, m
  <2> QED
    BY <2>1, <2>3, <2>5, <2>6 DEF z
<1> QED
  BY <1>1, <1>3, <1>4 DEF IsPlain

-----------------------------------------------------------------------------
(* Base64: the invariant says what the three variables have to do with one *)
(* another; the lemmas above are what makes it imply the property.         *)

(* One call of the library after the other.                                *)
Base64Spec == Base64Init /\ [][Base64Next]_base64Vars

Base64Inv ==
  /\ source.bytes \in Seq(Octets) /\ source.subLen \in Nat
  /\ encoded # <<>> => encoded = Encode64(source.bytes, source.subLen)
  /\ decoded # <<>> => decoded = Decode64(encoded)

(* Before the first call nothing is encoded.                               *)
LEMMA Base64InitInv == Base64Init => Base64Inv
<1> SUFFICES ASSUME Base64Init PROVE Base64Inv
  OBVIOUS
<1>1. source.bytes = <<>> /\ source.subLen = 0 /\ encoded = <<>> /\ decoded = <<>>
  BY DEF Base64Init
<1> QED
  BY <1>1 DEF Base64Inv

(* A call encodes a string of octets, or decodes what is encoded.          *)
LEMMA Base64StepInv ==
  ASSUME Base64Assumption, Base64Inv, [Base64Next]_base64Vars
  PROVE  Base64Inv'
<1>1. ASSUME NEW n \in 1 .. MaxString, NEW l \in 0 .. MaxSubLen,
             NEW s \in [1 .. n -> SomeBytes], SocketEncode64(s, l)
      PROVE  Base64Inv'
  <2>1. n \in Nat /\ l \in Nat /\ SomeBytes \subseteq Octets
    BY DEF Base64Assumption, Octets
  <2>2. s \in Seq(Octets)
    <3>1. s \in [1 .. n -> Octets]
      BY <2>1
    <3> QED
      BY <2>1, <3>1
  <2>3. source'.bytes = s /\ source'.subLen = l /\ encoded' = Encode64(s, l) /\ decoded' = <<>>
    BY <1>1 DEF SocketEncode64
  <2> QED
    BY <2>1, <2>2, <2>3, Zenon DEF Base64Inv
<1>2. CASE SocketDecode64
  BY <1>2 DEF SocketDecode64, Base64Inv
<1>3. CASE UNCHANGED base64Vars
  BY <1>3 DEF base64Vars, Base64Inv
<1> QED
  BY <1>1, <1>2, <1>3, Zenon DEF Base64Next

(* Either way of decoding is given characters that are plain.              *)
LEMMA Base64InvFits ==
  ASSUME Base64Inv
  PROVE  EncodingFitsAndDecodes
<1> SUFFICES ASSUME encoded # <<>> PROVE EncodingFitsAndDecodes
  BY DEF EncodingFitsAndDecodes
<1> DEFINE s == source.bytes
           l == source.subLen
           w == WithoutBreaks(encoded)
           d == IF decoded # <<>> /\ source.subLen = 0 THEN decoded ELSE Decode64(w)
<1>1. /\ s \in Seq(Octets) /\ l \in Nat /\ encoded = Encode64(s, l)
      /\ decoded # <<>> => decoded = Decode64(encoded)
  BY DEF Base64Inv
<1> HIDE DEF s, l
<1>2. Len(s) \in Nat
  BY <1>1
<1>3. EndOfWrites(Len(s), l) <= Len(encoded)
  <2>1. EndOfWrites(Len(s), l) <= EncodedLen(Len(s), l)
    BY <1>1, <1>2, WritesFit
  <2>2. Len(encoded) = EncodedLen(Len(s), l)
    BY <1>1, EncodedIs
  <2> QED
    BY <2>1, <2>2
<1>4. \E u : IsPlain(u, s) /\ d = Decode64(u)
  <2>1. CASE decoded # <<>> /\ l = 0
    <3>1. IsPlain(encoded, s)
      BY <1>1, <2>1, UnbrokenPlain
    <3>2. d = Decode64(encoded)
      BY <1>1, <2>1 DEF l
    <3> QED
      BY <3>1, <3>2
  <2>2. CASE ~ (decoded # <<>> /\ l = 0)
    <3>1. IsPlain(w, s)
      BY <1>1, WithoutBreaksPlain
    <3>2. d = Decode64(w)
      BY <2>2 DEF l
    <3> QED
      BY <3>1, <3>2
  <2> QED
    BY <2>1, <2>2
<1> HIDE DEF d, w
<1>5. (\A i \in DOMAIN d : d[i] = IF i \in DOMAIN s THEN s[i] ELSE 0) /\ Len(d) >= Len(s)
  <2>1. PICK u : IsPlain(u, s) /\ d = Decode64(u)
    BY <1>4
  <2>2. LET x == Decode64(u)
        IN  /\ \A i \in DOMAIN x : x[i] = IF i \in DOMAIN s THEN s[i] ELSE 0
            /\ Len(x) >= Len(s)
    BY <1>1, <2>1, PlainDecodes, Zenon
  <2> QED
    BY <2>1, <2>2, Zenon
<1> QED
  BY <1>3, <1>5, Zenon DEF EncodingFitsAndDecodes, s, l, d, w

(* Whatever the bytes, the length of the string and of a line,             *)
(* SOCKETENCODE64 writes no further than the buffer it allocated, and what *)
(* is decoded is the string.                                               *)
THEOREM EncodingIsDecoded == Base64Assumption => (Base64Spec => []EncodingFitsAndDecodes)
<1> SUFFICES ASSUME Base64Assumption
             PROVE  Base64Spec => []EncodingFitsAndDecodes
  OBVIOUS
<1>1. Base64Init => Base64Inv
  BY Base64InitInv
<1>2. Base64Inv /\ [Base64Next]_base64Vars => Base64Inv'
  BY Base64StepInv
<1>3. Base64Inv => EncodingFitsAndDecodes
  BY Base64InvFits
<1> QED
  BY <1>1, <1>2, <1>3, PTL DEF Base64Spec

-----------------------------------------------------------------------------
(* A mail session.                                                         *)
(* The inductive invariant.  First what holds in every session, however    *)
(* late or rude its answers are.                                           *)

Recipients == (1 .. MaxSends) \X (1 .. MaxRcpts)
Session == {"mail", "rcpt", "data", "text"}

SmtpWellFormed ==
  /\ SmtpTypeOK
  /\ program \in [ignore : BOOLEAN, trouble : {"none", "timeout", "dot", "rude"}]
  /\ server \in [data : BOOLEAN, open : BOOLEAN, rcpts : SUBSET Recipients]
  /\ pc = "idle" => got = NoCode
  /\ conn = "shut" => toServer = <<>>
  /\ pc \in Session => sends > 0
  /\ pc = "rcpt" => rcpts # <<>>
  /\ pc \in {"data", "text"} => rcpts = <<>>
  /\ \A i \in DOMAIN toServer : /\ toServer[i].verb = "RCPT" => toServer[i].arg \in Recipients
                                /\ toServer[i].verb = "TEXT" => toServer[i].arg[1] > 0

(* The command the client sent last, and the answer it is reading.         *)
Verb == [ehlo |-> "EHLO", helo |-> "HELO", mail |-> "MAIL", rcpt |-> "RCPT",
         data |-> "DATA", text |-> "TEXT", quit |-> "QUIT"]
Command == [verb |-> Verb[pc], arg |-> IF pc = "rcpt" THEN Head(rcpts) ELSE NoRcpt, n |-> sent]
Answer == IF got = NoCode THEN toClient[1].code ELSE got

(* One command or its answer is under way while the client waits, unless   *)
(* the server shut the connection; nothing is between calls.               *)
Asked == /\ pc \notin {"idle", "banner"} /\ conn = "up"
         /\ toServer = <<Command>> /\ toClient = <<>> /\ got = NoCode
Told  == /\ pc # "idle" /\ toServer = <<>> /\ toClient # <<>>
         /\ Answer \in {"220", "250", "354", "501", "503"}
         /\ \A i \in DOMAIN toClient : /\ toClient[i].n = sent /\ toClient[i].code = Answer
                                       /\ (toClient[i].last <=> i = Len(toClient))
Cut   == pc # "idle" /\ conn = "shut" /\ toServer = <<>> /\ toClient = <<>>
Between == pc = "idle" /\ toServer = <<>> /\ toClient = <<>>

(* The recipients of the Send under way, named to the server or still to   *)
(* be named.                                                               *)
Everyone == {<<sends, i>> : i \in 1 .. asked}
ToName == {rcpts[i] : i \in DOMAIN rcpts}
Ours ==
  /\ \A r \in server.rcpts : r[1] = sends
  /\ ~program.ignore => server.rcpts \cup ToName = Everyone

(* The transaction of the server, as far as the client is in one.          *)
Transaction ==
  /\ server.data => server.open
  /\ ~server.open => server.rcpts = {}
  /\ (server.data <=> \/ pc = "data" /\ Told /\ Answer = "354"
                      \/ pc = "text" /\ Asked)
  /\ pc \in {"rcpt", "data"} \/ (pc = "text" /\ Asked) => server.open /\ Ours
  /\ pc = "rcpt" /\ Told /\ Answer = "250" => Head(rcpts) \in server.rcpts
  /\ pc = "mail" /\ Told /\ Answer = "250" => server.open /\ server.rcpts = {}

(* The mails the server took over.                                         *)
Taken == \E i \in DOMAIN accepted : accepted[i].send = sends
Mails ==
  /\ \A i \in DOMAIN accepted :
       /\ accepted[i].send <= sends
       /\ \A r \in accepted[i].rcpts : r[1] = accepted[i].send
       /\ ~program.ignore /\ accepted[i].send = sends => accepted[i].rcpts = Everyone
  /\ conn = "up" /\ (pc \in {"mail", "rcpt", "data"} \/ (pc = "text" /\ Asked)) => ~Taken
  /\ conn = "up" /\ pc = "text" /\ Told => (Answer = "250" <=> Taken)

(* The recipients the client still has to name are those of its Send.       *)
Naming ==
  /\ pc \in {"mail", "rcpt"} => \A r \in ToName : r[1] = sends
  /\ pc = "mail" => ToName = Everyone

(* The sessions the properties are about.                                  *)
CleanInv ==
  /\ Asked \/ Told \/ Cut \/ Between
  /\ conn = "up" => Transaction
  /\ Mails

SessionInv ==
  /\ SmtpWellFormed
  /\ Naming
  /\ Clean => CleanInv

-----------------------------------------------------------------------------
(* Every session is well formed.                                           *)

CommandType == [verb : {"EHLO", "HELO", "MAIL", "RCPT", "DATA", "TEXT", "QUIT"},
                arg : (0 .. MaxSends) \X (0 .. MaxRcpts), n : Nat]
LineType == [code : Codes, last : BOOLEAN, n : Nat]

(* What an answer makes the client do: return, send the next command, or   *)
(* close.                                                                  *)
LEMMA AnsweredStep ==
  ASSUME NEW code, Answered(code), pc = "rcpt" => rcpts # <<>>
  PROVE  /\ UNCHANGED <<program, server, sends, asked, accepted>>
         /\ \/ /\ pc' = "idle" /\ Quiet /\ UNCHANGED <<conn, rcpts>>
               /\ pc \in {"banner", "ehlo", "helo", "mail", "rcpt", "data", "text"}
               /\ pc = "mail" => code \notin {"250", "550"}
               /\ pc = "rcpt" => code # "250" /\ ~program.ignore
               /\ pc = "data" => code \notin {"354", "554"}
               /\ pc \in {"mail", "rcpt", "data"} => result' = FALSE
               /\ pc = "text" => result' = (code \in {"250", "550"})
               /\ result' \in BOOLEAN
            \/ pc = "quit" /\ AfterQuit
            \/ /\ sent' = sent + 1 /\ UNCHANGED <<conn, result>>
               /\ toServer' = IF conn = "up" THEN Append(toServer, Command') ELSE toServer
               /\ \/ pc = "banner" /\ pc' = "ehlo" /\ rcpts' = rcpts
                  \/ pc = "ehlo" /\ pc' = "helo" /\ rcpts' = rcpts
                  \/ /\ pc = "mail" /\ code \in {"250", "550"} /\ rcpts' = rcpts
                     /\ IF rcpts # <<>> THEN pc' = "rcpt" ELSE pc' = "data"
                  \/ /\ pc = "rcpt" /\ (code = "250" \/ program.ignore) /\ rcpts' = Tail(rcpts)
                     /\ IF rcpts' # <<>> THEN pc' = "rcpt" ELSE pc' = "data"
                  \/ /\ pc = "data" /\ code \in {"354", "554"} /\ rcpts' = rcpts /\ pc' = "text"
<1>1. UNCHANGED <<program, server, sends, asked, accepted>>
  BY DEF Answered
<1>2. NoRcpt' = NoRcpt
  BY <1>1 DEF NoRcpt
<1>3. Command' = [verb |-> Verb[pc'],
                  arg |-> IF pc' = "rcpt" THEN Head(rcpts') ELSE NoRcpt, n |-> sent']
  BY <1>2 DEF Command, Verb
<1>12. /\ Verb["ehlo"] = "EHLO" /\ Verb["helo"] = "HELO" /\ Verb["mail"] = "MAIL"
      /\ Verb["rcpt"] = "RCPT" /\ Verb["data"] = "DATA" /\ Verb["text"] = "TEXT"
      /\ Verb["quit"] = "QUIT"
  BY DEF Verb
<1>4. CASE pc = "banner"
  BY <1>1, <1>3, <1>12, <1>4 DEF Answered, AfterBanner, Done, Ask, SendString
<1>5. CASE pc = "ehlo"
  BY <1>1, <1>3, <1>12, <1>5 DEF Answered, AfterEhlo, Done, Ask, SendString
<1>6. CASE pc = "helo"
  BY <1>1, <1>6 DEF Answered, Done
<1>7. CASE pc = "mail"
  <2>1. CASE code \in {"250", "550"} /\ AskRcpts
    <3>1. CASE rcpts # <<>> /\ Ask("RCPT", Head(rcpts), "rcpt")
      <4>1. Command' = [verb |-> "RCPT", arg |-> Head(rcpts), n |-> sent']
        BY <1>3, <1>12, <3>1 DEF Ask
      <4>2. toServer' = IF conn = "up" THEN Append(toServer, Command') ELSE toServer
        BY <3>1, <4>1 DEF Ask, SendString
      <4>3. /\ sent' = sent + 1 /\ UNCHANGED <<conn, result>> /\ rcpts' = rcpts
            /\ rcpts # <<>> /\ pc' = "rcpt"
        BY <3>1 DEF Ask, SendString
      <4> QED
        BY <1>1, <1>7, <2>1, <4>2, <4>3
    <3>2. CASE rcpts = <<>> /\ Ask("DATA", NoRcpt, "data")
      BY <1>1, <1>3, <1>12, <1>7, <2>1, <3>2 DEF Ask, SendString
    <3> QED
      BY <2>1, <3>1, <3>2 DEF AskRcpts
  <2>2. CASE code \notin {"250", "550"} /\ Done(FALSE)
    BY <1>1, <1>7, <2>2 DEF Done
  <2> QED
    BY <1>7, <2>1, <2>2 DEF Answered, AfterMail
<1>8. CASE pc = "rcpt"
  <2> DEFINE rest == Tail(rcpts)
  <2>1. CASE /\ code = "250" \/ program.ignore
             /\ rcpts' = rest /\ UNCHANGED <<conn, result>>
             /\ rest # <<>> /\ SendString("RCPT", Head(rest)) /\ pc' = "rcpt"
    <3> HIDE DEF rest
    <3>1. Command' = [verb |-> "RCPT", arg |-> Head(rest), n |-> sent']
      BY <1>3, <1>12, <2>1
    <3>2. toServer' = IF conn = "up" THEN Append(toServer, Command') ELSE toServer
      BY <2>1, <3>1 DEF SendString
    <3>3. /\ sent' = sent + 1 /\ UNCHANGED <<conn, result>> /\ rcpts' = Tail(rcpts)
          /\ rcpts' # <<>> /\ pc' = "rcpt" /\ (code = "250" \/ program.ignore)
      BY <2>1 DEF SendString, rest
    <3> QED
      BY <1>1, <1>8, <3>2, <3>3
  <2>2. CASE /\ code = "250" \/ program.ignore
             /\ rcpts' = rest /\ UNCHANGED <<conn, result>>
             /\ rest = <<>> /\ SendString("DATA", NoRcpt) /\ pc' = "data"
    <3>1. Command' = [verb |-> "DATA", arg |-> NoRcpt, n |-> sent']
      BY <1>3, <1>12, <2>2
    <3> QED
      BY <1>1, <1>8, <2>2, <3>1 DEF SendString
  <2>3. CASE code # "250" /\ ~program.ignore /\ Done(FALSE)
    BY <1>1, <1>8, <2>3 DEF Done
  <2> QED
    BY <1>8, <2>1, <2>2, <2>3 DEF Answered, AfterRcpt
<1>9. CASE pc = "data"
  BY <1>1, <1>3, <1>12, <1>9 DEF Answered, AfterData, Done, Ask, SendString
<1>10. CASE pc = "text"
  BY <1>1, <1>10 DEF Answered, AfterText, Done
<1>11. CASE pc = "quit"
  BY <1>1, <1>11 DEF Answered
<1> QED
  BY <1>4, <1>5, <1>6, <1>7, <1>8, <1>9, <1>10, <1>11 DEF Answered


(* A command appended, of a verb and an argument of their types.           *)
LEMMA CommandSent ==
  ASSUME SmtpWellFormed, NEW c \in CommandType,
         c.verb = "RCPT" => c.arg \in Recipients, c.verb = "TEXT" => c.arg[1] > 0,
         toServer' = IF conn = "up" THEN Append(toServer, c) ELSE toServer
  PROVE  /\ toServer' \in Seq(CommandType)
         /\ \A i \in DOMAIN toServer' :
              /\ toServer'[i].verb = "RCPT" => toServer'[i].arg \in Recipients
              /\ toServer'[i].verb = "TEXT" => toServer'[i].arg[1] > 0
         /\ conn # "up" => toServer' = toServer
<1>1. toServer \in Seq(CommandType)
  BY DEF SmtpWellFormed, SmtpTypeOK, CommandType
<1>2. toServer' \in Seq(CommandType)
  BY <1>1
<1>3. CASE conn = "up"
  <2>1. toServer' = Append(toServer, c)
    BY <1>3
  <2>2. \A i \in DOMAIN toServer' : toServer'[i] = c \/ (i \in DOMAIN toServer /\ toServer'[i] = toServer[i])
    BY <1>1, <2>1
  <2> QED
    BY <1>2, <1>3, <2>2 DEF SmtpWellFormed
<1>4. CASE conn # "up"
  BY <1>2, <1>4 DEF SmtpWellFormed
<1> QED
  BY <1>3, <1>4

(* The types survive a method of TSmtp going on behind an answer. *)
LEMMA AnsweredWellFormed ==
  ASSUME SmtpWellFormed, NEW code, Answered(code), pc # "idle", got' = NoCode, late' \in BOOLEAN,
         toClient' \in Seq(LineType), pc = "quit" => toClient' = <<>>
  PROVE  SmtpWellFormed'
<1> USE DEF Session
<1>0. /\ rcpts \in Seq(Recipients) /\ sent \in Nat /\ sends \in 0 .. MaxSends
      /\ pc \in Session => sends > 0
      /\ pc = "rcpt" => rcpts # <<>>
      /\ pc \in {"idle", "banner", "ehlo", "helo", "mail", "rcpt", "data", "text", "quit"}
      /\ conn \in {"none", "up", "shut"} /\ conn # "none"
  BY DEF SmtpWellFormed, SmtpTypeOK, Recipients
<1>1. UNCHANGED <<program, server, sends, asked, accepted>>
  BY AnsweredStep DEF SmtpWellFormed
<1>2. CASE /\ pc' = "idle" /\ Quiet /\ UNCHANGED <<conn, rcpts>> /\ result' \in BOOLEAN
  <2>1. SmtpTypeOK'
    BY <1>1, <1>2 DEF SmtpWellFormed, SmtpTypeOK, Quiet, LineType
  <2> QED
    BY <1>1, <1>2, <2>1 DEF SmtpWellFormed, Quiet
<1>3. CASE pc = "quit" /\ AfterQuit
  <2>1. /\ pc' = "idle" /\ conn' = "none" /\ toServer' = <<>> /\ toClient' = <<>>
        /\ result' = TRUE /\ sent' = 0 /\ rcpts' = rcpts
    BY <1>3 DEF AfterQuit
  <2>2. SmtpTypeOK'
    BY <1>1, <2>1 DEF SmtpWellFormed, SmtpTypeOK
  <2> QED
    BY <1>1, <2>1, <2>2 DEF SmtpWellFormed
<1>4. CASE /\ sent' = sent + 1 /\ UNCHANGED <<conn, result>>
           /\ toServer' = IF conn = "up" THEN Append(toServer, Command') ELSE toServer
           /\ \/ pc = "banner" /\ pc' = "ehlo" /\ rcpts' = rcpts
              \/ pc = "ehlo" /\ pc' = "helo" /\ rcpts' = rcpts
              \/ /\ pc = "mail" /\ rcpts' = rcpts
                 /\ IF rcpts # <<>> THEN pc' = "rcpt" ELSE pc' = "data"
              \/ /\ pc = "rcpt" /\ rcpts' = Tail(rcpts)
                 /\ IF rcpts' # <<>> THEN pc' = "rcpt" ELSE pc' = "data"
              \/ pc = "data" /\ rcpts' = rcpts /\ pc' = "text"
  <2>1. rcpts' \in Seq(Recipients)
    BY <1>0, <1>4, HeadTailProperties
  <2>2. /\ pc' \in {"ehlo", "helo", "rcpt", "data", "text"}
        /\ pc' = "rcpt" => rcpts' # <<>>
        /\ pc' \in {"data", "text"} => rcpts' = <<>>
        /\ pc' \in Session => pc \in Session
    BY <1>4 DEF SmtpWellFormed
  <2>3. Command' = [verb |-> Verb[pc'], arg |-> IF pc' = "rcpt" THEN Head(rcpts') ELSE <<sends, 0>>,
                    n |-> sent']
    BY <1>1 DEF Command, NoRcpt, Verb
  <2>4. /\ Command' \in CommandType
        /\ Command'.verb = "RCPT" => Command'.arg \in Recipients
        /\ Command'.verb = "TEXT" => Command'.arg[1] > 0
    <3>1. pc' = "rcpt" => Head(rcpts') \in Recipients
      BY <2>1, <2>2, HeadTailProperties
    <3>2. sends \in 0 .. MaxSends /\ (pc \in Session => sends > 0)
      BY <1>0
    <3>6. sent' \in Nat
      BY <1>0, <1>4
    <3>3. Verb[pc'] = (IF pc' = "ehlo" THEN "EHLO" ELSE IF pc' = "helo" THEN "HELO"
                       ELSE IF pc' = "rcpt" THEN "RCPT" ELSE IF pc' = "data" THEN "DATA"
                       ELSE "TEXT")
      <4>1. /\ Verb["ehlo"] = "EHLO" /\ Verb["helo"] = "HELO" /\ Verb["rcpt"] = "RCPT"
            /\ Verb["data"] = "DATA" /\ Verb["text"] = "TEXT"
        BY DEF Verb
      <4> QED
        BY <2>2, <4>1
    <3>4. CASE pc' = "rcpt"
      <4>1. Head(rcpts') \in (0 .. MaxSends) \X (0 .. MaxRcpts)
        <5>1. /\ \A i \in 1 .. MaxSends : i \in 0 .. MaxSends
              /\ \A i \in 1 .. MaxRcpts : i \in 0 .. MaxRcpts
          BY SmtpAssumption
        <5> QED
          BY <3>1, <3>4, <5>1 DEF Recipients
      <4> QED
        BY <2>3, <3>1, <3>2, <3>3, <3>4, <3>6, <4>1 DEF CommandType
    <3>5. CASE pc' # "rcpt"
      <4>1. <<sends, 0>> \in (0 .. MaxSends) \X (0 .. MaxRcpts)
        <5>1. 0 \in 0 .. MaxRcpts
          BY SmtpAssumption
        <5> QED
          BY <3>2, <5>1
      <4> QED
        BY <2>2, <2>3, <3>2, <3>3, <3>5, <3>6, <4>1 DEF CommandType
    <3> QED
      BY <3>4, <3>5
  <2> DEFINE c == Command'
  <2> HIDE DEF c
  <2>5. /\ toServer' \in Seq(CommandType)
        /\ \A i \in DOMAIN toServer' :
             /\ toServer'[i].verb = "RCPT" => toServer'[i].arg \in Recipients
             /\ toServer'[i].verb = "TEXT" => toServer'[i].arg[1] > 0
        /\ conn # "up" => toServer' = toServer
    <3>1. c \in CommandType /\ (c.verb = "RCPT" => c.arg \in Recipients)
          /\ (c.verb = "TEXT" => c.arg[1] > 0)
      BY <2>4 DEF c
    <3>2. toServer' = IF conn = "up" THEN Append(toServer, c) ELSE toServer
      BY <1>4 DEF c
    <3> QED
      BY <3>1, <3>2, CommandSent
  <2>6. conn # "none" /\ conn' = conn
    BY <1>4 DEF SmtpWellFormed, SmtpTypeOK
  <2>7. SmtpTypeOK'
    <3>1. pc' \in {"idle", "banner", "ehlo", "helo", "mail", "rcpt", "data", "text", "quit"}
      BY <2>2
    <3>2. toServer' \in Seq([verb : {"EHLO", "HELO", "MAIL", "RCPT", "DATA", "TEXT", "QUIT"},
                             arg : (0 .. MaxSends) \X (0 .. MaxRcpts), n : Nat])
      BY <2>5 DEF CommandType
    <3> QED
      BY <1>1, <1>4, <2>1, <2>6, <3>1, <3>2 DEF SmtpWellFormed, SmtpTypeOK, Recipients, LineType
  <2>8. conn = "shut" => toServer' = <<>>
    BY <2>5, <2>6 DEF SmtpWellFormed
  <2> QED
    BY <1>1, <1>4, <2>2, <2>5, <2>6, <2>7, <2>8 DEF SmtpWellFormed
<1> QED
  BY <1>2, <1>3, <1>4, AnsweredStep DEF SmtpWellFormed


(* The answers of the server: a refusal that changes nothing, or the step  *)
(* of the transaction that the command asks for.                           *)
LEMMA AnswersAre ==
  ASSUME NEW c, NEW a \in Answers(c)
  PROVE  \/ c.verb # "TEXT" /\ \E code \in Refusals \cup {"503"} : a = <<<<code>>, server>>
         \/ /\ c.verb = "MAIL" /\ ~server.open
            /\ a = <<<<"250">>, [server EXCEPT !.open = TRUE]>>
         \/ /\ c.verb = "RCPT" /\ server.open
            /\ a = <<<<"250">>, [server EXCEPT !.rcpts = @ \cup {c.arg}]>>
         \/ /\ c.verb = "DATA" /\ server.rcpts # {}
            /\ a = <<<<"354">>, [server EXCEPT !.data = TRUE]>>
         \/ /\ c.verb = "TEXT" /\ server.data
            /\ \E code \in Refusals \cup {"250"} :
                 a = <<IF program.trouble = "dot" THEN <<code, "500">> ELSE <<code>>,
                       [server EXCEPT !.data = FALSE, !.open = FALSE, !.rcpts = {}]>>
         \/ c.verb = "TEXT" /\ ~server.data /\ a = <<<<"500", "500">>, server>>
         \/ c.verb \notin {"MAIL", "RCPT", "DATA", "TEXT"} /\ a = <<<<"250">>, server>>
<1>1. CASE c.verb = "MAIL"
  BY <1>1 DEF Answers
<1>2. CASE c.verb = "RCPT"
  BY <1>2 DEF Answers
<1>3. CASE c.verb = "DATA"
  BY <1>3 DEF Answers
<1>4. CASE c.verb = "TEXT"
  BY <1>4 DEF Answers
<1>5. CASE c.verb \notin {"MAIL", "RCPT", "DATA", "TEXT"}
  BY <1>5 DEF Answers
<1> QED
  BY <1>1, <1>2, <1>3, <1>4, <1>5

ServerType == [data : BOOLEAN, open : BOOLEAN, rcpts : SUBSET Recipients]

(* What the server may answer, and what it keeps, have their types. *)
LEMMA AnswersTyped ==
  ASSUME server \in ServerType, NEW c, c.verb = "RCPT" => c.arg \in Recipients,
         NEW a \in Answers(c)
  PROVE  /\ a[2] \in ServerType
         /\ \E code \in Codes : a[1] = <<code>> \/ a[1] = <<code, "500">>
<1>1. Refusals \subseteq Codes /\ {"250", "503", "354", "500"} \subseteq Codes
  BY DEF Refusals, Codes
<1>2. CASE c.verb # "TEXT" /\ \E code \in Refusals \cup {"503"} : a = <<<<code>>, server>>
  BY <1>1, <1>2
<1>3. CASE /\ c.verb = "MAIL" /\ ~server.open
           /\ a = <<<<"250">>, [server EXCEPT !.open = TRUE]>>
  BY <1>1, <1>3 DEF ServerType
<1>4. CASE /\ c.verb = "RCPT" /\ server.open
           /\ a = <<<<"250">>, [server EXCEPT !.rcpts = @ \cup {c.arg}]>>
  <2>1. [server EXCEPT !.rcpts = @ \cup {c.arg}] \in ServerType
    BY <1>4 DEF ServerType
  <2> QED
    BY <1>1, <1>4, <2>1
<1>5. CASE /\ c.verb = "DATA" /\ server.rcpts # {}
           /\ a = <<<<"354">>, [server EXCEPT !.data = TRUE]>>
  BY <1>1, <1>5 DEF ServerType
<1>6. CASE \E code \in Refusals \cup {"250"} :
             a = <<IF program.trouble = "dot" THEN <<code, "500">> ELSE <<code>>,
                   [server EXCEPT !.data = FALSE, !.open = FALSE, !.rcpts = {}]>>
  <2>1. [server EXCEPT !.data = FALSE, !.open = FALSE, !.rcpts = {}] \in ServerType
    BY DEF ServerType
  <2> QED
    BY <1>1, <1>6, <2>1
<1>7. CASE c.verb = "TEXT" /\ ~server.data /\ a = <<<<"500", "500">>, server>>
  BY <1>1, <1>7
<1>8. CASE c.verb \notin {"MAIL", "RCPT", "DATA", "TEXT"} /\ a = <<<<"250">>, server>>
  BY <1>1, <1>8
<1> QED
  BY <1>2, <1>3, <1>4, <1>5, <1>6, <1>7, <1>8, AnswersAre

(* Lines is an answer whose last line is marked.                           *)
LEMMA LinesAre ==
  ASSUME NEW code \in Codes, NEW k \in Nat \ {0}, NEW n \in Nat
  PROVE  /\ Lines(code, k, n) \in Seq(LineType) /\ Len(Lines(code, k, n)) = k
         /\ \A i \in 1 .. k : Lines(code, k, n)[i] = [code |-> code, last |-> i = k, n |-> n]
<1>1. \A i \in 1 .. k : [code |-> code, last |-> i = k, n |-> n] \in LineType
  BY DEF LineType
<1> QED
  BY <1>1 DEF Lines


(* The types survive the server answering a command. *)
LEMMA ServeWellFormed ==
  ASSUME SmtpWellFormed, Serve
  PROVE  SmtpWellFormed'
<1> DEFINE c == Head(toServer)
<1>1. /\ conn = "up" /\ toServer # <<>> /\ toServer' = Tail(toServer)
      /\ UNCHANGED <<pc, conn, got, rcpts, result, program, sends, asked, sent, late>>
  BY DEF Serve
<1>2. /\ toServer \in Seq(CommandType) /\ toClient \in Seq(LineType)
      /\ sends \in 0 .. MaxSends
      /\ accepted \in Seq([send : 1 .. MaxSends, rcpts : SUBSET Recipients])
      /\ server \in ServerType
      /\ \A i \in DOMAIN toServer : /\ toServer[i].verb = "RCPT" => toServer[i].arg \in Recipients
                                    /\ toServer[i].verb = "TEXT" => toServer[i].arg[1] > 0
  BY DEF SmtpWellFormed, SmtpTypeOK, CommandType, LineType, ServerType, Recipients
<1>3. /\ c \in CommandType
      /\ c.verb = "RCPT" => c.arg \in Recipients
      /\ c.verb = "TEXT" => c.arg[1] > 0
      /\ toServer' \in Seq(CommandType)
      /\ \A i \in DOMAIN toServer' : /\ toServer'[i].verb = "RCPT" => toServer'[i].arg \in Recipients
                                     /\ toServer'[i].verb = "TEXT" => toServer'[i].arg[1] > 0
  <2>1. 1 \in DOMAIN toServer /\ c = toServer[1]
    BY <1>1, <1>2
  <2>2. c \in CommandType /\ toServer' \in Seq(CommandType)
    BY <1>1, <1>2, HeadTailProperties
  <2>3. \A i \in DOMAIN toServer' : i + 1 \in DOMAIN toServer /\ toServer'[i] = toServer[i + 1]
    BY <1>1, <1>2
  <2> HIDE DEF c
  <2> QED
    BY <1>2, <2>1, <2>2, <2>3
<1> HIDE DEF c
<1>4. /\ toClient' \in Seq(LineType) /\ server' \in ServerType
      /\ accepted' \in Seq([send : 1 .. MaxSends, rcpts : SUBSET Recipients])
  <2>1. CASE UNCHANGED <<toClient, server, accepted>>
    BY <1>2, <2>1
  <2>2. CASE \E a \in Answers(c), k \in 1 .. MaxLines :
               /\ toClient' = toClient \o Lines(a[1][1], k, c.n)
                    \o (IF Len(a[1]) > 1 THEN Lines(a[1][2], 1, c.n) ELSE <<>>)
               /\ server' = a[2]
               /\ accepted' =
                    IF c.verb = "TEXT" /\ server.data /\ a[1][1] = "250"
                    THEN Append(accepted, [send |-> c.arg[1], rcpts |-> server.rcpts])
                    ELSE accepted
    <3>1. PICK a \in Answers(c), k \in 1 .. MaxLines :
               /\ toClient' = toClient \o Lines(a[1][1], k, c.n)
                    \o (IF Len(a[1]) > 1 THEN Lines(a[1][2], 1, c.n) ELSE <<>>)
               /\ server' = a[2]
               /\ accepted' =
                    IF c.verb = "TEXT" /\ server.data /\ a[1][1] = "250"
                    THEN Append(accepted, [send |-> c.arg[1], rcpts |-> server.rcpts])
                    ELSE accepted
      BY <2>2
    <3>2. PICK code \in Codes : a[1] = <<code>> \/ a[1] = <<code, "500">>
      BY <1>2, <1>3, AnswersTyped
    <3>3. server' \in ServerType
      BY <1>2, <1>3, <3>1, AnswersTyped
    <3>4. k \in Nat \ {0} /\ c.n \in Nat /\ "500" \in Codes /\ 1 \in Nat \ {0}
      BY <1>3 DEF CommandType, Codes
    <3>5. Lines(code, k, c.n) \in Seq(LineType) /\ Lines("500", 1, c.n) \in Seq(LineType)
      BY <3>4, LinesAre
    <3>6. a[1][1] = code /\ (Len(a[1]) > 1 => a[1][2] = "500")
      BY <3>2
    <3>7. toClient' \in Seq(LineType)
      BY <1>2, <3>1, <3>5, <3>6
    <3>8. c.verb = "TEXT" => c.arg[1] \in 1 .. MaxSends
      BY <1>3, SmtpAssumption DEF CommandType
    <3>9. server.rcpts \in SUBSET Recipients
      BY <1>2 DEF ServerType
    <3>10. accepted' \in Seq([send : 1 .. MaxSends, rcpts : SUBSET Recipients])
      <4>1. CASE c.verb = "TEXT" /\ server.data /\ a[1][1] = "250"
        <5> DEFINE m == [send |-> c.arg[1], rcpts |-> server.rcpts]
        <5>1. m \in [send : 1 .. MaxSends, rcpts : SUBSET Recipients]
          BY <3>8, <3>9, <4>1
        <5>2. accepted' = Append(accepted, m)
          BY <3>1, <4>1
        <5> HIDE DEF m
        <5> QED
          BY <1>2, <5>1, <5>2
      <4>2. CASE ~(c.verb = "TEXT" /\ server.data /\ a[1][1] = "250")
        BY <1>2, <3>1, <4>2
      <4> QED
        BY <4>1, <4>2
    <3> QED
      BY <3>3, <3>7, <3>10
  <2> QED
    BY <2>1, <2>2 DEF Serve, c
<1>5. SmtpTypeOK'
  BY <1>1, <1>2, <1>3, <1>4 DEF SmtpWellFormed, SmtpTypeOK, CommandType, LineType, Recipients
<1> QED
  BY <1>1, <1>3, <1>4, <1>5 DEF SmtpWellFormed, ServerType, Session

(* Every step keeps the session well formed.                               *)
LEMMA NextWellFormed ==
  ASSUME SmtpWellFormed, [MailNext]_mailVars
  PROVE  SmtpWellFormed'
<1>0. /\ toServer \in Seq(CommandType) /\ toClient \in Seq(LineType)
      /\ sends \in 0 .. MaxSends /\ sent \in Nat /\ conn \in {"none", "up", "shut"}
      /\ got \in Codes \cup {NoCode} /\ late \in BOOLEAN
  BY DEF SmtpWellFormed, SmtpTypeOK, CommandType, LineType
<1>9. \A S : <<>> \in Seq(S)
  OBVIOUS
<1>1. ASSUME NEW code \in {"220", "501", "fail"}, Connect(code)
      PROVE  SmtpWellFormed'
  <2>1. CASE code = "fail"
    <3>1. /\ late' = FALSE /\ accepted' = <<>> /\ sent' = 0 /\ toServer' = <<>> /\ result' = FALSE
          /\ UNCHANGED <<pc, conn, toClient, got, server, rcpts, program, sends, asked>>
      BY <1>1, <2>1 DEF Connect
    <3>2. SmtpTypeOK'
      BY <1>9, <3>1 DEF SmtpWellFormed, SmtpTypeOK
    <3> QED
      BY <3>1, <3>2 DEF SmtpWellFormed, Session
  <2>2. CASE code # "fail"
    <3>1. /\ late' = FALSE /\ accepted' = <<>> /\ sent' = 0 /\ toServer' = <<>>
          /\ conn' = "up" /\ pc' = "banner" /\ got' = NoCode
          /\ toClient' = <<[code |-> code, last |-> TRUE, n |-> 0]>>
          /\ server' = [data |-> FALSE, open |-> FALSE, rcpts |-> {}]
          /\ UNCHANGED <<rcpts, program, sends, asked, result>>
      BY <1>1, <2>2 DEF Connect
    <3>2. [code |-> code, last |-> TRUE, n |-> 0] \in LineType
      BY <2>2 DEF LineType, Codes
    <3>3. toClient' \in Seq(LineType)
      BY <3>1, <3>2
    <3>4. SmtpTypeOK'
      BY <1>9, <3>1, <3>3 DEF SmtpWellFormed, SmtpTypeOK, LineType
    <3> QED
      BY <3>1, <3>4 DEF SmtpWellFormed, Session
  <2> QED
    BY <2>1, <2>2
<1>2. ASSUME NEW n \in 1 .. MaxRcpts, Send(n)
      PROVE  SmtpWellFormed'
  <2> DEFINE c == [verb |-> "MAIL", arg |-> <<sends + 1, 0>>, n |-> sent + 1]
  <2>1. /\ pc = "idle" /\ conn # "none" /\ sends < MaxSends /\ sends' = sends + 1
        /\ rcpts' = [i \in 1 .. n |-> <<sends + 1, i>>] /\ asked' = n
        /\ sent' = sent + 1 /\ pc' = "mail"
        /\ toServer' = IF conn = "up" THEN Append(toServer, c) ELSE toServer
        /\ UNCHANGED <<conn, toClient, got, result, program, server, accepted, late>>
    BY <1>2 DEF Send, SendString
  <2>2. sends + 1 \in 1 .. MaxSends /\ sends + 1 \in 0 .. MaxSends /\ sent + 1 \in Nat
    BY <1>0, <2>1, SmtpAssumption
  <2>3. c \in CommandType /\ c.verb = "MAIL"
    <3>1. 0 \in 0 .. MaxRcpts
      BY SmtpAssumption
    <3> QED
      BY <2>2, <3>1 DEF CommandType
  <2> HIDE DEF c
  <2>4. /\ toServer' \in Seq(CommandType)
        /\ \A i \in DOMAIN toServer' :
             /\ toServer'[i].verb = "RCPT" => toServer'[i].arg \in Recipients
             /\ toServer'[i].verb = "TEXT" => toServer'[i].arg[1] > 0
        /\ conn # "up" => toServer' = toServer
    BY <2>1, <2>3, CommandSent
  <2>5. rcpts' \in Seq(Recipients)
    <3>1. \A i \in 1 .. n : <<sends + 1, i>> \in Recipients
      BY <1>2, <2>2, SmtpAssumption DEF Recipients
    <3>2. n \in Nat
      BY <1>2
    <3> QED
      BY <2>1, <3>1, <3>2
  <2>6. asked' \in 0 .. MaxRcpts /\ sends' \in 0 .. MaxSends /\ sent' \in Nat /\ sends' > 0
    BY <1>0, <2>1, <2>2, SmtpAssumption
  <2>7. SmtpTypeOK'
    BY <1>0, <2>1, <2>4, <2>5, <2>6 DEF SmtpWellFormed, SmtpTypeOK, CommandType, Recipients
  <2> QED
    BY <1>0, <2>1, <2>4, <2>6, <2>7 DEF SmtpWellFormed, Session
<1>3. ASSUME Close
      PROVE  SmtpWellFormed'
  <2> DEFINE c == [verb |-> "QUIT", arg |-> <<sends, 0>>, n |-> sent + 1]
  <2>1. /\ pc = "idle" /\ conn # "none" /\ sent' = sent + 1 /\ pc' = "quit"
        /\ toServer' = IF conn = "up" THEN Append(toServer, c) ELSE toServer
        /\ UNCHANGED <<conn, result, rcpts, toClient, got, program, server, sends, asked,
                       accepted, late>>
    BY <1>3 DEF Close, Ask, SendString, NoRcpt
  <2>2. c \in CommandType /\ c.verb = "QUIT"
    <3>1. 0 \in 0 .. MaxRcpts /\ sent + 1 \in Nat
      BY <1>0, SmtpAssumption
    <3> QED
      BY <1>0, <3>1 DEF CommandType
  <2> HIDE DEF c
  <2>3. /\ toServer' \in Seq(CommandType)
        /\ \A i \in DOMAIN toServer' :
             /\ toServer'[i].verb = "RCPT" => toServer'[i].arg \in Recipients
             /\ toServer'[i].verb = "TEXT" => toServer'[i].arg[1] > 0
        /\ conn # "up" => toServer' = toServer
    BY <2>1, <2>2, CommandSent
  <2>4. sent' \in Nat
    BY <1>0, <2>1
  <2>5. SmtpTypeOK'
    BY <1>0, <2>1, <2>3, <2>4 DEF SmtpWellFormed, SmtpTypeOK, CommandType
  <2> QED
    BY <1>0, <2>1, <2>3, <2>5 DEF SmtpWellFormed, Session
<1>4. ASSUME ReadLine
      PROVE  SmtpWellFormed'
  <2> DEFINE line == Head(toClient)
             code == IF got = NoCode THEN line.code ELSE got
  <2>1. pc # "idle" /\ toClient # <<>> /\ late' = late
    BY <1>4 DEF ReadLine
  <2>2. line \in LineType /\ Tail(toClient) \in Seq(LineType)
    BY <1>0, <2>1, HeadTailProperties
  <2>3. CASE /\ got' = code /\ toClient' = Tail(toClient)
             /\ UNCHANGED <<pc, conn, toServer, rcpts, result, program, server, sends, asked,
                            sent, accepted>>
    <3>1. code \in Codes \cup {NoCode}
      <4> HIDE DEF line
      <4> QED
        BY <1>0, <2>2 DEF LineType
    <3> HIDE DEF code
    <3>2. conn # "none"
      BY <2>1 DEF SmtpWellFormed, SmtpTypeOK
    <3>3. SmtpTypeOK'
      BY <2>1, <2>2, <2>3, <3>1, <3>2 DEF SmtpWellFormed, SmtpTypeOK, LineType
    <3> QED
      BY <2>1, <2>3, <3>3 DEF SmtpWellFormed, Session
  <2>4. CASE /\ got' = NoCode
             /\ toClient' = IF pc = "quit" THEN <<>> ELSE Tail(toClient)
             /\ Answered(code)
    <3> HIDE DEF code
    <3>1. toClient' \in Seq(LineType)
      BY <2>2, <2>4
    <3> QED
      BY <1>0, <2>1, <2>4, <3>1, AnsweredWellFormed
  <2> QED
    BY <1>4, <2>3, <2>4 DEF ReadLine
<1>5. ASSUME ReadNothing
      PROVE  SmtpWellFormed'
  <2>1. /\ pc # "idle" /\ toClient = <<>> /\ toClient' = toClient /\ got' = NoCode
        /\ Answered(got) /\ late' \in BOOLEAN
    BY <1>0, <1>5 DEF ReadNothing
  <2> QED
    BY <1>0, <2>1, AnsweredWellFormed
<1>6. ASSUME Shut
      PROVE  SmtpWellFormed'
  <2>1. /\ conn = "up" /\ conn' = "shut" /\ toServer' = <<>>
        /\ UNCHANGED <<pc, toClient, got, rcpts, result, program, server, sends, asked,
                       sent, accepted, late>>
    BY <1>6 DEF Shut
  <2>2. SmtpTypeOK'
    BY <2>1 DEF SmtpWellFormed, SmtpTypeOK
  <2> QED
    BY <2>1, <2>2 DEF SmtpWellFormed, Session
<1>7. CASE UNCHANGED mailVars
  <2>1. SmtpTypeOK'
    BY <1>7 DEF mailVars, SmtpWellFormed, SmtpTypeOK
  <2> QED
    BY <1>7, <2>1 DEF mailVars, SmtpWellFormed, Session
<1> QED
  BY <1>1, <1>2, <1>3, <1>4, <1>5, <1>6, <1>7, ServeWellFormed DEF MailNext, Client

(* The types hold at the start. *)
LEMMA InitWellFormed == MailInit => SmtpWellFormed
<1> SUFFICES ASSUME MailInit PROVE SmtpWellFormed
  OBVIOUS
<1>1. SmtpTypeOK
  <2>1. \A S : <<>> \in Seq(S)
    OBVIOUS
  <2>2. 0 \in 0 .. MaxSends /\ 0 \in 0 .. MaxRcpts /\ 0 \in Nat
    BY SmtpAssumption
  <2>3. /\ pc = "idle" /\ conn = "none" /\ toServer = <<>> /\ toClient = <<>>
        /\ got = NoCode /\ rcpts = <<>> /\ result = FALSE
        /\ sends = 0 /\ asked = 0 /\ sent = 0 /\ accepted = <<>> /\ late = FALSE
    BY DEF MailInit
  <2> QED
    BY <2>1, <2>2, <2>3 DEF SmtpTypeOK
<1> QED
  BY <1>1 DEF MailInit, SmtpWellFormed, Session

(* Sessions have the types SmtpTypeOK gives, and nothing is under way      *)
(* without a connection.                                                   *)
THEOREM SmtpTypeCorrect == MailSpec => []SmtpTypeOK
<1>1. SmtpWellFormed => SmtpTypeOK
  BY DEF SmtpWellFormed
<1> QED
  BY <1>1, InitWellFormed, NextWellFormed, PTL DEF MailSpec


-----------------------------------------------------------------------------
(* The recipients still to be named.                                       *)

(* The recipients still to be named are among those of the mail. *)
LEMMA ToNameTyped ==
  ASSUME SmtpWellFormed
  PROVE  /\ rcpts \in Seq(Recipients) /\ (rcpts = <<>> => ToName = {})
         /\ rcpts # <<>> => Head(rcpts) \in ToName
<1>1. rcpts \in Seq(Recipients)
  BY DEF SmtpWellFormed, SmtpTypeOK, Recipients
<1>2. /\ rcpts = <<>> => DOMAIN rcpts = {}
      /\ rcpts # <<>> => 1 \in DOMAIN rcpts /\ Head(rcpts) = rcpts[1]
  BY <1>1
<1> QED
  BY <1>1, <1>2 DEF ToName

(* Going on to the next recipient, one less is to be named. *)
LEMMA ToNameTail ==
  ASSUME SmtpWellFormed, rcpts # <<>>, rcpts' = Tail(rcpts)
  PROVE  ToName = ToName' \cup {Head(rcpts)}
<1>1. rcpts \in Seq(Recipients)
  BY ToNameTyped
<1>2. /\ \A d \in DOMAIN rcpts' : d + 1 \in DOMAIN rcpts /\ rcpts'[d] = rcpts[d + 1]
      /\ \A d \in DOMAIN rcpts : d # 1 => d - 1 \in DOMAIN rcpts' /\ rcpts'[d - 1] = rcpts[d]
      /\ 1 \in DOMAIN rcpts /\ Head(rcpts) = rcpts[1]
  BY <1>1
<1>3. ToName' = {rcpts'[i] : i \in DOMAIN rcpts'}
  BY DEF ToName
<1>4. ASSUME NEW r \in ToName PROVE r \in ToName' \cup {Head(rcpts)}
  <2>1. PICK d \in DOMAIN rcpts : r = rcpts[d]
    BY <1>4 DEF ToName
  <2>2. CASE d # 1
    <3>1. d - 1 \in DOMAIN rcpts' /\ rcpts'[d - 1] = rcpts[d]
      BY <1>2, <2>1, <2>2
    <3> QED
      BY <1>3, <2>1, <3>1
  <2> QED
    BY <1>2, <2>1, <2>2
<1>5. ASSUME NEW r \in ToName' PROVE r \in ToName
  <2>1. PICK d \in DOMAIN rcpts' : r = rcpts'[d]
    BY <1>3, <1>5
  <2> QED
    BY <1>2, <2>1 DEF ToName
<1>6. Head(rcpts) \in ToName
  BY ToNameTyped
<1> QED
  BY <1>4, <1>5, <1>6

(* Send names all its recipients, one after the other.                     *)
LEMMA NextNaming ==
  ASSUME SmtpWellFormed, Naming, [MailNext]_mailVars
  PROVE  Naming'
<1> USE DEF Naming
<1>1. ASSUME NEW n \in 1 .. MaxRcpts, Send(n)
      PROVE  Naming'
  <2>1. rcpts' = [i \in 1 .. n |-> <<sends', i>>] /\ asked' = n
    BY <1>1 DEF Send
  <2>2. ToName' = {rcpts'[i] : i \in DOMAIN rcpts'} /\ Everyone' = {<<sends', i>> : i \in 1 .. asked'}
    BY DEF ToName, Everyone
  <2>3. ToName' = {<<sends', i>> : i \in 1 .. n}
    BY <2>1, <2>2
  <2> QED
    BY <2>1, <2>2, <2>3
<1>2. ASSUME NEW code, Answered(code)
      PROVE  Naming'
  <2>1. pc = "rcpt" => rcpts # <<>>
    BY DEF SmtpWellFormed
  <2>2. sends' = sends
    BY <1>2, <2>1, AnsweredStep
  <2>3. CASE pc' \in {"mail", "rcpt"}
    <3>1. \/ pc = "mail" /\ pc' = "rcpt" /\ rcpts' = rcpts
          \/ pc = "rcpt" /\ pc' = "rcpt" /\ rcpts' = Tail(rcpts)
      BY <1>2, <2>1, <2>3, AnsweredStep DEF AfterQuit
    <3>2. CASE rcpts' = rcpts
      <4>1. ToName' = ToName
        BY <3>2 DEF ToName
      <4> QED
        BY <2>2, <3>1, <4>1
    <3>3. CASE pc = "rcpt" /\ pc' = "rcpt" /\ rcpts' = Tail(rcpts)
      BY <2>1, <2>2, <3>3, ToNameTail
    <3> QED
      BY <3>1, <3>2, <3>3
  <2> QED
    BY <2>3
<1>3. CASE UNCHANGED <<pc, rcpts, sends, asked>>
  <2>1. ToName' = ToName /\ Everyone' = Everyone
    BY <1>3 DEF ToName, Everyone
  <2> QED
    BY <1>3, <2>1
<1>4. CASE pc' \notin {"mail", "rcpt"}
  BY <1>4
<1>5. ASSUME NEW code \in {"220", "501", "fail"}, Connect(code)
      PROVE  UNCHANGED <<pc, rcpts, sends, asked>> \/ pc' \notin {"mail", "rcpt"}
  BY <1>5 DEF Connect
<1> QED
  BY <1>1, <1>2, <1>3, <1>4, <1>5
     DEF MailNext, Client, ReadLine, ReadNothing, Close, Ask, Serve, Shut, mailVars

-----------------------------------------------------------------------------
(* Reading a line of an answer that is not its last changes nothing.       *)
LEMMA FirstLines ==
  ASSUME SmtpWellFormed, CleanInv, Told, ~Head(toClient).last, toClient' = Tail(toClient),
         got' = (IF got = NoCode THEN Head(toClient).code ELSE got),
         UNCHANGED <<pc, conn, toServer, rcpts, result, program, server, sends, asked,
                     sent, accepted>>
  PROVE  CleanInv'
<1>1. /\ toClient \in Seq(LineType) /\ toClient # <<>>
      /\ Answer \in {"220", "250", "354", "501", "503"}
      /\ \A i \in DOMAIN toClient : /\ toClient[i].n = sent /\ toClient[i].code = Answer
                                    /\ (toClient[i].last <=> i = Len(toClient))
      /\ pc # "idle" /\ toServer = <<>>
  BY DEF Told, SmtpWellFormed, SmtpTypeOK, LineType
<1>2. /\ 1 \in DOMAIN toClient /\ Head(toClient) = toClient[1] /\ Len(toClient) # 1
      /\ Len(toClient) \in Nat /\ Len(toClient) # 0
  BY <1>1
<1>3. /\ Len(toClient') = Len(toClient) - 1 /\ toClient' # <<>>
      /\ \A i \in DOMAIN toClient' : /\ i + 1 \in DOMAIN toClient /\ toClient'[i] = toClient[i + 1]
                                     /\ i \in Nat
      /\ 1 \in DOMAIN toClient'
  <2> DEFINE tc == toClient
             n == Len(toClient)
  <2>1. tc \in Seq(LineType) /\ tc # <<>> /\ n \in Nat /\ n # 0 /\ n # 1 /\ n = Len(tc)
    BY ONLY <1>1, <1>2
  <2> HIDE DEF tc
  <2>2. /\ Len(Tail(tc)) = n - 1 /\ DOMAIN Tail(tc) = 1 .. n - 1 /\ DOMAIN tc = 1 .. n
        /\ \A i \in 1 .. n - 1 : Tail(tc)[i] = tc[i + 1]
    BY ONLY <2>1
  <2>3. /\ Tail(tc) # <<>> /\ 1 \in DOMAIN Tail(tc)
        /\ \A i \in DOMAIN Tail(tc) : i + 1 \in DOMAIN tc /\ i \in Nat
    BY ONLY <2>1, <2>2
  <2>4. toClient' = Tail(tc) /\ toClient = tc
    BY DEF tc
  <2> QED
    BY ONLY <2>1, <2>2, <2>3, <2>4
<1>4. got' = Answer /\ got' # NoCode
  BY <1>1, <1>2 DEF Answer, NoCode
<1>5. Answer' = Answer
  BY <1>4 DEF Answer
<1>6. \A i \in DOMAIN toClient' : /\ toClient'[i].n = sent' /\ toClient'[i].code = Answer'
                                  /\ (toClient'[i].last <=> i = Len(toClient'))
  BY <1>1, <1>2, <1>3, <1>5
<1>7. Told'
  BY <1>1, <1>3, <1>5, <1>6 DEF Told
<1>8. ~Asked /\ ~Asked'
  BY <1>1, <1>3 DEF Asked
<1>9. Taken' = Taken /\ Everyone' = Everyone /\ ToName' = ToName
  BY DEF Taken, Everyone, ToName
<1>10. Ours' = Ours
  BY <1>9 DEF Ours
<1>11. conn' = "up" => Transaction'
  BY <1>5, <1>7, <1>8, <1>10 DEF CleanInv, Transaction
<1>12. Mails'
  BY <1>5, <1>7, <1>8, <1>9 DEF CleanInv, Mails
<1> QED
  BY <1>7, <1>11, <1>12 DEF CleanInv

(* A step that keeps the mails and has no transaction.                     *)
LEMMA MailsKept ==
  ASSUME CleanInv, UNCHANGED <<accepted, sends, asked, program>>, conn' # "up"
  PROVE  Mails'
<1>1. Everyone' = Everyone
  BY DEF Everyone
<1> QED
  BY <1>1 DEF CleanInv, Mails

(* An answer read to its end, or not got as the connection ended.          *)
LEMMA AnswerCutOff ==
  ASSUME SmtpWellFormed, CleanInv, conn = "shut", pc # "idle",
         NEW code, Answered(code), toClient' = <<>>, got' = NoCode
  PROVE  CleanInv'
<1>1. toServer = <<>> /\ (pc = "rcpt" => rcpts # <<>>)
  BY DEF SmtpWellFormed
<1>2. /\ UNCHANGED <<program, sends, asked, accepted>> /\ toServer' = <<>>
      /\ \/ pc' = "idle"
         \/ conn' = "shut" /\ pc' # "idle"
      /\ conn' # "up"
  BY <1>1, AnsweredStep DEF AfterQuit, Quiet
<1>3. Cut' \/ Between'
  BY <1>2 DEF Cut, Between
<1> QED
  BY <1>2, <1>3, MailsKept DEF CleanInv

(* After a whole answer in step, the method is where the server is. *)
LEMMA AnswerRead ==
  ASSUME SmtpWellFormed, Naming, CleanInv, Clean, conn = "up", Told,
         Answered(Answer), toClient' = <<>>, got' = NoCode
  PROVE  CleanInv'
<1>0. /\ pc = "rcpt" => rcpts # <<>>
      /\ toServer = <<>> /\ Answer \in {"220", "250", "354", "501", "503"}
      /\ ~Asked /\ Transaction /\ Mails /\ pc # "idle"
  BY DEF SmtpWellFormed, Told, Asked, CleanInv
<1>1. UNCHANGED <<program, server, sends, asked, accepted>>
  BY <1>0, AnsweredStep
<1>2. Everyone' = Everyone /\ Taken' = Taken /\ ~Told'
  BY <1>1 DEF Everyone, Taken, Told
<1>3. CASE /\ pc' = "idle" /\ Quiet /\ UNCHANGED <<conn, rcpts>>
           /\ pc = "data" => Answer \notin {"354", "554"}
  <2>1. Between' /\ ~server.data
    BY <1>0, <1>3 DEF Between, Quiet, Transaction
  <2>2. Transaction'
    BY <1>0, <1>1, <1>3, <2>1 DEF Transaction
  <2>3. Mails'
    BY <1>0, <1>1, <1>2, <1>3 DEF Mails
  <2> QED
    BY <2>1, <2>2, <2>3 DEF CleanInv
<1>4. CASE pc = "quit" /\ AfterQuit
  <2>1. Between' /\ conn' = "none"
    BY <1>4 DEF Between, AfterQuit
  <2> QED
    BY <1>1, <2>1, MailsKept DEF CleanInv
<1>5. CASE /\ sent' = sent + 1 /\ UNCHANGED <<conn, result>>
           /\ toServer' = IF conn = "up" THEN Append(toServer, Command') ELSE toServer
           /\ \/ pc = "banner" /\ pc' = "ehlo" /\ rcpts' = rcpts
              \/ pc = "ehlo" /\ pc' = "helo" /\ rcpts' = rcpts
              \/ /\ pc = "mail" /\ Answer \in {"250", "550"} /\ rcpts' = rcpts
                 /\ IF rcpts # <<>> THEN pc' = "rcpt" ELSE pc' = "data"
              \/ /\ pc = "rcpt" /\ (Answer = "250" \/ program.ignore) /\ rcpts' = Tail(rcpts)
                 /\ IF rcpts' # <<>> THEN pc' = "rcpt" ELSE pc' = "data"
              \/ /\ pc = "data" /\ Answer \in {"354", "554"} /\ rcpts' = rcpts /\ pc' = "text"
  <2>1. Asked' /\ conn' = "up"
    <3>1. toServer' = <<Command'>>
      BY <1>0, <1>5
    <3>2. pc' \notin {"idle", "banner"}
      BY <1>5
    <3> QED
      BY <1>5, <3>1, <3>2 DEF Asked
  <2>2. rcpts' = rcpts => ToName' = ToName
    BY DEF ToName
  <2>3. CASE pc \in {"banner", "ehlo"}
    <3>1. pc' \in {"ehlo", "helo"}
      BY <1>5, <2>3
    <3>2. Transaction'
      BY <1>0, <1>1, <2>3, <3>1 DEF Transaction
    <3>3. Mails'
      BY <1>0, <1>1, <1>2, <3>1 DEF Mails
    <3> QED
      BY <2>1, <3>2, <3>3 DEF CleanInv
  <2>4. CASE pc \in {"mail", "rcpt"}
    <3>1. pc' \in {"rcpt", "data"}
      BY <1>5, <2>4
    <3>2. server.open /\ ~server.data
      BY <1>0, <1>5, <2>4 DEF Transaction
    <3>3. Ours'
      <4>1. CASE pc = "mail"
        <5>1. server.rcpts = {} /\ ToName' = Everyone
          BY <1>0, <1>5, <2>2, <4>1 DEF Transaction, Naming
        <5> QED
          BY <1>1, <1>2, <5>1 DEF Ours
      <4>2. CASE pc = "rcpt"
        <5>1. ToName = ToName' \cup {Head(rcpts)}
          BY <1>0, <1>5, <4>2, ToNameTail
        <5>2. ~program.ignore => Head(rcpts) \in server.rcpts
          BY <1>0, <1>5, <4>2 DEF Transaction
        <5> QED
          BY <1>0, <1>1, <1>2, <4>2, <5>1, <5>2 DEF Ours, Transaction
      <4> QED
        BY <2>4, <4>1, <4>2
    <3>4. Transaction'
      BY <1>0, <1>1, <1>2, <3>1, <3>2, <3>3 DEF Transaction
    <3>5. Mails'
      BY <1>0, <1>1, <1>2, <1>5, <2>4, <3>1 DEF Mails
    <3> QED
      BY <2>1, <3>4, <3>5 DEF CleanInv
  <2>5. CASE pc = "data"
    <3>1. pc' = "text" /\ Answer = "354" /\ rcpts' = rcpts
      BY <1>0, <1>5, <2>5
    <3>2. server.data /\ server.open /\ Ours
      BY <1>0, <2>5, <3>1 DEF Transaction
    <3>3. Ours'
      BY <1>1, <1>2, <2>2, <3>1, <3>2 DEF Ours
    <3>4. Transaction'
      BY <1>0, <1>1, <1>2, <2>1, <3>1, <3>2, <3>3 DEF Transaction
    <3>5. Mails'
      BY <1>0, <1>1, <1>2, <1>5, <2>5, <3>1 DEF Mails
    <3> QED
      BY <2>1, <3>4, <3>5 DEF CleanInv
  <2> QED
    BY <1>5, <2>3, <2>4, <2>5
<1> QED
  BY <1>0, <1>3, <1>4, <1>5, AnsweredStep


(* The server answers the one command under way, with a transaction that   *)
(* is the client's.                                                        *)
LEMMA ServeClean ==
  ASSUME SmtpWellFormed, Naming, CleanInv, Clean, Serve
  PROVE  CleanInv'
<1> DEFINE c == Head(toServer)
<1>1. /\ conn = "up" /\ toServer # <<>> /\ toServer' = Tail(toServer)
      /\ UNCHANGED <<pc, conn, got, rcpts, result, program, sends, asked, sent, late>>
  BY DEF Serve
<1>2. Asked /\ ~Told /\ Transaction /\ Mails
  BY <1>1 DEF CleanInv, Told, Cut, Between
<1>3. /\ pc \notin {"idle", "banner"} /\ toServer = <<Command>> /\ toClient = <<>> /\ got = NoCode
      /\ pc \in {"ehlo", "helo", "mail", "rcpt", "data", "text", "quit"} /\ sent \in Nat
  BY <1>2 DEF Asked, SmtpWellFormed, SmtpTypeOK
<1>4. /\ c = Command /\ toServer' = <<>>
  BY <1>1, <1>3
<1>5. /\ c.n = sent /\ (pc = "rcpt" => c.arg = Head(rcpts)) /\ (pc # "rcpt" => c.arg = <<sends, 0>>)
      /\ (pc = "ehlo" => c.verb = "EHLO") /\ (pc = "helo" => c.verb = "HELO")
      /\ (pc = "mail" => c.verb = "MAIL") /\ (pc = "rcpt" => c.verb = "RCPT")
      /\ (pc = "data" => c.verb = "DATA") /\ (pc = "text" => c.verb = "TEXT")
      /\ (pc = "quit" => c.verb = "QUIT")
  <2>1. /\ Verb["ehlo"] = "EHLO" /\ Verb["helo"] = "HELO" /\ Verb["mail"] = "MAIL"
        /\ Verb["rcpt"] = "RCPT" /\ Verb["data"] = "DATA" /\ Verb["text"] = "TEXT"
        /\ Verb["quit"] = "QUIT"
    BY DEF Verb
  <2>2. /\ c.verb = Verb[pc] /\ c.n = sent
        /\ c.arg = IF pc = "rcpt" THEN Head(rcpts) ELSE <<sends, 0>>
    BY <1>4 DEF Command, NoRcpt
  <2> HIDE DEF c
  <2> QED
    BY <2>1, <2>2
<1>6. /\ (server.data <=> pc = "text")
      /\ server.open => server.data \/ ~server.data
      /\ pc \in {"rcpt", "data", "text"} => server.open /\ Ours
      /\ (~server.open => server.rcpts = {})
      /\ server \in ServerType
  BY <1>2, <1>3 DEF Transaction, SmtpWellFormed, ServerType
<1>7. Refusals = {"501"} /\ program.trouble # "dot"
  BY DEF Clean, Refusals
<1>8. PICK a \in Answers(c), k \in 1 .. MaxLines :
        /\ toClient' = toClient \o Lines(a[1][1], k, c.n)
             \o (IF Len(a[1]) > 1 THEN Lines(a[1][2], 1, c.n) ELSE <<>>)
        /\ server' = a[2]
        /\ accepted' = IF c.verb = "TEXT" /\ server.data /\ a[1][1] = "250"
                       THEN Append(accepted, [send |-> c.arg[1], rcpts |-> server.rcpts])
                       ELSE accepted
  <2> HIDE DEF c
  <2>1. ~(server.data /\ c.verb # "TEXT")
    BY <1>5, <1>6
  <2> USE DEF c
  <2> QED
    BY <2>1 DEF Serve
<1>9. PICK code \in {"250", "354", "501", "503"} :
        /\ a[1] = <<code>>
        /\ \/ /\ pc # "text" /\ code \in {"501", "503"} /\ server' = server
           \/ /\ pc = "mail" /\ ~server.open /\ code = "250"
              /\ server' = [server EXCEPT !.open = TRUE]
           \/ /\ pc = "rcpt" /\ code = "250"
              /\ server' = [server EXCEPT !.rcpts = @ \cup {Head(rcpts)}]
           \/ /\ pc = "data" /\ code = "354" /\ server' = [server EXCEPT !.data = TRUE]
           \/ /\ pc = "text" /\ code \in {"250", "501"}
              /\ server' = [server EXCEPT !.data = FALSE, !.open = FALSE, !.rcpts = {}]
           \/ /\ pc \notin {"mail", "rcpt", "data", "text"} /\ code = "250" /\ server' = server
  <2> HIDE DEF c
  <2>1. CASE c.verb # "TEXT" /\ \E code \in Refusals \cup {"503"} : a = <<<<code>>, server>>
    BY <1>5, <1>7, <1>8, <2>1
  <2>2. CASE /\ c.verb = "MAIL" /\ ~server.open
             /\ a = <<<<"250">>, [server EXCEPT !.open = TRUE]>>
    BY <1>3, <1>5, <1>8, <2>2
  <2>3. CASE /\ c.verb = "RCPT" /\ server.open
             /\ a = <<<<"250">>, [server EXCEPT !.rcpts = @ \cup {c.arg}]>>
    BY <1>3, <1>5, <1>8, <2>3
  <2>4. CASE /\ c.verb = "DATA" /\ server.rcpts # {}
             /\ a = <<<<"354">>, [server EXCEPT !.data = TRUE]>>
    BY <1>3, <1>5, <1>8, <2>4
  <2>5. CASE /\ c.verb = "TEXT" /\ server.data
             /\ \E code \in Refusals \cup {"250"} :
                  a = <<IF program.trouble = "dot" THEN <<code, "500">> ELSE <<code>>,
                        [server EXCEPT !.data = FALSE, !.open = FALSE, !.rcpts = {}]>>
    BY <1>3, <1>5, <1>7, <1>8, <2>5
  <2>6. CASE c.verb = "TEXT" /\ ~server.data /\ a = <<<<"500", "500">>, server>>
    BY <1>3, <1>5, <1>6, <2>6
  <2>7. CASE c.verb \notin {"MAIL", "RCPT", "DATA", "TEXT"} /\ a = <<<<"250">>, server>>
    BY <1>3, <1>5, <1>8, <2>7
  <2> QED
    BY <2>1, <2>2, <2>3, <2>4, <2>5, <2>6, <2>7, AnswersAre
<1>10. /\ c.verb = "TEXT" <=> pc = "text"
       /\ c.arg[1] = sends \/ pc # "text"
  <2> HIDE DEF c
  <2> QED
    BY <1>3, <1>5
<1> HIDE DEF c
<1>11. Told' /\ Answer' = code /\ ~Asked'
  <2>1. /\ Lines(code, k, sent) \in Seq(LineType) /\ Len(Lines(code, k, sent)) = k
        /\ \A i \in 1 .. k : Lines(code, k, sent)[i] = [code |-> code, last |-> i = k, n |-> sent]
    <3>1. k \in Nat \ {0} /\ code \in Codes
      BY DEF Codes
    <3> QED
      BY <1>3, <3>1, LinesAre
  <2>2. a[1][1] = code /\ Len(a[1]) = 1
    BY <1>9
  <2>3. toClient' = Lines(code, k, sent)
    <3>1. toClient' = toClient \o Lines(code, k, sent) \o <<>>
      BY <1>5, <1>8, <2>2
    <3> QED
      BY <1>3, <2>1, <3>1
  <2>4. /\ toClient' # <<>> /\ DOMAIN toClient' = 1 .. k /\ Len(toClient') = k /\ 1 \in 1 .. k
    BY <2>1, <2>3
  <2>5. Answer' = code
    BY <1>1, <1>3, <2>1, <2>3, <2>4 DEF Answer
  <2>6. \A i \in DOMAIN toClient' : /\ toClient'[i].n = sent' /\ toClient'[i].code = Answer'
                                    /\ (toClient'[i].last <=> i = Len(toClient'))
    <3> SUFFICES ASSUME NEW i \in 1 .. k
                 PROVE  /\ toClient'[i].n = sent' /\ toClient'[i].code = Answer'
                        /\ (toClient'[i].last <=> i = k)
      BY <2>4
    <3>1. toClient'[i] = [code |-> code, last |-> i = k, n |-> sent]
      BY <2>1, <2>3
    <3>2. /\ toClient'[i].n = sent /\ toClient'[i].code = code
          /\ toClient'[i].last = (i = k)
      BY <3>1
    <3> QED
      BY <1>1, <2>5, <3>2
  <2>7. toServer' = <<>> /\ pc' # "idle"
    BY <1>1, <1>3, <1>4
  <2>8. Told'
    BY <2>4, <2>5, <2>6, <2>7 DEF Told
  <2>9. ~Asked'
    BY <2>4 DEF Asked
  <2> QED
    BY <2>5, <2>8, <2>9
<1>12. Everyone' = Everyone /\ ToName' = ToName
  BY <1>1 DEF Everyone, ToName
<1>13. Transaction'
  <2>1. CASE pc # "text" /\ code \in {"501", "503"} /\ server' = server
    <3>1. Ours' = Ours
      BY <1>1, <1>12, <2>1 DEF Ours
    <3> QED
      BY <1>1, <1>6, <1>11, <2>1, <3>1 DEF Transaction
  <2>2. CASE /\ pc = "mail" /\ ~server.open /\ code = "250"
             /\ server' = [server EXCEPT !.open = TRUE]
    <3>1. server'.open /\ server'.data = server.data /\ server'.rcpts = server.rcpts
      BY <1>6, <2>2 DEF ServerType
    <3> QED
      BY <1>1, <1>6, <1>11, <2>2, <3>1 DEF Transaction
  <2>3. CASE /\ pc = "rcpt" /\ code = "250"
             /\ server' = [server EXCEPT !.rcpts = @ \cup {Head(rcpts)}]
    <3>1. /\ server'.open = server.open /\ server'.data = server.data
          /\ server'.rcpts = server.rcpts \cup {Head(rcpts)}
      BY <1>6, <2>3 DEF ServerType
    <3>2. Head(rcpts) \in ToName /\ (pc = "rcpt" => Head(rcpts)[1] = sends)
      <4>1. rcpts # <<>>
        BY <2>3 DEF SmtpWellFormed
      <4>2. Head(rcpts) \in ToName
        BY <4>1, ToNameTyped
      <4> QED
        BY <2>3, <4>2 DEF Naming
    <3>3. Ours'
      BY <1>1, <1>6, <1>12, <2>3, <3>1, <3>2 DEF Ours
    <3> QED
      BY <1>1, <1>6, <1>11, <2>3, <3>1, <3>3 DEF Transaction
  <2>4. CASE pc = "data" /\ code = "354" /\ server' = [server EXCEPT !.data = TRUE]
    <3>1. server'.open = server.open /\ server'.data /\ server'.rcpts = server.rcpts
      BY <1>6, <2>4 DEF ServerType
    <3>2. Ours'
      BY <1>1, <1>6, <1>12, <2>4, <3>1 DEF Ours
    <3> QED
      BY <1>1, <1>6, <1>11, <2>4, <3>1, <3>2 DEF Transaction
  <2>5. CASE /\ pc = "text" /\ code \in {"250", "501"}
             /\ server' = [server EXCEPT !.data = FALSE, !.open = FALSE, !.rcpts = {}]
    <3>1. ~server'.open /\ ~server'.data /\ server'.rcpts = {}
      BY <1>6, <2>5 DEF ServerType
    <3> QED
      BY <1>1, <1>11, <2>5, <3>1 DEF Transaction
  <2>6. CASE pc \notin {"mail", "rcpt", "data", "text"} /\ code = "250" /\ server' = server
    BY <1>1, <1>6, <1>11, <2>6 DEF Transaction
  <2> QED
    BY <1>9, <2>1, <2>2, <2>3, <2>4, <2>5, <2>6
<1>14. Mails'
  <2>1. accepted \in Seq([send : 1 .. MaxSends, rcpts : SUBSET Recipients]) /\ sends \in Nat
    BY SmtpAssumption DEF SmtpWellFormed, SmtpTypeOK, Recipients
  <2>2. a[1][1] = code
    BY <1>9
  <2>3. CASE pc = "text" /\ code = "250"
    <3> DEFINE m == [send |-> sends, rcpts |-> server.rcpts]
    <3>1. accepted' = Append(accepted, m)
      BY <1>6, <1>8, <1>10, <2>2, <2>3
    <3>2. /\ m.send = sends /\ \A r \in m.rcpts : r[1] = sends
          /\ ~program.ignore => m.rcpts = Everyone
      <4>1. ToName = {}
        BY <2>3, ToNameTyped DEF SmtpWellFormed
      <4> QED
        BY <1>6, <2>3, <4>1 DEF Ours
    <3> HIDE DEF m
    <3>3. /\ \A i \in DOMAIN accepted' : accepted'[i] = m \/ (i \in DOMAIN accepted /\ accepted'[i] = accepted[i])
          /\ Len(accepted) + 1 \in DOMAIN accepted' /\ accepted'[Len(accepted) + 1] = m
      <4>1. sends \in 1 .. MaxSends
        BY <2>3, SmtpAssumption DEF SmtpWellFormed, SmtpTypeOK, Session
      <4>2. m \in [send : 1 .. MaxSends, rcpts : SUBSET Recipients]
        BY <1>6, <4>1 DEF ServerType, m
      <4> QED
        BY <2>1, <3>1, <4>2
    <3>4. Taken'
      BY <1>1, <3>2, <3>3 DEF Taken
    <3>5. \A i \in DOMAIN accepted' :
            /\ accepted'[i].send <= sends'
            /\ \A r \in accepted'[i].rcpts : r[1] = accepted'[i].send
            /\ ~program'.ignore /\ accepted'[i].send = sends' => accepted'[i].rcpts = Everyone'
      BY <1>1, <1>2, <1>12, <2>1, <3>2, <3>3 DEF Mails
    <3> QED
      BY <1>1, <1>11, <2>3, <3>4, <3>5 DEF Mails
  <2>4. CASE ~(pc = "text" /\ code = "250")
    <3>1. accepted' = accepted
      BY <1>8, <1>10, <2>2, <2>4
    <3>2. Taken' = Taken
      BY <1>1, <3>1 DEF Taken
    <3> QED
      BY <1>1, <1>2, <1>3, <1>11, <1>12, <2>4, <3>1, <3>2 DEF Mails
  <2> QED
    BY <2>3, <2>4
<1> QED
  BY <1>11, <1>13, <1>14 DEF CleanInv

(* A connection starts with a greeting or a refusal of the server, and     *)
(* with no transaction.                                                    *)
LEMMA ConnectClean ==
  ASSUME SmtpWellFormed, NEW code \in {"220", "501", "fail"}, Connect(code)
  PROVE  CleanInv'
<1>1. /\ pc = "idle" /\ conn = "none" /\ sent' = 0 /\ toServer' = <<>> /\ accepted' = <<>>
      /\ UNCHANGED <<rcpts, program, sends, asked>>
  BY DEF Connect
<1>2. toClient = <<>> /\ got = NoCode /\ DOMAIN accepted' = {}
  BY <1>1 DEF SmtpWellFormed, SmtpTypeOK
<1>3. CASE code = "fail"
  <2>1. UNCHANGED <<pc, conn, toClient, got, server>>
    BY <1>3 DEF Connect
  <2>2. Between' /\ conn' # "up"
    BY <1>1, <1>2, <2>1 DEF Between
  <2> QED
    BY <1>2, <2>2 DEF CleanInv, Mails
<1>4. CASE code # "fail"
  <2>1. /\ conn' = "up" /\ toClient' = <<[code |-> code, last |-> TRUE, n |-> 0]>>
        /\ server' = [data |-> FALSE, open |-> FALSE, rcpts |-> {}]
        /\ pc' = "banner" /\ got' = NoCode
    BY <1>4 DEF Connect
  <2>2. /\ DOMAIN toClient' = {1} /\ Len(toClient') = 1 /\ toClient' # <<>>
        /\ toClient'[1].code = code /\ toClient'[1].last = TRUE /\ toClient'[1].n = 0
    BY <2>1
  <2>3. Answer' = code
    BY <2>1, <2>2 DEF Answer
  <2>4. Told'
    BY <1>1, <1>4, <2>1, <2>2, <2>3 DEF Told
  <2>5. ~server'.data /\ ~server'.open /\ server'.rcpts = {}
    BY <2>1
  <2>6. Transaction'
    BY <2>1, <2>5 DEF Transaction
  <2> QED
    BY <1>2, <2>1, <2>4, <2>6 DEF CleanInv, Mails
<1> QED
  BY <1>3, <1>4

(* A call of Send or Close with nothing under way sends its command.       *)
LEMMA CallClean ==
  ASSUME SmtpWellFormed, CleanInv, pc = "idle", conn # "none",
         toServer' = IF conn = "up" THEN Append(toServer, Command') ELSE toServer,
         UNCHANGED <<conn, toClient, got, program, server, accepted>>,
         \/ pc' = "quit" /\ UNCHANGED <<sends, asked>>
         \/ pc' = "mail" /\ sends' = sends + 1
  PROVE  CleanInv'
<1>1. /\ toServer = <<>> /\ toClient = <<>> /\ got = NoCode
      /\ ~Asked /\ ~Told /\ sends \in Nat /\ conn \in {"up", "shut"}
  BY SmtpAssumption DEF CleanInv, Asked, Told, Cut, Between, SmtpWellFormed, SmtpTypeOK
<1>2. /\ conn = "up" => Asked'
      /\ conn = "shut" => Cut'
      /\ ~Told'
  BY <1>1 DEF Asked, Cut, Told
<1>3. conn = "up" => Transaction'
  BY <1>1, <1>2 DEF CleanInv, Transaction
<1>4. Mails'
  <2>1. CASE pc' = "quit" /\ UNCHANGED <<sends, asked>>
    <3>1. Everyone' = Everyone
      BY <2>1 DEF Everyone
    <3> QED
      BY <2>1, <3>1 DEF CleanInv, Mails
  <2>2. CASE pc' = "mail" /\ sends' = sends + 1
    <3>1. accepted \in Seq([send : 1 .. MaxSends, rcpts : SUBSET Recipients])
      BY DEF SmtpWellFormed, SmtpTypeOK, Recipients
    <3>0. \A i \in DOMAIN accepted : accepted[i].send \in Int /\ accepted[i].send <= sends
      <4>1. \A i \in DOMAIN accepted : accepted[i] \in [send : 1 .. MaxSends, rcpts : SUBSET Recipients]
        BY <3>1, ElementOfSeq, LenProperties
      <4> QED
        BY <4>1, SmtpAssumption DEF CleanInv, Mails
    <3>2. \A i \in DOMAIN accepted' : /\ accepted'[i].send < sends'
                                      /\ accepted'[i].send <= sends' /\ accepted'[i].send # sends'
      BY <1>1, <2>2, <3>0
    <3>3. ~Taken'
      BY <3>2 DEF Taken
    <3> QED
      BY <2>2, <3>2, <3>3 DEF CleanInv, Mails
  <2> QED
    BY <2>1, <2>2
<1> QED
  BY <1>1, <1>2, <1>3, <1>4 DEF CleanInv

(* What the client takes for an answer is an answer, read to its end.      *)
LEMMA LastLineRead ==
  ASSUME SmtpWellFormed, CleanInv, ReadLine, Head(toClient).last
  PROVE  Told /\ Answered(Answer) /\ toClient' = <<>> /\ got' = NoCode
<1>1. Told /\ toClient # <<>> /\ toClient \in Seq(LineType)
  BY DEF ReadLine, CleanInv, Asked, Cut, Between, SmtpWellFormed, SmtpTypeOK, LineType
<1>2. Head(toClient) = toClient[1] /\ 1 \in DOMAIN toClient /\ Len(toClient) \in Nat
  BY <1>1
<1>3. Len(toClient) = 1
  BY <1>1, <1>2 DEF Told
<1>4. Tail(toClient) = <<>>
  <2>1. Tail(toClient) \in Seq(LineType) /\ Len(Tail(toClient)) = 0
    BY <1>1, <1>3, HeadTailProperties
  <2> QED
    BY <2>1, EmptySeq
<1> QED
  BY <1>1, <1>2, <1>4 DEF ReadLine, LastLine, Answer

(* The session stays in step as long as nothing that spoils it happens. *)
LEMMA NextClean ==
  ASSUME SmtpWellFormed, Naming, Clean => CleanInv, [MailNext]_mailVars
  PROVE  Clean' => CleanInv'
<1> SUFFICES ASSUME Clean' PROVE CleanInv'
  OBVIOUS
<1>1. ASSUME NEW code \in {"220", "501", "fail"}, Connect(code)
      PROVE  CleanInv'
  BY <1>1, ConnectClean
<1>2. ASSUME NEW n \in 1 .. MaxRcpts, Send(n)
      PROVE  CleanInv'
  <2>1. Clean /\ sends' = sends + 1 /\ pc' = "mail"
    BY <1>2 DEF Send, Clean
  <2>2. Command' = [verb |-> "MAIL", arg |-> <<sends + 1, 0>>, n |-> sent']
    <3>1. Verb["mail"] = "MAIL"
      BY DEF Verb
    <3>2. Command' = [verb |-> Verb[pc'], arg |-> IF pc' = "rcpt" THEN Head(rcpts') ELSE NoRcpt',
                      n |-> sent']
      BY DEF Command, Verb
    <3> QED
      BY <2>1, <3>1, <3>2 DEF NoRcpt
  <2>3. toServer' = IF conn = "up" THEN Append(toServer, Command') ELSE toServer
    BY <1>2, <2>2 DEF Send, SendString
  <2> QED
    BY <1>2, <2>1, <2>3, CallClean DEF Send
<1>3. CASE Close
  <2>1. Clean /\ pc' = "quit" /\ UNCHANGED sends
    BY <1>3 DEF Close, Ask, Clean
  <2>2. Command' = [verb |-> "QUIT", arg |-> NoRcpt, n |-> sent']
    <3>1. Verb["quit"] = "QUIT"
      BY DEF Verb
    <3>2. Command' = [verb |-> Verb[pc'], arg |-> IF pc' = "rcpt" THEN Head(rcpts') ELSE NoRcpt',
                      n |-> sent']
      BY DEF Command, Verb
    <3> QED
      BY <2>1, <3>1, <3>2 DEF NoRcpt
  <2>3. toServer' = IF conn = "up" THEN Append(toServer, Command') ELSE toServer
    BY <1>3, <2>2 DEF Close, Ask, SendString
  <2> QED
    BY <1>3, <2>1, <2>3, CallClean DEF Close, Ask
<1>4. CASE ReadLine
  <2>1. Clean /\ CleanInv
    <3>1. pc = "rcpt" => rcpts # <<>>
      BY DEF SmtpWellFormed
    <3>2. program' = program
      BY <1>4, <3>1, AnsweredStep DEF ReadLine
    <3> QED
      BY <1>4, <3>2 DEF ReadLine, Clean
  <2>2. CASE ~Head(toClient).last
    <3>1. Told
      BY <1>4, <2>1 DEF ReadLine, CleanInv, Asked, Cut, Between
    <3>2. /\ toClient' = Tail(toClient)
          /\ got' = (IF got = NoCode THEN Head(toClient).code ELSE got)
          /\ UNCHANGED <<pc, conn, toServer, rcpts, result, program, server, sends, asked,
                         sent, accepted>>
      BY <1>4, <2>2 DEF ReadLine, LastLine
    <3> QED
      BY <2>1, <2>2, <3>1, <3>2, FirstLines
  <2>3. CASE Head(toClient).last
    <3>1. Told /\ Answered(Answer) /\ toClient' = <<>> /\ got' = NoCode /\ pc # "idle"
      BY <1>4, <2>1, <2>3, LastLineRead DEF ReadLine
    <3>2. conn \in {"up", "shut"}
      BY <3>1 DEF SmtpWellFormed, SmtpTypeOK
    <3> QED
      BY <2>1, <3>1, <3>2, AnswerRead, AnswerCutOff
  <2> QED
    BY <2>2, <2>3
<1>5. CASE ReadNothing
  <2>1. /\ conn = "shut" /\ late' = late /\ pc # "idle" /\ toClient' = <<>> /\ got' = NoCode
        /\ Answered(got)
    BY <1>5 DEF ReadNothing, Clean
  <2>2. pc = "rcpt" => rcpts # <<>>
    BY DEF SmtpWellFormed
  <2>3. Clean
    BY <2>1, <2>2, AnsweredStep DEF Clean
  <2> QED
    BY <2>1, <2>3, AnswerCutOff
<1>6. CASE Serve
  BY <1>6, ServeClean DEF Serve, Clean
<1>7. CASE Shut
  <2>1. /\ Clean /\ CleanInv /\ conn' = "shut" /\ toServer' = <<>>
        /\ UNCHANGED <<pc, toClient, got, rcpts, result, program, server, sends, asked,
                       sent, accepted>>
    BY <1>7 DEF Shut, Clean
  <2>2. Answer' = Answer
    BY <2>1 DEF Answer
  <2>3. Told' \/ Cut' \/ Between'
    BY <2>1, <2>2 DEF CleanInv, Asked, Told, Cut, Between
  <2> QED
    BY <2>1, <2>3, MailsKept DEF CleanInv
<1>8. CASE UNCHANGED mailVars
  <2>1. UNCHANGED <<pc, conn, toServer, toClient, got, rcpts, program, server,
                    sends, asked, sent, accepted, late>>
    BY <1>8 DEF mailVars
  <2>2. /\ Answer' = Answer /\ Command' = Command /\ Everyone' = Everyone /\ ToName' = ToName
        /\ Taken' = Taken
    BY <2>1 DEF Answer, Command, Verb, NoRcpt, Everyone, ToName, Taken
  <2>3. Asked' = Asked /\ Told' = Told /\ Cut' = Cut /\ Between' = Between /\ Ours' = Ours
    BY <2>1, <2>2 DEF Asked, Told, Cut, Between, Ours
  <2>4. Clean /\ CleanInv
    BY <2>1 DEF Clean
  <2>5. Transaction' = Transaction /\ Mails' = Mails
    BY <2>1, <2>2, <2>3 DEF Transaction, Mails
  <2> QED
    BY <2>1, <2>3, <2>4, <2>5 DEF CleanInv
<1> QED
  BY <1>1, <1>2, <1>3, <1>4, <1>5, <1>6, <1>7, <1>8 DEF MailNext, Client

(* The session starts in step. *)
LEMMA InitClean == MailInit => Naming /\ CleanInv
<1> SUFFICES ASSUME MailInit PROVE Naming /\ CleanInv
  OBVIOUS
<1>1. /\ pc = "idle" /\ conn = "none" /\ toServer = <<>> /\ toClient = <<>>
      /\ accepted = <<>> /\ DOMAIN accepted = {}
  BY DEF MailInit
<1> QED
  BY <1>1 DEF Naming, CleanInv, Between, Mails

(* The invariant of every session.                                         *)
LEMMA SessionKept == MailSpec => []SessionInv
<1>1. MailInit => SessionInv
  BY InitWellFormed, InitClean DEF SessionInv
<1>2. SessionInv /\ [MailNext]_mailVars => SessionInv'
  BY NextWellFormed, NextNaming, NextClean DEF SessionInv
<1> QED
  BY <1>1, <1>2, PTL DEF MailSpec

(* The client never takes the answer to one command for that to another.   *)
THEOREM AnswersTakenInStep == MailSpec => []AnswersInStep
<1>1. SessionInv => AnswersInStep
  <2> SUFFICES ASSUME SessionInv, Clean
               PROVE  IF pc = "idle" THEN toClient = <<>>
                      ELSE \A i \in DOMAIN toClient : toClient[i].n = sent
    BY DEF AnswersInStep
  <2>1. toClient = <<>> => DOMAIN toClient = {}
    OBVIOUS
  <2> QED
    BY <2>1 DEF SessionInv, CleanInv, Asked, Told, Cut, Between
<1> QED
  BY <1>1, SessionKept, PTL

(* A mail has as many recipients as its Send was called with.              *)
LEMMA EveryoneCounted ==
  ASSUME SmtpWellFormed
  PROVE  Cardinality(Everyone) = asked
<1>1. asked \in Nat /\ asked \in Int /\ 1 \in Int
  BY SmtpAssumption DEF SmtpWellFormed, SmtpTypeOK
<1>2. IsFiniteSet(1 .. asked) /\ Cardinality(1 .. asked) = asked
  BY <1>1, FS_Interval
<1> DEFINE f == [i \in 1 .. asked |-> <<sends, i>>]
<1>3. f \in Bijection(1 .. asked, Everyone)
  <2>1. \A i \in 1 .. asked : f[i] = <<sends, i>>
    OBVIOUS
  <2>2. f \in [1 .. asked -> Everyone]
    BY DEF Everyone
  <2> HIDE DEF f
  <2>3. \A i, j \in 1 .. asked : f[i] = f[j] => i = j
    BY <2>1
  <2>4. \A e \in Everyone : \E i \in 1 .. asked : f[i] = e
    BY <2>1 DEF Everyone
  <2> QED
    BY <2>2, <2>3, <2>4 DEF Bijection, Injection, Surjection, IsInjective
<1>4. Cardinality(Everyone) = Cardinality(1 .. asked)
  BY <1>2, <1>3, FS_Bijection DEF ExistsBijection
<1> QED
  BY <1>2, <1>4

(* A mail goes to recipients of its own Send, to all of them unless        *)
(* refused ones are ignored.                                               *)
THEOREM MailsGoWhereSent == MailSpec => []RecipientsOfThisSend
<1>1. SessionInv => RecipientsOfThisSend
  BY EveryoneCounted DEF SessionInv, CleanInv, Mails, RecipientsOfThisSend
<1> QED
  BY <1>1, SessionKept, PTL

(* Send's result is what became of the mail.                               *)
THEOREM SendIsTrue == MailSpec => SendTellsTheTruth
<1>1. ASSUME SessionInv, [MailNext]_mailVars, Clean, conn = "up", pc \in Session, pc' = "idle"
      PROVE  result' <=> Taken
  <2>1. SmtpWellFormed /\ CleanInv /\ Transaction /\ Mails /\ pc \notin {"idle", "quit"}
    BY <1>1 DEF SessionInv, CleanInv, Session
  <2>2. (ReadLine /\ Head(toClient).last) \/ ReadNothing
    BY <1>1, <2>1 DEF MailNext, Client, Connect, Send, Close, ReadLine, LastLine, Serve, Shut,
                      mailVars
  <2>3. pc = "rcpt" => rcpts # <<>>
    BY <2>1 DEF SmtpWellFormed
  <2>4. CASE ReadLine /\ Head(toClient).last
    <3>1. Told /\ Answered(Answer) /\ Answer \in {"220", "250", "354", "501", "503"}
      BY <2>1, <2>4, LastLineRead DEF Told
    <3>2. \/ pc \in {"mail", "rcpt", "data"} /\ result' = FALSE
          \/ pc = "text" /\ (result' <=> Answer \in {"250", "550"})
      BY <1>1, <2>1, <2>3, <3>1, AnsweredStep DEF Session
    <3>3. pc = "text" => (Answer \in {"250", "550"} <=> Taken)
      BY <1>1, <2>1, <3>1 DEF Mails
    <3>4. pc # "text" => ~Taken
      BY <1>1, <2>1 DEF Mails, Session
    <3>5. CASE pc = "text"
      BY <3>2, <3>3, <3>5
    <3>6. CASE pc # "text"
      BY <3>2, <3>4, <3>6
    <3> QED
      BY <3>5, <3>6
  <2>5. CASE ReadNothing
    <3>1. toClient = <<>> /\ Answered(got)
      BY <2>5 DEF ReadNothing
    <3>2. Asked
      BY <1>1, <2>1, <3>1 DEF CleanInv, Told, Cut, Between
    <3>3. got = NoCode /\ NoCode \notin {"250", "550"}
      BY <3>2 DEF Asked, NoCode
    <3>4. result' = FALSE
      BY <1>1, <2>1, <2>3, <3>1, <3>3, AnsweredStep DEF Session
    <3> QED
      BY <1>1, <2>1, <3>2, <3>4 DEF Mails, Session
  <2> QED
    BY <2>2, <2>4, <2>5
<1>2. SessionInv /\ [MailNext]_mailVars =>
        [Clean /\ conn = "up" /\ pc \in {"mail", "rcpt", "data", "text"} /\ pc' = "idle" =>
           (result' <=> \E i \in DOMAIN accepted : accepted[i].send = sends)]_mailVars
  BY <1>1 DEF Session, Taken
<1> QED
  BY <1>2, SessionKept, PTL DEF MailSpec, SendTellsTheTruth

=============================================================================
