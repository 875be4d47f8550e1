---------------------------- MODULE TelnetProofs ----------------------------
(***************************************************************************)
(* Theorems about Telnet, for every stream of bytes, however it is cut.    *)
(***************************************************************************)
EXTENDS Telnet, SequenceTheorems, WellFoundedInduction, TLAPS

-----------------------------------------------------------------------------
(* Induction, over a set of numbers: a counterexample would have a least one *)

\* A set of numbers has a least one.
LEMMA LeastElement ==
    ASSUME NEW T, T \subseteq Nat, T # {}
    PROVE  \E x \in T : \A y \in T : ~ (y < x)
<1> DEFINE R == OpToRel(<, Nat)
<1>1. IsWellFoundedOn(R, Nat)
    BY NatLessThanWellFounded
<1>2. \E x \in T : \A y \in T : ~ (<< y, x >> \in R)
    <2> HIDE DEF R
    <2> QED BY <1>1, WFMin
<1> QED BY <1>2 DEF OpToRel

\* Induction, for the set of the numbers that have the property.
LEMMA SetInduction ==
    ASSUME NEW T, 0 \in T, \A n \in Nat : n \in T => n + 1 \in T
    PROVE  Nat \subseteq T
<1> SUFFICES ASSUME ~ (Nat \subseteq T) PROVE FALSE
    OBVIOUS
<1>1. PICK x \in Nat \ T : \A y \in Nat \ T : ~ (y < x)
    BY LeastElement
<1>2. x # 0 /\ x - 1 \in Nat
    OBVIOUS
<1>3. x - 1 \in T
    BY <1>1, <1>2
<1> QED BY <1>2, <1>3

-----------------------------------------------------------------------------
(* The recursive functions meet their equations *)

\* The bytes of the streams, those that no chunk has included, and what there
\* is in a stream.
Byte  == Bytes \union {Iac, Sb, Se, Will, Do} \union Refusals
Kinds == {"text", Will, Do}

\* SelectedUpTo is what its definition says: there is such a function.
LEMMA SelectEquation ==
    ASSUME NEW items, NEW kinds, Len(items) \in Nat
    PROVE  LET f == SelectedUpTo(items, kinds)
           IN  \A i \in 0 .. Len(items) :
                  f[i] = IF i = 0 THEN << >>
                         ELSE IF items[i][1] \in kinds
                         THEN Append(f[i - 1], items[i])
                         ELSE f[i - 1]
<1> DEFINE Body(f, i) == IF i = 0 THEN << >>
                         ELSE IF items[i][1] \in kinds
                         THEN Append(f[i - 1], items[i])
                         ELSE f[i - 1]
           Good(f, n) == \A i \in 0 .. n : f[i] = Body(f, i)
           T == {n \in Nat : \E f : Good(f, n)}
           dom == 0 .. Len(items)
<1>1. 0 \in T
    <2>1. Good([i \in Nat |-> << >>], 0)
        OBVIOUS
    <2> QED BY <2>1
<1>2. ASSUME NEW n \in Nat, n \in T PROVE n + 1 \in T
    <2>1. PICK f : Good(f, n)
        BY <1>2
    <2> DEFINE g == [i \in Nat |-> IF i = n + 1 THEN Body(f, i) ELSE f[i]]
    <2>2. Good(g, n + 1)
        BY <2>1
    <2> HIDE DEF Good
    <2>3. \E h : Good(h, n + 1)
        BY <2>2
    <2> QED BY <2>3
<1>3. Len(items) \in T
    <2> HIDE DEF T
    <2> QED BY <1>1, <1>2, SetInduction
<1>4. PICK f : Good(f, Len(items))
    BY <1>3
<1>5. [i \in dom |-> f[i]] = [i \in dom |-> Body([j \in dom |-> f[j]], i)]
    BY <1>4
<1> DEFINE F == SelectedUpTo(items, kinds)
<1>6. F = [i \in dom |-> Body(F, i)]
    <2> DEFINE g == [i \in dom |-> f[i]]
    <2>1. g = [i \in dom |-> Body(g, i)]
        BY <1>5
    <2>2. \E h : h = [i \in dom |-> Body(h, i)]
        <3> HIDE DEF g
        <3> QED BY <2>1
    <2>3. F = CHOOSE h : h = [i \in dom |-> Body(h, i)]
        BY DEF SelectedUpTo
    <2> HIDE DEF F, Body
    <2> QED BY <2>2, <2>3
<1> HIDE DEF F
<1>7. \A i \in 0 .. Len(items) : F[i] = Body(F, i)
    BY <1>6
<1> QED BY <1>7 DEF F

\* The first end of a subnegotiation, if there is one.
LEMMA BehindSubIs ==
    ASSUME NEW s \in Seq(Byte), NEW i \in Nat
    PROVE  /\ Ends(s, i) = {} => BehindSub(s, i) = Len(s) + 1
           /\ Ends(s, i) # {} =>
                 \E e \in Ends(s, i) :
                    BehindSub(s, i) = e + 2 /\ \A f \in Ends(s, i) : e <= f
<1>1. ASSUME Ends(s, i) # {}
      PROVE  \E e \in Ends(s, i) : \A f \in Ends(s, i) : e <= f
    <2>1. Ends(s, i) \subseteq Nat
        BY DEF Ends
    <2>2. PICK e \in Ends(s, i) : \A f \in Ends(s, i) : ~ (f < e)
        BY <1>1, <2>1, LeastElement
    <2> QED BY <2>1, <2>2
<1>2. ASSUME Ends(s, i) # {}
      PROVE  \E e \in Ends(s, i) :
                BehindSub(s, i) = e + 2 /\ \A f \in Ends(s, i) : e <= f
    <2> DEFINE first == CHOOSE e \in Ends(s, i) : \A f \in Ends(s, i) : e <= f
    <2>1. first \in Ends(s, i) /\ \A f \in Ends(s, i) : first <= f
        BY <1>1, <1>2
    <2>2. BehindSub(s, i) = 2 + first
        BY <1>2 DEF BehindSub
    <2>3. first \in Int
        BY <2>1 DEF Ends
    <2> HIDE DEF first
    <2>4. 2 + first = first + 2
        BY <2>3
    <2> QED BY <2>1, <2>2, <2>4
<1> QED BY <1>2 DEF BehindSub

\* An item has at least one byte.
LEMMA BehindForward ==
    ASSUME NEW s \in Seq(Byte), NEW i \in 1 .. Len(s)
    PROVE  Behind(s, i) \in Nat /\ Behind(s, i) > i
<1> DEFINE k == i + 3
<1>0. k \in Nat /\ k > i /\ Len(s) \in Nat
    OBVIOUS
<1> HIDE DEF k
<1>1. BehindSub(s, k) \in Nat /\ BehindSub(s, k) > i
    <2>1. CASE Ends(s, k) = {}
        <3>1. BehindSub(s, k) = Len(s) + 1
            BY <1>0, <2>1, BehindSubIs
        <3> QED BY <1>0, <3>1
    <2>2. CASE Ends(s, k) # {}
        <3>1. PICK e \in Ends(s, k) : BehindSub(s, k) = e + 2
            BY <1>0, <2>2, BehindSubIs
        <3>2. e \in k .. Len(s) - 1
            BY DEF Ends
        <3> QED BY <1>0, <3>1, <3>2
    <2> QED BY <2>1, <2>2
<1> QED BY <1>1 DEF Behind, k

\* So is ItemsFrom, whose argument grows up to the end of s.
LEMMA ItemsEquation ==
    ASSUME NEW s \in Seq(Byte), NEW kind
    PROVE  LET f == ItemsFrom(s, kind)
           IN  \A i \in Nat \ {0} :
                  f[i] = IF i > Len(s) THEN << >>
                         ELSE ItemAt(s, i, kind) \o f[Behind(s, i)]
<1> DEFINE Body(f, i) == IF i > Len(s) THEN << >>
                         ELSE ItemAt(s, i, kind) \o f[Behind(s, i)]
           dom == Nat \ {0}
           Good(f, n) == \A i \in dom : i + n > Len(s) => f[i] = Body(f, i)
           T == {n \in Nat : \E f : Good(f, n)}
<1>1. 0 \in T
    <2>1. Good([i \in dom |-> << >>], 0)
        OBVIOUS
    <2> HIDE DEF Good
    <2>2. \E f : Good(f, 0)
        BY <2>1
    <2> QED BY <2>2
<1>2. ASSUME NEW n \in Nat, n \in T PROVE n + 1 \in T
    <2>1. PICK f : Good(f, n)
        BY <1>2
    <2> DEFINE g == [i \in dom |-> IF i + n > Len(s) THEN f[i] ELSE Body(f, i)]
    <2>2. Good(g, n + 1)
        <3> SUFFICES ASSUME NEW i \in dom, i + (n + 1) > Len(s)
                     PROVE  g[i] = Body(g, i)
            OBVIOUS
        <3>1. CASE i > Len(s)
            BY <2>1, <3>1
        <3>2. CASE i <= Len(s)
            <4>1. Behind(s, i) \in dom /\ Behind(s, i) + n > Len(s)
                BY <3>2, BehindForward
            <4>2. g[Behind(s, i)] = f[Behind(s, i)]
                BY <4>1
            <4>3. g[i] = Body(f, i)
                BY <2>1
            <4> QED BY <3>2, <4>2, <4>3
        <3> QED BY <3>1, <3>2
    <2> HIDE DEF Good
    <2>3. \E h : Good(h, n + 1)
        BY <2>2
    <2> QED BY <2>3
<1>3. Len(s) \in T
    <2> HIDE DEF T
    <2> QED BY <1>1, <1>2, SetInduction
<1>4. PICK f : Good(f, Len(s))
    BY <1>3
<1> DEFINE F == ItemsFrom(s, kind)
<1>5. F = [i \in dom |-> Body(F, i)]
    <2> DEFINE g == [i \in dom |-> f[i]]
    <2>1. ASSUME NEW i \in dom PROVE g[i] = Body(g, i)
        <3>1. f[i] = Body(f, i)
            BY <1>4
        <3>2. i <= Len(s) => Behind(s, i) \in dom
            BY BehindForward
        <3> QED BY <3>1, <3>2
    <2>2. g = [i \in dom |-> Body(g, i)]
        <3> HIDE DEF Body
        <3> QED BY <2>1
    <2>3. \E h : h = [i \in dom |-> Body(h, i)]
        <3> HIDE DEF g
        <3> QED BY <2>2
    <2>4. F = CHOOSE h : h = [i \in dom |-> Body(h, i)]
        BY DEF ItemsFrom
    <2> HIDE DEF F, Body
    <2> QED BY <2>3, <2>4
<1> HIDE DEF F
<1>6. \A i \in dom : F[i] = Body(F, i)
    BY <1>5
<1> QED BY <1>6 DEF F

-----------------------------------------------------------------------------
(* What is meant does not depend on what is in front *)

\* A run of IACs is one whatever is in front of it.
LEMMA RunShift ==
    ASSUME NEW u \in Seq(Byte), NEW t \in Seq(Byte),
           NEW i \in Nat \ {0}, NEW e \in i .. Len(t), NEW a \in i .. e
    PROVE  Run(u \o t, Len(u) + i, Len(u) + a, Len(u) + e) <=> Run(t, i, a, e)
<1>1. \A k \in 1 .. Len(t) : (u \o t)[Len(u) + k] = t[k]
    OBVIOUS
<1>2. ASSUME \A k \in Len(u) + a .. Len(u) + e : (u \o t)[k] = Iac, NEW k \in a .. e
      PROVE  t[k] = Iac
    <2>1. Len(u) + k \in Len(u) + a .. Len(u) + e /\ k \in 1 .. Len(t)
        OBVIOUS
    <2> QED BY <1>1, <1>2, <2>1
<1>3. ASSUME \A k \in a .. e : t[k] = Iac, NEW k \in Len(u) + a .. Len(u) + e
      PROVE  (u \o t)[k] = Iac
    <2>1. k - Len(u) \in a .. e /\ k - Len(u) \in 1 .. Len(t)
        OBVIOUS
    <2>2. k = Len(u) + (k - Len(u))
        OBVIOUS
    <2> QED BY <1>1, <1>3, <2>1, <2>2
<1>4. a # i => (u \o t)[Len(u) + a - 1] = t[a - 1]
    <2>1. a # i => a - 1 \in 1 .. Len(t)
        OBVIOUS
    <2>2. Len(u) + a - 1 = Len(u) + (a - 1)
        OBVIOUS
    <2> QED BY <1>1, <2>1, <2>2
<1>5. Len(u) + a = Len(u) + i <=> a = i
    OBVIOUS
<1> QED BY <1>2, <1>3, <1>4, <1>5 DEF Run

\* So is one of odd length ...
LEMMA OddRunShift ==
    ASSUME NEW u \in Seq(Byte), NEW t \in Seq(Byte),
           NEW i \in Nat \ {0}, NEW e \in i .. Len(t)
    PROVE  OddRun(u \o t, Len(u) + i, Len(u) + e) <=> OddRun(t, i, e)
<1>1. ASSUME NEW n \in Nat, e - 2 * n >= i
      PROVE  Run(u \o t, Len(u) + i, Len(u) + e - 2 * n, Len(u) + e)
                <=> Run(t, i, e - 2 * n, e)
    <2>1. e - 2 * n \in i .. e /\ Len(u) + e - 2 * n = Len(u) + (e - 2 * n)
        BY <1>1
    <2> QED BY <2>1, RunShift
<1>2. ASSUME OddRun(t, i, e) PROVE OddRun(u \o t, Len(u) + i, Len(u) + e)
    <2>1. PICK n \in 0 .. Len(t) : e - 2 * n >= i /\ Run(t, i, e - 2 * n, e)
        BY <1>2 DEF OddRun
    <2>2. n \in 0 .. Len(u \o t) /\ Len(u) + e - 2 * n >= Len(u) + i
        BY <2>1
    <2>3. Run(u \o t, Len(u) + i, Len(u) + e - 2 * n, Len(u) + e)
        BY <1>1, <2>1
    <2> QED BY <2>2, <2>3 DEF OddRun
<1>3. ASSUME OddRun(u \o t, Len(u) + i, Len(u) + e) PROVE OddRun(t, i, e)
    <2>1. PICK n \in 0 .. Len(u \o t) :
              /\ Len(u) + e - 2 * n >= Len(u) + i
              /\ Run(u \o t, Len(u) + i, Len(u) + e - 2 * n, Len(u) + e)
        BY <1>3 DEF OddRun
    <2>2. n \in 0 .. Len(t) /\ e - 2 * n >= i
        BY <2>1
    <2>3. Run(t, i, e - 2 * n, e)
        BY <1>1, <2>1, <2>2
    <2> QED BY <2>2, <2>3 DEF OddRun
<1> QED BY <1>2, <1>3

\* ... and the ends of a subnegotiation, ...
LEMMA EndsShift ==
    ASSUME NEW u \in Seq(Byte), NEW t \in Seq(Byte), NEW i \in Nat \ {0}
    PROVE  /\ \A e \in Ends(t, i) : Len(u) + e \in Ends(u \o t, Len(u) + i)
           /\ \A e \in Ends(u \o t, Len(u) + i) : e - Len(u) \in Ends(t, i)
<1>1. \A k \in 1 .. Len(t) : (u \o t)[Len(u) + k] = t[k]
    OBVIOUS
<1>2. ASSUME NEW e \in i .. Len(t) - 1
      PROVE  Len(u) + e \in Ends(u \o t, Len(u) + i) <=> e \in Ends(t, i)
    <2>1. (u \o t)[Len(u) + e + 1] = t[e + 1]
        <3>1. Len(u) + e + 1 = Len(u) + (e + 1) /\ e + 1 \in 1 .. Len(t)
            OBVIOUS
        <3> QED BY <1>1, <3>1
    <2>2. OddRun(u \o t, Len(u) + i, Len(u) + e) <=> OddRun(t, i, e)
        BY OddRunShift
    <2>3. Len(u) + e \in Len(u) + i .. Len(u \o t) - 1
        OBVIOUS
    <2> QED BY <2>1, <2>2, <2>3 DEF Ends
<1>3. ASSUME NEW e \in Ends(t, i) PROVE e \in i .. Len(t) - 1
    BY DEF Ends
<1>4. ASSUME NEW e \in Ends(u \o t, Len(u) + i)
      PROVE  e - Len(u) \in i .. Len(t) - 1 /\ e = Len(u) + (e - Len(u))
    BY DEF Ends
<1> QED BY <1>2, <1>3, <1>4

\* ... and the first of them, ...
LEMMA BehindSubShift ==
    ASSUME NEW u \in Seq(Byte), NEW t \in Seq(Byte), NEW i \in Nat \ {0}
    PROVE  BehindSub(u \o t, Len(u) + i) = Len(u) + BehindSub(t, i)
<1> DEFINE j == Len(u) + i
<1>0. j \in Nat /\ u \o t \in Seq(Byte) /\ Len(u \o t) = Len(u) + Len(t)
    OBVIOUS
<1>1. CASE Ends(t, i) = {}
    <2>1. Ends(u \o t, j) = {}
        BY <1>1, EndsShift
    <2>2. BehindSub(u \o t, j) = Len(u \o t) + 1 /\ BehindSub(t, i) = Len(t) + 1
        BY <1>0, <1>1, <2>1, BehindSubIs
    <2> QED BY <1>0, <2>2
<1>2. CASE Ends(t, i) # {}
    <2>1. PICK e \in Ends(t, i) : BehindSub(t, i) = e + 2 /\ \A f \in Ends(t, i) : e <= f
        BY <1>2, BehindSubIs
    <2>2. Ends(u \o t, j) # {}
        BY <1>2, EndsShift
    <2>3. PICK d \in Ends(u \o t, j) :
              BehindSub(u \o t, j) = d + 2 /\ \A f \in Ends(u \o t, j) : d <= f
        BY <1>0, <2>2, BehindSubIs
    <2>4. d <= Len(u) + e /\ e <= d - Len(u)
        BY <2>1, <2>3, EndsShift
    <2>5. d \in Int /\ e \in Int
        BY <1>0, <2>1, <2>3 DEF Ends
    <2> QED BY <2>1, <2>3, <2>4, <2>5
<1> QED BY <1>1, <1>2

\* ... so that an item is the same, ...
LEMMA ItemShift ==
    ASSUME NEW u \in Seq(Byte), NEW t \in Seq(Byte), NEW i \in 1 .. Len(t), NEW kind
    PROVE  /\ Behind(u \o t, Len(u) + i) = Len(u) + Behind(t, i)
           /\ ItemAt(u \o t, Len(u) + i, kind) = ItemAt(t, i, kind)
<1> DEFINE v == u \o t
           j == Len(u) + i
<1>1. v[j] = t[i] /\ (j = Len(v) <=> i = Len(t))
    OBVIOUS
<1>2. i < Len(t) => v[j + 1] = t[i + 1] /\ j < Len(v)
    OBVIOUS
<1>3. i + 1 < Len(t) => v[j + 2] = t[i + 2] /\ j + 1 < Len(v)
    OBVIOUS
<1>4. BehindSub(v, j + 3) = Len(u) + BehindSub(t, i + 3)
    <2>1. j + 3 = Len(u) + (i + 3)
        OBVIOUS
    <2> QED BY <2>1, BehindSubShift
<1>5. (i < Len(t) <=> j < Len(v)) /\ (i + 1 < Len(t) <=> j + 1 < Len(v))
    OBVIOUS
<1>6. Len(u) \in Nat /\ Len(t) \in Nat /\ j \in Nat /\ (i = Len(t) \/ i < Len(t))
    OBVIOUS
<1> HIDE DEF v, j
<1>7. ItemAt(v, j, kind) = ItemAt(t, i, kind)
    BY <1>1, <1>2, <1>3, <1>5 DEF ItemAt
<1>8. Behind(v, j) = Len(u) + Behind(t, i)
    BY <1>1, <1>2, <1>4, <1>6 DEF Behind, j
<1> QED BY <1>7, <1>8 DEF v, j

\* ... and all that come behind u.
LEMMA ItemsShift ==
    ASSUME NEW u \in Seq(Byte), NEW t \in Seq(Byte), NEW kind
    PROVE  ItemsFrom(u \o t, kind)[Len(u) + 1] = Items(t, kind)
<1> DEFINE v == u \o t
           F == ItemsFrom(v, kind)
           G == ItemsFrom(t, kind)
           T == {n \in Nat : \A i \in Nat \ {0} : i + n > Len(t) => F[Len(u) + i] = G[i]}
<1>1. \A i \in Nat \ {0} : G[i] = IF i > Len(t) THEN << >>
                                  ELSE ItemAt(t, i, kind) \o G[Behind(t, i)]
    BY ItemsEquation
<1>2. \A i \in Nat \ {0} : F[i] = IF i > Len(v) THEN << >>
                                  ELSE ItemAt(v, i, kind) \o F[Behind(v, i)]
    <2>1. v \in Seq(Byte)
        OBVIOUS
    <2> HIDE DEF v
    <2> QED BY <2>1, ItemsEquation
<1>3. \A i \in Nat \ {0} : Len(u) + i \in Nat \ {0} /\ (Len(u) + i > Len(v) <=> i > Len(t))
    OBVIOUS
<1> HIDE DEF F, G
<1>4. 0 \in T
    BY <1>1, <1>2, <1>3
<1>5. ASSUME NEW n \in Nat, n \in T PROVE n + 1 \in T
    <2> SUFFICES ASSUME NEW i \in Nat \ {0}, i + (n + 1) > Len(t)
                 PROVE  F[Len(u) + i] = G[i]
        OBVIOUS
    <2>1. CASE i > Len(t)
        BY <1>1, <1>2, <1>3, <2>1
    <2>2. CASE i <= Len(t)
        <3>0. /\ ~ (i > Len(t)) /\ ~ (Len(u) + i > Len(v))
              /\ Len(u) + i \in Nat \ {0}
            BY <1>3, <2>2
        <3>1. Behind(t, i) \in Nat \ {0} /\ Behind(t, i) + n > Len(t)
            BY <2>2, BehindForward
        <3>2. F[Len(u) + Behind(t, i)] = G[Behind(t, i)]
            BY <1>5, <3>1
        <3>3. /\ Behind(v, Len(u) + i) = Len(u) + Behind(t, i)
              /\ ItemAt(v, Len(u) + i, kind) = ItemAt(t, i, kind)
            BY <2>2, ItemShift
        <3>4. F[Len(u) + i] = ItemAt(v, Len(u) + i, kind) \o F[Behind(v, Len(u) + i)]
            BY <1>2, <3>0, Zenon
        <3>5. G[i] = ItemAt(t, i, kind) \o G[Behind(t, i)]
            BY <1>1, <3>0, Zenon
        <3> QED BY <3>2, <3>3, <3>4, <3>5
    <2> QED BY <2>1, <2>2
<1>6. Len(t) \in T
    <2> HIDE DEF T
    <2> QED BY <1>4, <1>5, SetInduction
<1>7. F[Len(u) + 1] = G[1]
    BY <1>6
<1> QED BY <1>7 DEF F, G, Items

-----------------------------------------------------------------------------
(* Streams that end where an item ends *)

\* Whatever follows, the items of s are there, and those of what follows.
Whole(s) == \A t \in Seq(Byte), kind \in Kinds :
               Items(s \o t, kind) = Items(s, kind) \o Items(t, kind)

\* The items are the first one and those behind it.
LEMMA ItemsFirst ==
    ASSUME NEW s \in Seq(Byte), s # << >>, NEW kind
    PROVE  Items(s, kind) = ItemAt(s, 1, kind) \o ItemsFrom(s, kind)[Behind(s, 1)]
<1>1. ~ (1 > Len(s)) /\ 1 \in Nat \ {0}
    OBVIOUS
<1>2. \A i \in Nat \ {0} : ItemsFrom(s, kind)[i] =
              IF i > Len(s) THEN << >>
              ELSE ItemAt(s, i, kind) \o ItemsFrom(s, kind)[Behind(s, i)]
    BY ItemsEquation
<1> QED BY <1>1, <1>2, Zenon DEF Items

\* There is none behind the end ...
LEMMA ItemsNothing ==
    ASSUME NEW kind, NEW s \in Seq(Byte), NEW i \in Nat \ {0}, i > Len(s)
    PROVE  ItemsFrom(s, kind)[i] = << >>
BY ItemsEquation

\* An item is made of bytes.
LEMMA ItemAtType ==
    ASSUME NEW s \in Seq(Byte), NEW i \in 1 .. Len(s), NEW kind
    PROVE  ItemAt(s, i, kind) \in Seq(Byte)
<1>1. s[i] \in Byte /\ Iac \in Byte
    BY DEF Byte
<1>2. i + 1 < Len(s) => s[i + 2] \in Byte
    OBVIOUS
<1>3. \A x \in Byte : << x >> \in Seq(Byte)
    OBVIOUS
<1>4. << >> \in Seq(Byte)
    OBVIOUS
<1> QED BY <1>1, <1>2, <1>3, <1>4 DEF ItemAt

\* ... nor in an empty stream.
LEMMA ItemsOfNothing ==
    ASSUME NEW kind
    PROVE  Items(<< >>, kind) = << >>
<1>1. << >> \in Seq(Byte) /\ 1 > Len(<< >>) /\ 1 \in Nat \ {0}
    OBVIOUS
<1> QED BY <1>1, ItemsNothing DEF Items

\* A single item, all of whose bytes are there.
LEMMA WholeItem ==
    ASSUME NEW u \in Seq(Byte), u # << >>,
           \A t \in Seq(Byte) :
              /\ Behind(u \o t, 1) = Len(u) + 1
              /\ \A kind \in Kinds : ItemAt(u \o t, 1, kind) = ItemAt(u, 1, kind)
    PROVE  Whole(u) /\ \A kind \in Kinds : Items(u, kind) = ItemAt(u, 1, kind)
<1>1. ASSUME NEW kind \in Kinds, NEW t \in Seq(Byte)
      PROVE  Items(u \o t, kind) = ItemAt(u, 1, kind) \o Items(t, kind)
    <2>1. u \o t \in Seq(Byte) /\ u \o t # << >>
        OBVIOUS
    <2>2. Items(u \o t, kind) =
              ItemAt(u \o t, 1, kind) \o ItemsFrom(u \o t, kind)[Behind(u \o t, 1)]
        BY <2>1, ItemsFirst
    <2>3. ItemsFrom(u \o t, kind)[Len(u) + 1] = Items(t, kind)
        BY ItemsShift
    <2> QED BY <2>2, <2>3
<1>2. << >> \in Seq(Byte) /\ u \o << >> = u /\ 1 \in 1 .. Len(u)
    OBVIOUS
<1>3. ASSUME NEW kind \in Kinds PROVE Items(u, kind) = ItemAt(u, 1, kind)
    <2>1. Items(u, kind) = ItemAt(u, 1, kind) \o << >>
        BY <1>1, <1>2, ItemsOfNothing
    <2>2. ItemAt(u, 1, kind) \in Seq(Byte)
        BY <1>2, ItemAtType
    <2> QED BY <2>1, <2>2
<1> QED BY <1>1, <1>3 DEF Whole

\* Items are made of bytes.
LEMMA ItemsType ==
    ASSUME NEW s \in Seq(Byte), NEW kind
    PROVE  Items(s, kind) \in Seq(Byte)
<1> DEFINE F == ItemsFrom(s, kind)
           T == {n \in Nat : \A i \in Nat \ {0} : i + n > Len(s) => F[i] \in Seq(Byte)}
<1>1. \A i \in Nat \ {0} : F[i] = IF i > Len(s) THEN << >>
                                  ELSE ItemAt(s, i, kind) \o F[Behind(s, i)]
    BY ItemsEquation
<1> HIDE DEF F
<1>2. 0 \in T
    <2> SUFFICES ASSUME NEW i \in Nat \ {0}, i + 0 > Len(s) PROVE F[i] \in Seq(Byte)
        OBVIOUS
    <2>1. F[i] = << >>
        BY <1>1
    <2> QED BY <2>1
<1>3. ASSUME NEW n \in Nat, n \in T PROVE n + 1 \in T
    <2> SUFFICES ASSUME NEW i \in Nat \ {0}, i + (n + 1) > Len(s)
                 PROVE  F[i] \in Seq(Byte)
        OBVIOUS
    <2>1. CASE i > Len(s)
        <3>1. F[i] = << >>
            BY <1>1, <2>1
        <3> QED BY <3>1
    <2>2. CASE ~ (i > Len(s))
        <3>1. F[i] = ItemAt(s, i, kind) \o F[Behind(s, i)]
            BY <1>1, <2>2, Zenon
        <3>2. i \in 1 .. Len(s)
            BY <2>2
        <3>3. Behind(s, i) \in Nat \ {0} /\ Behind(s, i) + n > Len(s)
            BY <3>2, BehindForward
        <3>4. F[Behind(s, i)] \in Seq(Byte) /\ ItemAt(s, i, kind) \in Seq(Byte)
            BY <1>3, <3>2, <3>3, ItemAtType
        <3> QED BY <3>1, <3>4
    <2> QED BY <2>1, <2>2
<1>4. Len(s) \in T
    <2> HIDE DEF T
    <2> QED BY <1>2, <1>3, SetInduction
<1>5. F[1] \in Seq(Byte)
    BY <1>4
<1> QED BY <1>5 DEF F, Items

\* An empty stream ends where an item does.
LEMMA WholeNothing == Whole(<< >>)
<1> SUFFICES ASSUME NEW t \in Seq(Byte), NEW kind \in Kinds
             PROVE  Items(<< >> \o t, kind) = Items(<< >>, kind) \o Items(t, kind)
    BY DEF Whole
<1>1. << >> \o t = t
    OBVIOUS
<1>2. Items(t, kind) \in Seq(Byte)
    BY ItemsType
<1> QED BY <1>1, <1>2, ItemsOfNothing

\* Two streams that do, one behind the other, do so.
LEMMA WholeConcat ==
    ASSUME NEW c \in Seq(Byte), NEW u \in Seq(Byte), Whole(c), Whole(u)
    PROVE  /\ Whole(c \o u)
           /\ \A kind \in Kinds : Items(c \o u, kind) = Items(c, kind) \o Items(u, kind)
<1>1. \A kind \in Kinds : Items(c \o u, kind) = Items(c, kind) \o Items(u, kind)
    BY DEF Whole
<1>2. ASSUME NEW t \in Seq(Byte), NEW kind \in Kinds
      PROVE  Items((c \o u) \o t, kind) = Items(c \o u, kind) \o Items(t, kind)
    <2>1. (c \o u) \o t = c \o (u \o t) /\ u \o t \in Seq(Byte)
        OBVIOUS
    <2>2. Items(c \o (u \o t), kind) = Items(c, kind) \o Items(u \o t, kind)
        BY <2>1 DEF Whole
    <2>3. Items(u \o t, kind) = Items(u, kind) \o Items(t, kind)
        BY DEF Whole
    <2>4. /\ Items(c, kind) \in Seq(Byte) /\ Items(u, kind) \in Seq(Byte)
          /\ Items(t, kind) \in Seq(Byte)
        BY ItemsType
    <2>5. Items(c, kind) \o (Items(u, kind) \o Items(t, kind))
             = (Items(c, kind) \o Items(u, kind)) \o Items(t, kind)
        <3> DEFINE x == Items(c, kind)
                   y == Items(u, kind)
                   z == Items(t, kind)
        <3>1. x \in Seq(Byte) /\ y \in Seq(Byte) /\ z \in Seq(Byte)
            BY <2>4
        <3> HIDE DEF x, y, z
        <3>2. x \o (y \o z) = (x \o y) \o z
            BY <3>1
        <3> QED BY <3>2 DEF x, y, z
    <2>6. Items(c \o u, kind) = Items(c, kind) \o Items(u, kind)
        BY <1>1
    <2> QED BY <2>1, <2>2, <2>3, <2>5, <2>6, Zenon
<1> QED BY <1>1, <1>2 DEF Whole

-----------------------------------------------------------------------------
(* The items that Read tells apart *)

USE DEF Iac, Sb, Se, Will, Do, Refusals

\* A byte of the text.
LEMMA WholeText ==
    ASSUME NEW b \in Byte, b # Iac
    PROVE  /\ Whole(<< b >>)
           /\ \A kind \in Kinds :
                 Items(<< b >>, kind) = IF kind = "text" THEN << b >> ELSE << >>
<1> DEFINE u == << b >>
<1>1. u \in Seq(Byte) /\ u # << >> /\ Len(u) = 1 /\ u[1] = b
    OBVIOUS
<1>2. ASSUME NEW t \in Seq(Byte) PROVE (u \o t)[1] = b
    OBVIOUS
<1> HIDE DEF u
<1>3. ASSUME NEW t \in Seq(Byte)
      PROVE  /\ Behind(u \o t, 1) = Len(u) + 1
             /\ \A kind \in Kinds : ItemAt(u \o t, 1, kind) = ItemAt(u, 1, kind)
    BY <1>1, <1>2 DEF Behind, ItemAt
<1>4. Whole(u) /\ \A kind \in Kinds : Items(u, kind) = ItemAt(u, 1, kind)
    BY <1>1, <1>3, WholeItem
<1>5. \A kind : ItemAt(u, 1, kind) = IF kind = "text" THEN << b >> ELSE << >>
    BY <1>1 DEF ItemAt
<1> QED BY <1>4, <1>5 DEF u

\* IAC and a byte that asks for no other: an IAC of the text, or nothing.
LEMMA WholeCode ==
    ASSUME NEW b \in Byte, b \notin {Sb, Will, Do} \union Refusals
    PROVE  /\ Whole(<< Iac, b >>)
           /\ \A kind \in Kinds :
                 Items(<< Iac, b >>, kind) =
                    IF kind = "text" /\ b = Iac THEN << b >> ELSE << >>
<1> DEFINE u == << Iac, b >>
<1>0. Iac \in Byte
    BY DEF Byte
<1>1. u \in Seq(Byte) /\ u # << >> /\ Len(u) = 2 /\ u[1] = Iac /\ u[2] = b
    BY <1>0
<1>2. ASSUME NEW t \in Seq(Byte)
      PROVE  (u \o t)[1] = Iac /\ (u \o t)[2] = b /\ Len(u \o t) \in Nat /\ Len(u \o t) >= 2
    BY <1>0
<1> HIDE DEF u
<1>3. ASSUME NEW t \in Seq(Byte)
      PROVE  /\ Behind(u \o t, 1) = Len(u) + 1
             /\ \A kind \in Kinds : ItemAt(u \o t, 1, kind) = ItemAt(u, 1, kind)
    BY <1>1, <1>2 DEF Behind, ItemAt
<1>4. Whole(u) /\ \A kind \in Kinds : Items(u, kind) = ItemAt(u, 1, kind)
    BY <1>1, <1>3, WholeItem
<1>5. \A kind : ItemAt(u, 1, kind) = IF kind = "text" /\ b = Iac THEN << b >> ELSE << >>
    BY <1>1 DEF ItemAt
<1> QED BY <1>4, <1>5 DEF u

\* IAC, one of the four verbs and an option: a request, or nothing.
LEMMA WholeOption ==
    ASSUME NEW b \in Byte, NEW x \in Byte, x \in {Will, Do} \union Refusals
    PROVE  /\ Whole(<< Iac, x, b >>)
           /\ \A kind \in Kinds :
                 Items(<< Iac, x, b >>, kind) =
                    IF kind = x /\ x \in {Will, Do} THEN << b >> ELSE << >>
<1> DEFINE u == << Iac, x, b >>
<1>0. Iac \in Byte
    BY DEF Byte
<1>1. u \in Seq(Byte) /\ u # << >> /\ Len(u) = 3 /\ u[1] = Iac /\ u[2] = x /\ u[3] = b
    BY <1>0
<1>2. ASSUME NEW t \in Seq(Byte)
      PROVE  /\ (u \o t)[1] = Iac /\ (u \o t)[2] = x /\ (u \o t)[3] = b
             /\ Len(u \o t) \in Nat /\ Len(u \o t) >= 3
    BY <1>0
<1> HIDE DEF u
<1>3. ASSUME NEW t \in Seq(Byte)
      PROVE  /\ Behind(u \o t, 1) = Len(u) + 1
             /\ \A kind \in Kinds : ItemAt(u \o t, 1, kind) = ItemAt(u, 1, kind)
    BY <1>1, <1>2 DEF Behind, ItemAt
<1>4. Whole(u) /\ \A kind \in Kinds : Items(u, kind) = ItemAt(u, 1, kind)
    BY <1>1, <1>3, WholeItem
<1>5. \A kind : ItemAt(u, 1, kind) = IF kind = x /\ x \in {Will, Do} THEN << b >> ELSE << >>
    BY <1>1 DEF ItemAt
<1> QED BY <1>4, <1>5 DEF u

-----------------------------------------------------------------------------
(* A subnegotiation, byte by byte *)

\* Whether IACs are odd in number depends on nothing behind them.
LEMMA OddRunPrefix ==
    ASSUME NEW s \in Seq(Byte), NEW t \in Seq(Byte), NEW i \in Nat \ {0},
           NEW e \in i .. Len(s)
    PROVE  OddRun(s \o t, i, e) <=> OddRun(s, i, e)
<1>1. \A k \in 1 .. Len(s) : (s \o t)[k] = s[k]
    OBVIOUS
<1>2. ASSUME NEW a \in i .. e PROVE Run(s \o t, i, a, e) <=> Run(s, i, a, e)
    <2>1. \A k \in a .. e : (s \o t)[k] = s[k]
        BY <1>1
    <2>2. a # i => (s \o t)[a - 1] = s[a - 1]
        <3>1. a # i => a - 1 \in 1 .. Len(s)
            OBVIOUS
        <3> QED BY <1>1, <3>1
    <2> QED BY <2>1, <2>2 DEF Run
<1>3. Len(s \o t) \in Nat /\ Len(s) \in Nat /\ Len(s) <= Len(s \o t)
    OBVIOUS
<1>4. ASSUME NEW n \in Nat, e - 2 * n >= i
      PROVE  n \in 0 .. Len(s) /\ n \in 0 .. Len(s \o t) /\ e - 2 * n \in i .. e
    BY <1>3, <1>4
<1> QED BY <1>2, <1>3, <1>4 DEF OddRun

\* One more IAC makes an odd number even, and an even one odd.
LEMMA OddRunNext ==
    ASSUME NEW s \in Seq(Byte), NEW i \in Nat \ {0}, i <= Len(s)
    PROVE  OddRun(s, i, Len(s)) <=>
              s[Len(s)] = Iac /\ ~ (i < Len(s) /\ OddRun(s, i, Len(s) - 1))
<1> DEFINE e == Len(s)
           Starts == {a \in i .. e : \A k \in a .. e : s[k] = Iac}
<1>0. e \in Nat /\ i <= e
    OBVIOUS
<1>1. ASSUME s[e] # Iac PROVE ~ OddRun(s, i, e)
    <2>1. ASSUME NEW n \in 0 .. e, Run(s, i, e - 2 * n, e) PROVE FALSE
        <3>1. e \in e - 2 * n .. e
            BY <1>0
        <3> QED BY <1>1, <2>1, <3>1 DEF Run
    <2> QED BY <2>1 DEF OddRun
<1>2. ASSUME OddRun(s, i, e), i < e, OddRun(s, i, e - 1) PROVE FALSE
    <2>1. PICK n \in 0 .. e : e - 2 * n >= i /\ Run(s, i, e - 2 * n, e)
        BY <1>2 DEF OddRun
    <2>2. PICK m \in 0 .. e : e - 1 - 2 * m >= i /\ Run(s, i, e - 1 - 2 * m, e - 1)
        BY <1>2 DEF OddRun
    <2>3. CASE e - 2 * n < e - 1 - 2 * m
        <3>1. e - 1 - 2 * m - 1 \in e - 2 * n .. e /\ e - 1 - 2 * m # i
            BY <1>0, <2>1, <2>2, <2>3
        <3> QED BY <2>1, <2>2, <3>1 DEF Run
    <2>4. CASE e - 1 - 2 * m < e - 2 * n
        <3>1. e - 2 * n # i
            BY <1>0, <2>1, <2>2, <2>4
        <3>2. CASE n = 0
            <4>1. e - 1 \in e - 1 - 2 * m .. e - 1 /\ e - 2 * n - 1 = e - 1
                BY <1>0, <2>2, <3>2
            <4> QED BY <2>1, <2>2, <3>1, <4>1 DEF Run
        <3>3. CASE n # 0
            <4>1. e - 2 * n - 1 \in e - 1 - 2 * m .. e - 1
                BY <1>0, <2>1, <2>2, <2>4, <3>3
            <4> QED BY <2>1, <2>2, <3>1, <4>1 DEF Run
        <3> QED BY <3>2, <3>3
    <2>5. e - 2 * n # e - 1 - 2 * m
        BY <1>0
    <2> QED BY <1>0, <2>3, <2>4, <2>5
<1>3. ASSUME s[e] = Iac, ~ (i < e /\ OddRun(s, i, e - 1)) PROVE OddRun(s, i, e)
    <2>1. Starts # {} /\ Starts \subseteq Nat
        <3>1. e \in Starts
            BY <1>0, <1>3
        <3> QED BY <3>1
    <2> HIDE DEF Starts
    <2>2. PICK a \in Starts : \A c \in Starts : ~ (c < a)
        BY <2>1, LeastElement
    <2>3. a \in i .. e /\ \A k \in a .. e : s[k] = Iac
        BY <2>2 DEF Starts
    <2>4. a = i \/ s[a - 1] # Iac
        <3> SUFFICES ASSUME a # i, s[a - 1] = Iac PROVE FALSE
            OBVIOUS
        <3>1. a - 1 \in Starts
            BY <1>0, <2>3 DEF Starts
        <3> QED BY <2>2, <2>3, <3>1
    <2>5. Run(s, i, a, e)
        BY <2>3, <2>4 DEF Run
    <2>6. CASE (e - a) % 2 = 0
        <3> DEFINE n == (e - a) \div 2
        <3>1. n \in 0 .. e /\ e - 2 * n = a
            BY <1>0, <2>3, <2>6
        <3> HIDE DEF n
        <3>2. e - 2 * n >= i /\ Run(s, i, e - 2 * n, e)
            BY <2>3, <2>5, <3>1
        <3> QED BY <3>1, <3>2 DEF OddRun
    <2>7. CASE (e - a) % 2 # 0
        <3> DEFINE n == (e - a - 1) \div 2
        <3>1. n \in 0 .. e /\ e - 1 - 2 * n = a /\ i < e
            BY <1>0, <2>3, <2>7
        <3> HIDE DEF n
        <3>2. Run(s, i, a, e - 1)
            BY <1>0, <2>3, <2>4, <3>1 DEF Run
        <3>3. OddRun(s, i, e - 1)
            <4>1. e - 1 - 2 * n >= i /\ Run(s, i, e - 1 - 2 * n, e - 1)
                BY <2>3, <3>1, <3>2
            <4> QED BY <3>1, <4>1 DEF OddRun
        <3> QED BY <1>3, <3>1, <3>3
    <2> QED BY <2>6, <2>7
<1> QED BY <1>1, <1>2, <1>3, <1>0

\* The bytes of an item that is not complete, by what Read expects.
InSub(u) ==
    Len(u) >= 3 /\ u[1] = Iac /\ u[2] = Sb /\ Ends(u, 4) = {}

Partial(m, u) ==
    \/ m = "data"    /\ u = << >>
    \/ m = "iac"     /\ u = << Iac >>
    \/ m = "will"    /\ u = << Iac, Will >>
    \/ m = "do"      /\ u = << Iac, Do >>
    \/ m = "refusal" /\ \E x \in Refusals : u = << Iac, x >>
    \/ m = "sb"      /\ u = << Iac, Sb >>
    \/ m = "sbdata"  /\ InSub(u) /\ ~ (Len(u) > 3 /\ OddRun(u, 4, Len(u)))
    \/ m = "sbiac"   /\ InSub(u) /\ Len(u) > 3 /\ OddRun(u, 4, Len(u))

\* The ends in a subnegotiation, with another byte.
LEMMA EndsNext ==
    ASSUME NEW u \in Seq(Byte), NEW t \in Seq(Byte), NEW b \in Byte, Len(u) >= 3
    PROVE  \A e \in Nat : e <= Len(u) =>
              ( e \in Ends(Append(u, b) \o t, 4) <=>
                   \/ e \in Ends(u, 4)
                   \/ e = Len(u) /\ e > 3 /\ b = Se /\ OddRun(u, 4, e) )
<1> DEFINE v == Append(u, b) \o t
<1>0. /\ v = u \o (<< b >> \o t) /\ << b >> \o t \in Seq(Byte)
      /\ Len(v) \in Nat /\ Len(u) \in Nat /\ Len(v) > Len(u)
    OBVIOUS
<1>1. v[Len(u) + 1] = b /\ \A k \in 1 .. Len(u) : v[k] = u[k]
    OBVIOUS
<1>2. ASSUME NEW e \in 4 .. Len(u) PROVE OddRun(v, 4, e) <=> OddRun(u, 4, e)
    <2>1. 4 \in Nat \ {0}
        OBVIOUS
    <2>2. OddRun(u \o (<< b >> \o t), 4, e) <=> OddRun(u, 4, e)
        BY <1>0, <2>1, OddRunPrefix
    <2> QED BY <1>0, <2>2
<1> HIDE DEF v
<1>3. ASSUME NEW e \in Nat, e <= Len(u)
      PROVE  e \in Ends(v, 4) <=>
                   \/ e \in Ends(u, 4)
                   \/ e = Len(u) /\ e > 3 /\ b = Se /\ OddRun(u, 4, e)
    <2>1. CASE e < 4
        BY <2>1 DEF Ends
    <2>2. CASE e >= 4 /\ e < Len(u)
        BY <1>0, <1>1, <1>2, <2>2 DEF Ends
    <2>3. CASE e >= 4 /\ e = Len(u)
        BY <1>0, <1>1, <1>2, <2>3 DEF Ends
    <2> QED BY <1>0, <1>3, <2>1, <2>2, <2>3
<1> QED BY <1>3 DEF v

\* There is nothing yet in an item that is not complete.
LEMMA PartialNothing ==
    ASSUME NEW m, NEW u \in Seq(Byte), Partial(m, u), NEW kind \in Kinds
    PROVE  Items(u, kind) = << >>
<1>1. CASE u = << >>
    BY <1>1, ItemsOfNothing
<1>2. CASE u = << Iac >>
    <2>1. u # << >> /\ Len(u) = 1 /\ u[1] = Iac
        BY <1>2
    <2>2. ItemAt(u, 1, kind) = << >>
        BY <2>1 DEF ItemAt
    <2>3. Behind(u, 1) = 2
        BY <2>1 DEF Behind
    <2>4. ItemsFrom(u, kind)[2] = << >>
        <3>1. 2 \in Nat \ {0} /\ 2 > Len(u)
            BY <2>1
        <3> QED BY <3>1, ItemsNothing
    <2>5. Items(u, kind) = << >> \o << >>
        BY <2>1, <2>2, <2>3, <2>4, ItemsFirst
    <2> QED BY <2>5
<1>3. CASE \E x \in {Will, Do} \union Refusals : u = << Iac, x >>
    <2>1. u # << >> /\ Len(u) = 2 /\ u[1] = Iac /\ u[2] \in {Will, Do} \union Refusals
        BY <1>3
    <2>2. ItemAt(u, 1, kind) = << >>
        BY <2>1 DEF ItemAt
    <2>3. Behind(u, 1) = 4
        BY <2>1 DEF Behind
    <2>4. ItemsFrom(u, kind)[4] = << >>
        <3>1. 4 \in Nat \ {0} /\ 4 > Len(u)
            BY <2>1
        <3> QED BY <3>1, ItemsNothing
    <2>5. Items(u, kind) = << >> \o << >>
        BY <2>1, <2>2, <2>3, <2>4, ItemsFirst
    <2> QED BY <2>5
<1>4. CASE u = << Iac, Sb >> \/ InSub(u)
    <2>1. u # << >> /\ u[1] = Iac /\ u[2] = Sb /\ Len(u) \in Nat /\ Len(u) >= 2
        BY <1>4 DEF InSub
    <2>2. Ends(u, 4) = {}
        BY <1>4 DEF InSub, Ends
    <2>3. BehindSub(u, 1 + 3) = Len(u) + 1
        BY <2>2, BehindSubIs
    <2>4. ItemAt(u, 1, kind) = << >>
        BY <2>1 DEF ItemAt
    <2>5. Behind(u, 1) = Len(u) + 1
        BY <2>1, <2>3 DEF Behind
    <2>6. ItemsFrom(u, kind)[Len(u) + 1] = << >>
        BY <2>1, ItemsNothing
    <2>7. Items(u, kind) = << >> \o << >>
        BY <2>1, <2>4, <2>5, <2>6, ItemsFirst
    <2> QED BY <2>7
<1> QED BY <1>1, <1>2, <1>3, <1>4 DEF Partial

\* The end of a subnegotiation.
LEMMA WholeSub ==
    ASSUME NEW u \in Seq(Byte), Partial("sbiac", u)
    PROVE  /\ Whole(Append(u, Se))
           /\ \A kind \in Kinds : Items(Append(u, Se), kind) = << >>
<1> DEFINE x == Append(u, Se)
<1>1. /\ Len(u) > 3 /\ u[1] = Iac /\ u[2] = Sb /\ Ends(u, 4) = {}
      /\ OddRun(u, 4, Len(u)) /\ Len(u) \in Nat
    BY DEF Partial, InSub
<1>2. Se \in Byte
    BY DEF Byte
<1>3. x \in Seq(Byte) /\ x # << >> /\ Len(x) = Len(u) + 1 /\ x[1] = Iac /\ x[2] = Sb
    BY <1>1, <1>2
<1>4. ASSUME NEW t \in Seq(Byte)
      PROVE  /\ x \o t \in Seq(Byte) /\ Len(x \o t) \in Nat /\ Len(x \o t) > 3
             /\ (x \o t)[1] = Iac /\ (x \o t)[2] = Sb
    BY <1>1, <1>2, <1>3
<1>5. ASSUME NEW t \in Seq(Byte) PROVE BehindSub(x \o t, 4) = Len(u) + 2
    <2>1. \A e \in Nat : e <= Len(u) => (e \in Ends(x \o t, 4) <=> e = Len(u))
        BY <1>1, <1>2, EndsNext
    <2>2. Len(u) \in Ends(x \o t, 4)
        BY <1>1, <2>1
    <2>3. PICK e \in Ends(x \o t, 4) :
              BehindSub(x \o t, 4) = e + 2 /\ \A f \in Ends(x \o t, 4) : e <= f
        BY <1>4, <2>2, BehindSubIs
    <2>4. e \in Nat
        BY <2>3 DEF Ends
    <2>5. e = Len(u)
        BY <1>1, <2>1, <2>2, <2>3, <2>4
    <2> QED BY <2>3, <2>5
<1> HIDE DEF x
<1>6. ASSUME NEW t \in Seq(Byte)
      PROVE  /\ Behind(x \o t, 1) = Len(x) + 1
             /\ \A kind \in Kinds : ItemAt(x \o t, 1, kind) = ItemAt(x, 1, kind)
    <2>1. BehindSub(x \o t, 1 + 3) = Len(x) + 1
        BY <1>1, <1>3, <1>5
    <2> QED BY <1>1, <1>3, <1>4, <2>1 DEF Behind, ItemAt
<1>7. \A kind : ItemAt(x, 1, kind) = << >>
    BY <1>3 DEF ItemAt
<1>8. Whole(x) /\ \A kind \in Kinds : Items(x, kind) = ItemAt(x, 1, kind)
    BY <1>3, <1>6, WholeItem
<1> QED BY <1>7, <1>8 DEF x

\* Another byte of a subnegotiation that does not end it.
LEMMA PartialSub ==
    ASSUME NEW u \in Seq(Byte), NEW b \in Byte, NEW m \in {"sb", "sbdata", "sbiac"},
           Partial(m, u), ~ (m = "sbiac" /\ b = Se)
    PROVE  Partial(IF m = "sbdata" /\ b = Iac THEN "sbiac" ELSE "sbdata", Append(u, b))
<1> DEFINE x == Append(u, b)
<1>1. CASE m = "sb"
    <2>0. u = << Iac, Sb >>
        BY <1>1 DEF Partial
    <2>1. Len(x) = 3 /\ x[1] = Iac /\ x[2] = Sb
        BY <2>0
    <2>2. Ends(x, 4) = {}
        BY <2>1 DEF Ends
    <2> QED BY <1>1, <2>1, <2>2 DEF Partial, InSub
<1>2. CASE m \in {"sbdata", "sbiac"}
    <2>1. /\ InSub(u) /\ (m = "sbiac" <=> Len(u) > 3 /\ OddRun(u, 4, Len(u)))
          /\ Len(u) \in Nat
        BY <1>2 DEF Partial
    <2>2. /\ x \in Seq(Byte) /\ Len(x) = Len(u) + 1 /\ Len(x) > 3
          /\ x[1] = Iac /\ x[2] = Sb /\ x[Len(x)] = b
        BY <2>1 DEF InSub
    <2>3. Ends(x, 4) = {}
        <3>1. x \o << >> = x /\ << >> \in Seq(Byte)
            BY <2>2
        <3>2. ASSUME NEW e \in Ends(x, 4) PROVE e \in Nat /\ e <= Len(u)
            BY <2>1, <2>2 DEF Ends
        <3>3. \A e \in Nat : e <= Len(u) =>
                 ( e \in Ends(x \o << >>, 4) <=>
                      \/ e \in Ends(u, 4)
                      \/ e = Len(u) /\ e > 3 /\ b = Se /\ OddRun(u, 4, e) )
            BY <2>1, <3>1, EndsNext DEF InSub
        <3> HIDE DEF x
        <3> QED BY <2>1, <3>1, <3>2, <3>3 DEF InSub
    <2>4. OddRun(x, 4, Len(x)) <=> b = Iac /\ ~ (Len(u) > 3 /\ OddRun(u, 4, Len(u)))
        <3>1. OddRun(x, 4, Len(x)) <=>
                 x[Len(x)] = Iac /\ ~ (4 < Len(x) /\ OddRun(x, 4, Len(x) - 1))
            <4> HIDE DEF x
            <4>1. 4 <= Len(x)
                BY <2>1, <2>2
            <4> QED BY <2>2, <4>1, OddRunNext
        <3>2. Len(u) > 3 => (OddRun(x, 4, Len(u)) <=> OddRun(u, 4, Len(u)))
            <4>1. x = u \o << b >> /\ << b >> \in Seq(Byte)
                OBVIOUS
            <4>2. Len(u) > 3 => Len(u) \in 4 .. Len(u)
                BY <2>1
            <4>3. Len(u) > 3 =>
                     (OddRun(u \o << b >>, 4, Len(u)) <=> OddRun(u, 4, Len(u)))
                <5>1. 4 \in Nat \ {0}
                    OBVIOUS
                <5> QED BY <4>1, <4>2, <5>1, OddRunPrefix
            <4> HIDE DEF x
            <4> QED BY <4>1, <4>3
        <3>3. (4 < Len(x) <=> Len(u) > 3) /\ Len(x) - 1 = Len(u)
            BY <2>1, <2>2
        <3> HIDE DEF x
        <3> QED BY <2>2, <3>1, <3>2, <3>3
    <2> HIDE DEF x
    <2>5. InSub(x)
        BY <2>2, <2>3 DEF InSub
    <2> QED BY <1>2, <2>1, <2>2, <2>4, <2>5 DEF Partial, x
<1> QED BY <1>1, <1>2

-----------------------------------------------------------------------------
(* What is selected from a sequence of pairs *)

\* What is selected grows entry by entry.
LEMMA SelectSteps ==
    ASSUME NEW items, NEW kinds, Len(items) \in Nat
    PROVE  LET f == SelectedUpTo(items, kinds)
           IN  /\ f[0] = << >>
               /\ \A n \in Nat : n < Len(items) =>
                     f[n + 1] = IF items[n + 1][1] \in kinds
                                THEN Append(f[n], items[n + 1]) ELSE f[n]
<1> DEFINE F == SelectedUpTo(items, kinds)
<1>1. \A i \in 0 .. Len(items) :
         F[i] = IF i = 0 THEN << >>
                ELSE IF items[i][1] \in kinds THEN Append(F[i - 1], items[i])
                ELSE F[i - 1]
    BY SelectEquation
<1> HIDE DEF F
<1>2. F[0] = << >>
    <2>1. 0 \in 0 .. Len(items)
        OBVIOUS
    <2> QED BY <1>1, <2>1
<1>3. ASSUME NEW n \in Nat, n < Len(items)
      PROVE  F[n + 1] = IF items[n + 1][1] \in kinds
                        THEN Append(F[n], items[n + 1]) ELSE F[n]
    <2> DEFINE m == n + 1
    <2>1. m \in 0 .. Len(items) /\ m # 0 /\ m - 1 = n
        BY <1>3
    <2> HIDE DEF m
    <2>2. F[m] = IF items[m][1] \in kinds THEN Append(F[m - 1], items[m]) ELSE F[m - 1]
        BY <1>1, <2>1
    <2>3. F[m] = IF items[m][1] \in kinds THEN Append(F[n], items[m]) ELSE F[n]
        BY <2>1, <2>2
    <2> QED BY <2>3 DEF m
<1> QED BY <1>2, <1>3 DEF F

\* Entries are selected, and not made.
LEMMA SelectedType ==
    ASSUME NEW S, NEW s \in Seq(S), NEW K
    PROVE  \A i \in 0 .. Len(s) : SelectedUpTo(s, K)[i] \in Seq(S)
<1> DEFINE F == SelectedUpTo(s, K)
           T == {n \in Nat : n <= Len(s) => F[n] \in Seq(S)}
<1>0. Len(s) \in Nat
    OBVIOUS
<1>1. /\ F[0] = << >>
      /\ \A n \in Nat : n < Len(s) =>
            F[n + 1] = IF s[n + 1][1] \in K THEN Append(F[n], s[n + 1]) ELSE F[n]
    BY <1>0, SelectSteps
<1> HIDE DEF F
<1>2. 0 \in T
    <2>1. F[0] \in Seq(S)
        BY <1>1
    <2> QED BY <2>1
<1>3. ASSUME NEW n \in Nat, n \in T PROVE n + 1 \in T
    <2>1. ASSUME n + 1 <= Len(s) PROVE F[n + 1] \in Seq(S)
        <3>1. n < Len(s) /\ F[n] \in Seq(S) /\ s[n + 1] \in S
            BY <1>0, <1>3, <2>1
        <3>2. Append(F[n], s[n + 1]) \in Seq(S)
            BY <3>1
        <3> QED BY <1>1, <3>1, <3>2
    <2> QED BY <2>1
<1>4. Nat \subseteq T
    <2> HIDE DEF T
    <2> QED BY <1>2, <1>3, SetInduction
<1> QED BY <1>4 DEF F

\* The same of all that is selected.
LEMMA SelectType ==
    ASSUME NEW S, NEW s \in Seq(S), NEW K
    PROVE  Select(s, K) \in Seq(S)
BY SelectedType DEF Select

\* There is nothing to select from nothing.
LEMMA SelectNothing ==
    ASSUME NEW K
    PROVE  Select(<< >>, K) = << >>
<1>1. Len(<< >>) = 0
    OBVIOUS
<1>2. SelectedUpTo(<< >>, K)[0] = << >>
    BY <1>1, SelectSteps
<1> QED BY <1>1, <1>2 DEF Select

\* What is in w and out: a refusal with its option, or a line.
Entry == (Refusals \X Byte) \union (Writers \X (0 .. MaxLines))

\* Append and concatenation.
LEMMA AppendConcat ==
    \A x, y \in Seq(Entry), z \in Entry : Append(x \o y, z) = x \o Append(y, z)
<1> SUFFICES ASSUME NEW x \in Seq(Entry), NEW y \in Seq(Entry), NEW z \in Entry
             PROVE  Append(x \o y, z) = x \o Append(y, z)
    OBVIOUS
<1>1. Append(x \o y, z) \in Seq(Entry) /\ x \o Append(y, z) \in Seq(Entry)
    OBVIOUS
<1>2. Len(Append(x \o y, z)) = Len(x \o Append(y, z))
    OBVIOUS
<1>3. \A i \in 1 .. Len(x) + Len(y) + 1 : Append(x \o y, z)[i] = (x \o Append(y, z))[i]
    OBVIOUS
<1>4. Len(Append(x \o y, z)) = Len(x) + Len(y) + 1
    OBVIOUS
<1> QED BY <1>1, <1>2, <1>3, <1>4, SeqEqual

\* What is selected from two sequences, one behind the other.
LEMMA SelectConcat ==
    ASSUME NEW s \in Seq(Entry), NEW t \in Seq(Entry), NEW K
    PROVE  Select(s \o t, K) = Select(s, K) \o Select(t, K)
<1> DEFINE v == s \o t
           F == SelectedUpTo(s, K)
           G == SelectedUpTo(t, K)
           H == SelectedUpTo(v, K)
           T == {n \in Nat : n <= Len(s) => H[n] = F[n]}
           P(n) == F[Len(s)] \o G[n]
           U == {n \in Nat : n <= Len(t) => H[Len(s) + n] = P(n)}
<1>0. /\ Len(s) \in Nat /\ Len(t) \in Nat /\ Len(v) = Len(s) + Len(t)
      /\ \A i \in 1 .. Len(s) : v[i] = s[i]
      /\ \A i \in 1 .. Len(t) : v[Len(s) + i] = t[i]
    OBVIOUS
<1>1. /\ F[0] = << >>
      /\ \A n \in Nat : n < Len(s) =>
            F[n + 1] = IF s[n + 1][1] \in K THEN Append(F[n], s[n + 1]) ELSE F[n]
    BY <1>0, SelectSteps
<1>2. /\ G[0] = << >>
      /\ \A n \in Nat : n < Len(t) =>
            G[n + 1] = IF t[n + 1][1] \in K THEN Append(G[n], t[n + 1]) ELSE G[n]
    BY <1>0, SelectSteps
<1>3. /\ H[0] = << >>
      /\ \A n \in Nat : n < Len(v) =>
            H[n + 1] = IF v[n + 1][1] \in K THEN Append(H[n], v[n + 1]) ELSE H[n]
    <2> HIDE DEF v
    <2>1. Len(v) \in Nat
        BY <1>0
    <2> QED BY <2>1, SelectSteps
<1>4. F[Len(s)] \in Seq(Entry) /\ \A i \in 0 .. Len(t) : G[i] \in Seq(Entry)
    BY <1>0, SelectedType
<1>5. \A i \in 1 .. Len(t) : t[i] \in Entry
    OBVIOUS
<1> HIDE DEF F, G, H, v, P
<1>6. Nat \subseteq T
    <2>1. 0 \in T
        BY <1>1, <1>3
    <2>2. ASSUME NEW n \in Nat, n \in T PROVE n + 1 \in T
        <3>1. ASSUME n + 1 <= Len(s) PROVE H[n + 1] = F[n + 1]
            <4>1. n < Len(s) /\ n < Len(v) /\ H[n] = F[n] /\ v[n + 1] = s[n + 1]
                BY <1>0, <2>2, <3>1
            <4> QED BY <1>1, <1>3, <4>1
        <3> QED BY <3>1
    <2> HIDE DEF T
    <2> QED BY <2>1, <2>2, SetInduction
<1>7. H[Len(s)] = F[Len(s)]
    BY <1>0, <1>6
<1>8. Nat \subseteq U
    <2>1. 0 \in U
        <3>1. G[0] = << >> /\ Len(s) + 0 = Len(s)
            BY <1>0, <1>2
        <3>2. F[Len(s)] \o << >> = F[Len(s)]
            BY <1>4
        <3>3. P(0) = F[Len(s)]
            BY <3>1, <3>2 DEF P
        <3> QED BY <1>7, <3>1, <3>3
    <2>2. ASSUME NEW n \in Nat, n \in U PROVE n + 1 \in U
        <3>1. ASSUME n + 1 <= Len(t)
              PROVE  H[Len(s) + (n + 1)] = P(n + 1)
            <4> DEFINE k == Len(s) + n
            <4>1. /\ n < Len(t) /\ k \in Nat /\ k < Len(v) /\ Len(s) + (n + 1) = k + 1
                  /\ n \in 0 .. Len(t) /\ n + 1 \in 1 .. Len(t)
                BY <1>0, <3>1
            <4>2. H[k] = P(n)
                BY <2>2, <4>1
            <4>3. v[k + 1] = t[n + 1]
                BY <1>0, <4>1
            <4> HIDE DEF k
            <4>4. H[k + 1] = IF t[n + 1][1] \in K THEN Append(H[k], t[n + 1]) ELSE H[k]
                BY <1>3, <4>1, <4>3
            <4>5. G[n + 1] = IF t[n + 1][1] \in K THEN Append(G[n], t[n + 1]) ELSE G[n]
                BY <1>2, <4>1
            <4>6. Append(P(n), t[n + 1]) = F[Len(s)] \o Append(G[n], t[n + 1])
                <5>1. t[n + 1] \in Entry /\ G[n] \in Seq(Entry)
                    BY <1>4, <1>5, <4>1
                <5> QED BY <1>4, <5>1, AppendConcat, Zenon DEF P
            <4>7. CASE t[n + 1][1] \in K
                <5>1. G[n + 1] = Append(G[n], t[n + 1]) /\ H[k + 1] = Append(P(n), t[n + 1])
                    BY <4>2, <4>4, <4>5, <4>7
                <5>2. H[k + 1] = P(n + 1)
                    BY <4>6, <5>1, Zenon DEF P
                <5> QED BY <4>1, <5>2
            <4>8. CASE t[n + 1][1] \notin K
                <5>1. G[n + 1] = G[n] /\ H[k + 1] = P(n)
                    BY <4>2, <4>4, <4>5, <4>8
                <5>2. H[k + 1] = P(n + 1)
                    BY <5>1, Zenon DEF P
                <5> QED BY <4>1, <5>2
            <4> QED BY <4>7, <4>8
        <3> QED BY <3>1
    <2> HIDE DEF U
    <2> QED BY <2>1, <2>2, SetInduction
<1>9. H[Len(s) + Len(t)] = P(Len(t))
    <2>1. Len(t) \in U
        BY <1>0, <1>8
    <2> QED BY <1>0, <2>1
<1>10. H[Len(v)] = F[Len(s)] \o G[Len(t)]
    BY <1>0, <1>9 DEF P
<1> QED BY <1>10 DEF F, G, H, v, Select

\* All or nothing.
LEMMA SelectAll ==
    ASSUME NEW S, NEW s \in Seq(S), NEW K, \A i \in 1 .. Len(s) : s[i][1] \in K
    PROVE  Select(s, K) = s
<1> DEFINE F == SelectedUpTo(s, K)
           T == {n \in Nat : n <= Len(s) => F[n] = SubSeq(s, 1, n)}
<1>0. Len(s) \in Nat
    OBVIOUS
<1>1. /\ F[0] = << >>
      /\ \A n \in Nat : n < Len(s) =>
            F[n + 1] = IF s[n + 1][1] \in K THEN Append(F[n], s[n + 1]) ELSE F[n]
    BY <1>0, SelectSteps
<1> HIDE DEF F
<1>2. 0 \in T
    <2>1. F[0] = SubSeq(s, 1, 0)
        BY <1>1
    <2> QED BY <2>1
<1>3. ASSUME NEW n \in Nat, n \in T PROVE n + 1 \in T
    <2>1. ASSUME n + 1 <= Len(s) PROVE F[n + 1] = SubSeq(s, 1, n + 1)
        <3>1. n < Len(s) /\ F[n] = SubSeq(s, 1, n) /\ s[n + 1][1] \in K
            BY <1>0, <1>3, <2>1
        <3>2. F[n + 1] = Append(F[n], s[n + 1])
            BY <1>1, <3>1
        <3>3. Append(SubSeq(s, 1, n), s[n + 1]) = SubSeq(s, 1, n + 1)
            BY <3>1
        <3> QED BY <3>1, <3>2, <3>3
    <2> QED BY <2>1
<1>4. Nat \subseteq T
    <2> HIDE DEF T
    <2> QED BY <1>2, <1>3, SetInduction
<1>5. F[Len(s)] = SubSeq(s, 1, Len(s))
    BY <1>0, <1>4
<1>6. SubSeq(s, 1, Len(s)) = s
    OBVIOUS
<1> QED BY <1>5, <1>6 DEF F, Select

\* None is of this kind.
LEMMA SelectNone ==
    ASSUME NEW S, NEW s \in Seq(S), NEW K, \A i \in 1 .. Len(s) : s[i][1] \notin K
    PROVE  Select(s, K) = << >>
<1> DEFINE F == SelectedUpTo(s, K)
           T == {n \in Nat : n <= Len(s) => F[n] = << >>}
<1>0. Len(s) \in Nat
    OBVIOUS
<1>1. /\ F[0] = << >>
      /\ \A n \in Nat : n < Len(s) =>
            F[n + 1] = IF s[n + 1][1] \in K THEN Append(F[n], s[n + 1]) ELSE F[n]
    BY <1>0, SelectSteps
<1> HIDE DEF F
<1>2. 0 \in T
    BY <1>1
<1>3. ASSUME NEW n \in Nat, n \in T PROVE n + 1 \in T
    <2>1. ASSUME n + 1 <= Len(s) PROVE F[n + 1] = << >>
        <3>1. n < Len(s) /\ F[n] = << >> /\ s[n + 1][1] \notin K
            BY <1>0, <1>3, <2>1
        <3> QED BY <1>1, <3>1
    <2> QED BY <2>1
<1>4. Nat \subseteq T
    <2> HIDE DEF T
    <2> QED BY <1>2, <1>3, SetInduction
<1>5. F[Len(s)] = << >>
    BY <1>0, <1>4
<1> QED BY <1>5 DEF F, Select

\* The second halves of the entries.
Halves == Byte \union 0 .. MaxLines

\* The options that are refused are second halves.
LEMMA RefusedType ==
    ASSUME NEW s \in Seq(Entry), NEW kind
    PROVE  Refused(s, kind) \in Seq(Halves)
<1> DEFINE those == Select(s, {kind})
<1>1. those \in Seq(Entry)
    BY SelectType
<1> HIDE DEF those
<1>2. \A i \in 1 .. Len(those) : those[i] \in Entry
    BY <1>1
<1>3. ASSUME NEW e \in Entry PROVE e[2] \in Halves
    <2>1. CASE e \in Refusals \X Byte
        BY <2>1 DEF Halves
    <2>2. CASE e \in Writers \X (0 .. MaxLines)
        BY <2>2 DEF Halves
    <2> QED BY <2>1, <2>2 DEF Entry
<1>4. Len(those) \in Nat
    BY <1>1
<1>5. [i \in 1 .. Len(those) |-> those[i][2]] \in Seq(Halves)
    BY <1>2, <1>3, <1>4
<1> QED BY <1>5 DEF Refused, those

\* The refusals in two sequences, one behind the other.
LEMMA RefusedConcat ==
    ASSUME NEW s \in Seq(Entry), NEW t \in Seq(Entry), NEW kind
    PROVE  Refused(s \o t, kind) = Refused(s, kind) \o Refused(t, kind)
<1> DEFINE p == Select(s, {kind})
           q == Select(t, {kind})
           r == Select(s \o t, {kind})
           P == [i \in 1 .. Len(p) |-> p[i][2]]
           Q == [i \in 1 .. Len(q) |-> q[i][2]]
           R == [i \in 1 .. Len(r) |-> r[i][2]]
<1>1. p \in Seq(Entry) /\ q \in Seq(Entry) /\ r = p \o q
    BY SelectType, SelectConcat
<1>2. P \in Seq(Halves) /\ Q \in Seq(Halves)
    BY RefusedType DEF Refused
<1> HIDE DEF p, q, r
<1>3. Len(p) \in Nat /\ Len(q) \in Nat /\ Len(r) = Len(p) + Len(q)
    BY <1>1
<1>4. \A i \in 1 .. Len(r) : r[i] = IF i <= Len(p) THEN p[i] ELSE q[i - Len(p)]
    BY <1>1
<1>5. Len(P) = Len(p) /\ Len(Q) = Len(q)
    BY <1>3
<1>6. /\ P \o Q \in Seq(Halves) /\ Len(P \o Q) = Len(P) + Len(Q)
      /\ \A i \in 1 .. Len(P) + Len(Q) :
            (P \o Q)[i] = IF i <= Len(P) THEN P[i] ELSE Q[i - Len(P)]
    <2> HIDE DEF P, Q
    <2> QED BY <1>2
<1>7. R \in Seq(Halves) /\ Len(R) = Len(r)
    <2>1. s \o t \in Seq(Entry)
        OBVIOUS
    <2>2. R \in Seq(Halves)
        BY <2>1, RefusedType DEF Refused, r
    <2> QED BY <1>3, <2>2
<1>8. \A i \in 1 .. Len(r) : R[i] = IF i <= Len(p) THEN P[i] ELSE Q[i - Len(p)]
    BY <1>3, <1>4
<1>9. R = P \o Q
    <2> DEFINE V == P \o Q
    <2> HIDE DEF P, Q, R
    <2>1. \A i \in 1 .. Len(R) : R[i] = V[i]
        BY <1>3, <1>5, <1>6, <1>7, <1>8
    <2>2. Len(R) = Len(V) /\ V \in Seq(Halves)
        BY <1>3, <1>5, <1>6, <1>7
    <2> HIDE DEF V
    <2>3. R = V
        BY <1>7, <2>1, <2>2, SeqEqual
    <2> QED BY <2>3 DEF V
<1> QED BY <1>9 DEF Refused, p, q, r

\* The refusals of writeOption, and the lines, which are none.
LEMMA AnswersAre ==
    ASSUME TelnetAssumption, willopt \in Seq(Byte), doopt \in Seq(Byte)
    PROVE  /\ Answers \in Seq(Entry)
           /\ Refused(Answers, "WONT") = willopt
           /\ Refused(Answers, "DONT") = doopt
           /\ Select(Answers, Writers) = << >>
<1> DEFINE a == [i \in 1 .. Len(willopt) |-> << "WONT", willopt[i] >>]
           d == [i \in 1 .. Len(doopt) |-> << "DONT", doopt[i] >>]
<1>0. /\ Len(willopt) \in Nat /\ Len(doopt) \in Nat
      /\ \A i \in 1 .. Len(willopt) : willopt[i] \in Byte
      /\ \A i \in 1 .. Len(doopt) : doopt[i] \in Byte
    OBVIOUS
<1>1. a \in Seq(Entry) /\ Len(a) = Len(willopt)
    BY <1>0 DEF Entry
<1>2. d \in Seq(Entry) /\ Len(d) = Len(doopt)
    BY <1>0 DEF Entry
<1>3. /\ \A i \in 1 .. Len(a) : a[i][1] = "WONT" /\ a[i][2] = willopt[i]
      /\ \A i \in 1 .. Len(d) : d[i][1] = "DONT" /\ d[i][2] = doopt[i]
    BY <1>1, <1>2
<1>4. Answers = a \o d
    BY DEF Answers
<1> HIDE DEF a, d
<1>5. /\ Select(a, {"WONT"}) = a /\ Select(d, {"DONT"}) = d
      /\ Select(a, {"DONT"}) = << >> /\ Select(d, {"WONT"}) = << >>
    BY <1>1, <1>2, <1>3, SelectAll, SelectNone
<1>6. Select(a, Writers) = << >> /\ Select(d, Writers) = << >>
    <2>1. "WONT" \notin Writers /\ "DONT" \notin Writers
        BY DEF TelnetAssumption, Writers
    <2>2. \A i \in 1 .. Len(a) : a[i][1] \notin Writers
        BY <1>3, <2>1
    <2>3. \A i \in 1 .. Len(d) : d[i][1] \notin Writers
        BY <1>3, <2>1
    <2>4. Select(a, Writers) = << >>
        BY <1>1, <2>2, SelectNone
    <2>5. Select(d, Writers) = << >>
        BY <1>2, <2>3, SelectNone
    <2> QED BY <2>4, <2>5
<1>7. /\ Refused(a, "WONT") = willopt /\ Refused(d, "WONT") = << >>
      /\ Refused(a, "DONT") = << >>   /\ Refused(d, "DONT") = doopt
    <2>1. [i \in 1 .. Len(a) |-> a[i][2]] = willopt
        BY <1>0, <1>1, <1>3
    <2>2. [i \in 1 .. Len(d) |-> d[i][2]] = doopt
        BY <1>0, <1>2, <1>3
    <2>3. \A f : [i \in 1 .. Len(<< >>) |-> f[i]] = << >>
        OBVIOUS
    <2> QED BY <1>5, <2>1, <2>2 DEF Refused
<1>8. /\ Refused(a \o d, "WONT") = Refused(a, "WONT") \o Refused(d, "WONT")
      /\ Refused(a \o d, "DONT") = Refused(a, "DONT") \o Refused(d, "DONT")
      /\ Select(a \o d, Writers) = Select(a, Writers) \o Select(d, Writers)
    <2>1. \A kind : Refused(a \o d, kind) = Refused(a, kind) \o Refused(d, kind)
        BY <1>1, <1>2, RefusedConcat, Zenon
    <2>2. \A K : Select(a \o d, K) = Select(a, K) \o Select(d, K)
        BY <1>1, <1>2, SelectConcat, Zenon
    <2> QED BY <2>1, <2>2, Zenon
<1>9. willopt \o << >> = willopt /\ << >> \o doopt = doopt /\ << >> \o << >> = << >>
    OBVIOUS
<1>10. a \o d \in Seq(Entry)
    BY <1>1, <1>2
<1> QED BY <1>4, <1>6, <1>7, <1>8, <1>9, <1>10, Zenon

\* A line, which is not a refusal.
LEMMA LineIs ==
    ASSUME TelnetAssumption, NEW x \in Writers, NEW n \in 0 .. MaxLines
    PROVE  /\ << << x, n >> >> \in Seq(Entry)
           /\ \A kind \in Refusals : Refused(<< << x, n >> >>, kind) = << >>
           /\ Select(<< << x, n >> >>, Writers) = << << x, n >> >>
<1> DEFINE s == << << x, n >> >>
<1>0. << x, n >> \in Entry
    BY DEF Entry
<1>1. s \in Seq(Entry) /\ Len(s) = 1 /\ s[1][1] = x
    BY <1>0
<1>2. x \notin Refusals
    BY DEF TelnetAssumption, Writers
<1> HIDE DEF s
<1>3. \A i \in 1 .. Len(s) : s[i][1] = x
    BY <1>1
<1>4. Select(s, Writers) = s
    BY <1>1, <1>3, SelectAll
<1>5. ASSUME NEW kind \in Refusals PROVE Refused(s, kind) = << >>
    <2>1. Select(s, {kind}) = << >>
        BY <1>1, <1>2, <1>3, SelectNone
    <2>2. \A f : [i \in 1 .. Len(<< >>) |-> f[i][2]] = << >>
        OBVIOUS
    <2> QED BY <2>1, <2>2, Zenon DEF Refused
<1> QED BY <1>1, <1>4, <1>5 DEF s

-----------------------------------------------------------------------------
(* The inductive invariant *)

\* What is in the buffers.
Streams ==
    /\ input \in Seq(Byte) /\ wire \in Seq(Byte) /\ ahead \in Seq(Byte)
    /\ buf \in Seq(Byte) /\ text \in Seq(Byte)
    /\ willopt \in Seq(Byte) /\ doopt \in Seq(Byte)
    /\ w \in Seq(Entry) /\ out \in Seq(Entry)

\* A writer works only with c.mu, on the lines that are left; serve waits for
\* its own reply, and has c.mu during the handshake.
Writing == {"write", "reset", "put"}

Mutex ==
    /\ \A x \in Writers : pc[x] \notin {"idle", "end"} => cmu = x
    /\ \A x \in Writers : left[x] > 0 <=> pc[x] \in Writing
    /\ pc["serve"] # "idle" => srv \in {"reply", "auth"}
    /\ srv = "handshake" => cmu = "serve"

\* A reply is written up to where its writer is.
Replied ==
    LET lines == Select(out \o w, Writers)
        last  == lines[Len(lines)]
    IN  (lines # << >> /\ last[2] > 0 /\ ~broken) =>
           \E x \in Writers : last = << x, left[x] >> /\ pc[x] \in Writing

\* What was read is c, which is made of whole items, and the beginning u of
\* another one, ...
ReadTo(c, u) ==
    /\ input = (c \o u) \o (ahead \o wire)
    /\ Whole(c) /\ Partial(mode, u)

\* ... and all the items of c have been dealt with.
Kept(c) == text \o buf = Items(c, "text")

Told(c) ==
    /\ Refused(out \o w, "WONT") \o Pending(willopt) = Items(c, Will)
    /\ Refused(out \o w, "DONT") \o Pending(doopt)   = Items(c, Do)

Decoding == \E c, u \in Seq(Byte) : ReadTo(c, u) /\ Kept(c) /\ Told(c)

IInv == TypeOK /\ Streams /\ Mutex /\ RepliesWhole /\ Replied /\ Decoding

-----------------------------------------------------------------------------
(* Types and the lock *)

\* What the client sends is made of bytes.
LEMMA BytesAre ==
    ASSUME TelnetAssumption
    PROVE  Bytes \subseteq Byte /\ Chunks \subseteq Seq(Byte) /\ Iac # Newline
<1>1. ASSUME NEW chunk \in Chunks PROVE chunk \in Seq(Byte)
    <2>1. chunk \in Seq(STRING)
        BY DEF TelnetAssumption
    <2>2. \A i \in 1 .. Len(chunk) : chunk[i] \in Bytes
        BY <2>1 DEF Bytes
    <2>3. \A i \in 1 .. Len(chunk) : chunk[i] \in Byte
        BY <2>2 DEF Byte
    <2> QED BY <2>1, <2>3
<1> QED BY <1>1 DEF Byte, Newline

\* After a reply nobody writes: whoever did had c.mu.
LEMMA Released ==
    ASSUME TelnetAssumption, TypeOK, Mutex, NEW x \in Writers,
           pc[x] \notin {"idle", "end"}, Release(x)
    PROVE  /\ pc' \in [Writers -> Pcs] /\ left' \in [Writers -> 0 .. MaxLines]
           /\ cmu' = Nobody
           /\ \A y \in Writers : pc'[y] \in {"idle", "end"} /\ left'[y] = 0
           /\ UNCHANGED << chunks, closed, input, wire, ahead, mode, buf, text, srv >>
           /\ UNCHANGED << willopt, doopt >>
<1>1. \A y \in Writers \ {x} : pc[y] \in {"idle", "end"} /\ left[y] = 0
    BY DEF Mutex, TypeOK, Writing
<1>2. pc' \in [Writers -> Pcs] /\ left' \in [Writers -> 0 .. MaxLines] /\ cmu' = Nobody
    BY DEF Release, Over, TypeOK, Pcs, TelnetAssumption
<1>3. \A y \in Writers : pc'[y] = IF y = x THEN Over(x) ELSE pc[y]
    BY DEF Release, TypeOK
<1>4. \A y \in Writers : left'[y] = IF y = x THEN 0 ELSE left[y]
    BY DEF Release, TypeOK
<1>5. /\ UNCHANGED << chunks, closed, input, wire, ahead, mode, buf, text, srv >>
      /\ UNCHANGED << willopt, doopt >>
    BY DEF Release, inVars, rdVars, optVars
<1> QED BY <1>1, <1>2, <1>3, <1>4, <1>5 DEF Over

\* Every step keeps the types.
LEMMA TypeNext ==
    ASSUME TelnetAssumption, TypeOK, Mutex, Streams, Next
    PROVE  TypeOK'
<1> USE DEF TypeOK, Modes, Pcs
<1>0. "serve" \in Writers /\ Nobody \notin Writers /\ \A j \in Jobs : j \in Writers
    BY DEF TelnetAssumption, Writers
<1>1. ASSUME NEW chunk \in Chunks, Send(chunk) PROVE TypeOK'
    BY <1>1 DEF Send, rdVars, optVars, wrVars, TelnetAssumption
<1>2. CASE HangUp
    BY <1>2 DEF HangUp, rdVars, optVars, wrVars
<1>3. ASSUME NEW b \in Bytes, ReadData(b) PROVE TypeOK'
    <2>1. Newline \notin {buf'[i] : i \in 1 .. Len(buf')}
        <3>1. b # Newline => Newline \notin {Append(buf, b)[i] : i \in 1 .. Len(Append(buf, b))}
            BY DEF Streams
        <3>2. buf' \in {buf, << >>} \/ (b # Newline /\ buf' = Append(buf, b))
            BY <1>3 DEF ReadData, Keep
        <3>3. CASE buf' = buf
            BY <3>3, Zenon
        <3>4. CASE buf' = << >>
            BY <3>4
        <3>5. CASE b # Newline /\ buf' = Append(buf, b)
            BY <3>1, <3>5, Zenon
        <3> QED BY <3>2, <3>3, <3>4, <3>5
    <2> QED BY <1>3, <2>1 DEF ReadData, ReadByte, Keep, optVars, wrVars
<1>4. ASSUME NEW b \in Bytes, ReadCode(b) PROVE TypeOK'
    BY <1>4 DEF ReadCode, ReadByte, optVars, wrVars, Newline
<1>5. ASSUME NEW b \in Bytes, ReadOption(b) PROVE TypeOK'
    BY <1>5 DEF ReadOption, ReadByte, wrVars
<1>6. ASSUME NEW b \in Bytes, ReadRefusal(b) PROVE TypeOK'
    BY <1>6 DEF ReadRefusal, ReadByte, optVars, wrVars
<1>7. ASSUME NEW b \in Bytes, ReadSubnegotiation(b) PROVE TypeOK'
    BY <1>7 DEF ReadSubnegotiation, ReadByte, optVars, wrVars
<1>8. CASE ReadEnd
    BY <1>8 DEF ReadEnd, inVars, optVars, wrVars
<1>9. ASSUME NEW n \in 1 .. MaxLines, Exec(n) PROVE TypeOK'
    BY <1>0, <1>9 DEF Exec, Reply, Goto, inVars, optVars
<1>10. CASE NextLine
    BY <1>10 DEF NextLine, SrvGoto, inVars, optVars, wrVars
<1>11. CASE Handshake
    BY <1>0, <1>11 DEF Handshake, SrvGoto, inVars, optVars
<1>12. CASE HandshakeOk
    <2>1. \A x \in Writers : ~ (left[x] > 0)
        BY <1>12 DEF HandshakeOk, SrvGoto, Mutex, Writing
    <2> QED BY <1>0, <1>12, <2>1 DEF HandshakeOk, SrvGoto
<1>13. CASE HandshakeFails
    <2>1. \A x \in Writers : ~ (left[x] > 0)
        BY <1>13 DEF HandshakeFails, SrvGoto, Mutex, Writing
    <2> QED BY <1>0, <1>13, <2>1 DEF HandshakeFails, SrvGoto, optVars
<1>14. ASSUME NEW x \in Writers, WriteOption(x) PROVE TypeOK'
    BY <1>0, <1>14 DEF WriteOption, Release, Over, inVars, rdVars, optVars, Mutex
<1>15. ASSUME NEW x \in Writers, ResetOption(x) PROVE TypeOK'
    BY <1>15 DEF ResetOption, Goto, inVars, rdVars
<1>16. ASSUME NEW x \in Writers, PutLine(x) PROVE TypeOK'
    <2>0. cmu = x /\ left[x] > 0 /\ pc[x] \notin {"idle", "end"}
        BY <1>16 DEF PutLine, Mutex, Writing
    <2>1. CASE broken
        <3>1. Release(x) /\ UNCHANGED broken
            BY <1>16, <2>1 DEF PutLine
        <3> QED BY <2>0, <3>1, Released
    <2>2. CASE ~ broken
        <3>1. left' = [left EXCEPT ![x] = @ - 1] /\ left' \in [Writers -> 0 .. MaxLines]
            BY <1>16, <2>0, <2>2 DEF PutLine
        <3>2. pc' \in [Writers -> Pcs]
            BY <1>16, <2>2 DEF PutLine
        <3>3. UNCHANGED << inVars, rdVars, cmu, broken >>
            BY <1>16, <2>2 DEF PutLine
        <3>4. \A y \in Writers : left'[y] > 0 => cmu' = y
            BY <2>0, <3>1, <3>3
        <3> QED BY <3>1, <3>2, <3>3, <3>4 DEF inVars, rdVars
    <2> QED BY <2>1, <2>2
<1>17. ASSUME NEW x \in Writers, Flush(x) PROVE TypeOK'
    <2>1. Release(x) /\ pc[x] \notin {"idle", "end"} /\ broken' \in BOOLEAN
        BY <1>17 DEF Flush
    <2> QED BY <2>1, Released
<1>18. ASSUME NEW j \in Jobs, NEW n \in 1 .. MaxLines, JobReply(j, n) PROVE TypeOK'
    BY <1>0, <1>18 DEF JobReply, Reply, Goto, inVars, rdVars, optVars
<1>19. CASE Terminated
    BY <1>19 DEF Terminated, vars, inVars, rdVars, optVars, wrVars
<1> QED BY <1>1, <1>2, <1>3, <1>4, <1>5, <1>6, <1>7, <1>8, <1>9, <1>10, <1>11,
           <1>12, <1>13, <1>14, <1>15, <1>16, <1>17, <1>18, <1>19
        DEF Next, Read, Serve, Write

\* Every step keeps the lock, and what is left to write is what the writer says.
LEMMA MutexNext ==
    ASSUME TelnetAssumption, TypeOK, Mutex, Next
    PROVE  Mutex'
<1> USE DEF TypeOK, Pcs, Mutex, Writing
<1>0. "serve" \in Writers /\ Nobody \notin Writers /\ \A j \in Jobs : j \in Writers /\ j # "serve"
    BY DEF TelnetAssumption, Writers
<1>1. ASSUME NEW b \in Bytes, Read(b) PROVE Mutex'
    BY <1>1 DEF Read, ReadData, ReadCode, ReadOption, ReadRefusal, ReadSubnegotiation,
                ReadByte, Keep, wrVars
<1>2. CASE ReadEnd
    BY <1>2 DEF ReadEnd, wrVars
<1>3. ASSUME NEW n \in 1 .. MaxLines, Exec(n) PROVE Mutex'
    BY <1>0, <1>3 DEF Exec, Reply, Goto
<1>4. CASE NextLine
    BY <1>4 DEF NextLine, SrvGoto, wrVars
<1>5. CASE Handshake
    BY <1>0, <1>5 DEF Handshake, SrvGoto
<1>6. CASE HandshakeOk
    BY <1>0, <1>6 DEF HandshakeOk, SrvGoto
<1>7. CASE HandshakeFails
    BY <1>0, <1>7 DEF HandshakeFails, SrvGoto
<1>8. ASSUME NEW x \in Writers, WriteOption(x) PROVE Mutex'
    BY <1>0, <1>8 DEF WriteOption, Release, Over, rdVars
<1>9. ASSUME NEW x \in Writers, ResetOption(x) PROVE Mutex'
    <2>1. CASE Goto(x, "reset", "put")
        BY <1>9, <2>1 DEF ResetOption, Goto, rdVars
    <2>2. CASE Goto(x, "freset", "send")
        BY <1>9, <2>2 DEF ResetOption, Goto, rdVars
    <2> QED BY <1>9, <2>1, <2>2 DEF ResetOption
<1>10. ASSUME NEW x \in Writers, PutLine(x) PROVE Mutex'
    BY <1>0, <1>10 DEF PutLine, Release, Over, rdVars
<1>11. ASSUME NEW x \in Writers, Flush(x) PROVE Mutex'
    BY <1>0, <1>11 DEF Flush, Release, Over, rdVars
<1>12. ASSUME NEW j \in Jobs, NEW n \in 1 .. MaxLines, JobReply(j, n) PROVE Mutex'
    BY <1>0, <1>12 DEF JobReply, Reply, Goto, rdVars
<1>13. CASE (\E chunk \in Chunks : Send(chunk)) \/ HangUp \/ Terminated
    BY <1>13 DEF Send, HangUp, Terminated, vars, rdVars, wrVars
<1> QED BY <1>1, <1>2, <1>3, <1>4, <1>5, <1>6, <1>7, <1>8, <1>9, <1>10, <1>11,
           <1>12, <1>13 DEF Next, Serve, Write

\* Every step keeps bytes in the buffers of bytes and entries in those of entries.
LEMMA StreamsNext ==
    ASSUME TelnetAssumption, TypeOK, Mutex, Streams, Next
    PROVE  Streams'
<1> USE DEF Streams
<1>0. /\ "serve" \in Writers /\ \A j \in Jobs : j \in Writers
      /\ Bytes \subseteq Byte /\ Chunks \subseteq Seq(Byte) /\ << >> \in Seq(Byte)
      /\ << >> \in Seq(Entry)
    BY BytesAre DEF Writers
<1>1. ASSUME NEW chunk \in Chunks, Send(chunk) PROVE Streams'
    BY <1>0, <1>1 DEF Send, rdVars, optVars, wrVars
<1>2. ASSUME NEW b \in Bytes, ReadByte(b)
      PROVE  ahead' \in Seq(Byte) /\ wire' \in Seq(Byte) /\ b \in Byte
    <2>1. CASE ahead # << >>
        <3>1. Tail(ahead) \in Seq(Byte)
            BY <2>1
        <3> QED BY <1>0, <1>2, <2>1, <3>1 DEF ReadByte
    <2>2. CASE ahead = << >>
        <3>1. wire # << >> => Tail(wire) \in Seq(Byte)
            OBVIOUS
        <3> QED BY <1>0, <1>2, <2>2, <3>1 DEF ReadByte
    <2> QED BY <2>1, <2>2
<1>3. ASSUME NEW b \in Bytes, ReadData(b) PROVE Streams'
    <2>1. ahead' \in Seq(Byte) /\ wire' \in Seq(Byte) /\ b \in Byte
        BY <1>2, <1>3 DEF ReadData
    <2>2. Append(buf, b) \in Seq(Byte) /\ text \o Append(buf, b) \in Seq(Byte)
        BY <2>1
    <2>3. buf' \in Seq(Byte) /\ text' \in Seq(Byte)
        BY <1>0, <1>3, <2>2 DEF ReadData, Keep
    <2> QED BY <1>3, <2>1, <2>3 DEF ReadData, ReadByte, optVars, wrVars
<1>4. ASSUME NEW b \in Bytes, ReadCode(b) PROVE Streams'
    BY <1>2, <1>4 DEF ReadCode, ReadByte, optVars, wrVars
<1>5. ASSUME NEW b \in Bytes, ReadOption(b) PROVE Streams'
    BY <1>2, <1>5 DEF ReadOption, ReadByte, wrVars
<1>6. ASSUME NEW b \in Bytes, ReadRefusal(b) \/ ReadSubnegotiation(b) PROVE Streams'
    BY <1>2, <1>6 DEF ReadRefusal, ReadSubnegotiation, ReadByte, optVars, wrVars
<1>7. CASE ReadEnd
    <2>1. text \o buf \in Seq(Byte)
        OBVIOUS
    <2>2. buf' \in Seq(Byte) /\ text' \in Seq(Byte)
        BY <1>0, <1>7, <2>1 DEF ReadEnd
    <2> QED BY <1>7, <2>2 DEF ReadEnd, inVars, optVars, wrVars
<1>8. CASE HandshakeOk
    BY <1>0, <1>8 DEF HandshakeOk, NewReader
<1>9. CASE HandshakeFails
    <2>1. PICK n \in 0 .. Len(wire) :
             /\ wire' = SubSeq(wire, n + 1, Len(wire))
             /\ input' = SubSeq(input, 1, Len(input) - Len(wire)) \o wire'
        BY <1>9 DEF HandshakeFails
    <2>2. wire' \in Seq(Byte)
        BY <2>1
    <2>3. input' \in Seq(Byte)
        <3>1. Len(input) \in Nat /\ Len(wire) \in Nat
            OBVIOUS
        <3>2. SubSeq(input, 1, Len(input) - Len(wire)) \in Seq(Byte)
            BY <3>1
        <3> QED BY <2>1, <2>2, <3>2
    <2> QED BY <1>9, <2>2, <2>3 DEF HandshakeFails, optVars
<1>10. ASSUME NEW x \in Writers, WriteOption(x) PROVE Streams'
    <2>1. Answers \in Seq(Entry)
        BY AnswersAre
    <2>2. w \o Answers \in Seq(Entry)
        BY <2>1
    <2>3. w' \in Seq(Entry)
        BY <1>10, <2>2 DEF WriteOption
    <2>4. UNCHANGED << inVars, rdVars, optVars, out >>
        BY <1>10 DEF WriteOption, Release
    <2> QED BY <2>3, <2>4 DEF inVars, rdVars, optVars
<1>11. ASSUME NEW x \in Writers, ResetOption(x) PROVE Streams'
    BY <1>0, <1>11 DEF ResetOption, inVars, rdVars
<1>12. ASSUME NEW x \in Writers, PutLine(x) PROVE Streams'
    <2>1. ~ broken => << x, left[x] - 1 >> \in Entry
        BY <1>12 DEF PutLine, TypeOK, Mutex, Writing, Entry
    <2>2. w' \in Seq(Entry)
        <3>1. CASE broken
            BY <1>12, <3>1 DEF PutLine
        <3>2. CASE ~ broken
            <4> DEFINE e == << x, left[x] - 1 >>
            <4>1. e \in Entry
                BY <2>1, <3>2
            <4> HIDE DEF e
            <4>2. Append(w, e) \in Seq(Entry)
                BY <4>1
            <4> QED BY <1>12, <3>2, <4>2 DEF PutLine, e
        <3> QED BY <3>1, <3>2
    <2>3. UNCHANGED << inVars, rdVars, optVars, out >>
        BY <1>12 DEF PutLine, Release
    <2> QED BY <2>2, <2>3 DEF inVars, rdVars, optVars
<1>13. ASSUME NEW x \in Writers, Flush(x) PROVE Streams'
    <2>1. out \o w \in Seq(Entry)
        OBVIOUS
    <2>2. w' \in Seq(Entry) /\ out' \in Seq(Entry)
        BY <1>0, <1>13, <2>1 DEF Flush
    <2>3. UNCHANGED << inVars, rdVars, optVars >>
        BY <1>13 DEF Flush, Release
    <2> QED BY <2>2, <2>3 DEF inVars, rdVars, optVars
<1>14. CASE \/ HangUp \/ NextLine \/ Handshake \/ Terminated
            \/ \E n \in 1 .. MaxLines : Exec(n)
            \/ \E j \in Jobs, n \in 1 .. MaxLines : JobReply(j, n)
    BY <1>14 DEF HangUp, NextLine, Handshake, Terminated, Exec, JobReply, Reply,
                 vars, inVars, rdVars, optVars, wrVars
<1> QED BY <1>1, <1>3, <1>4, <1>5, <1>6, <1>7, <1>8, <1>9, <1>10, <1>11, <1>12,
           <1>13, <1>14 DEF Next, Read, Serve, Write

-----------------------------------------------------------------------------
(* Replies *)

Lines == Select(out \o w, Writers)

\* The lines are entries.
LEMMA LinesType ==
    ASSUME Streams
    PROVE  out \o w \in Seq(Entry) /\ Lines \in Seq(Entry) /\ Len(Lines) \in Nat
<1>1. out \o w \in Seq(Entry)
    BY DEF Streams
<1>2. Lines \in Seq(Entry)
    BY <1>1, SelectType DEF Lines
<1> QED BY <1>1, <1>2

\* The same lines, and whoever was writing a reply still is.
LEMMA SameLines ==
    ASSUME RepliesWhole, Replied, Lines' = Lines,
           ~ broken' => /\ ~ broken
                        /\ \A x \in Writers : pc[x] \in Writing =>
                              pc'[x] \in Writing /\ left'[x] = left[x]
    PROVE  RepliesWhole' /\ Replied'
<1>1. RepliesWhole'
    BY DEF RepliesWhole, Lines
<1>2. ASSUME Lines # << >>, Lines[Len(Lines)][2] > 0, ~ broken'
      PROVE  \E x \in Writers : Lines[Len(Lines)] = << x, left'[x] >> /\ pc'[x] \in Writing
    <2>1. PICK x \in Writers : Lines[Len(Lines)] = << x, left[x] >> /\ pc[x] \in Writing
        BY <1>2 DEF Replied, Lines
    <2>2. pc'[x] \in Writing /\ left'[x] = left[x]
        BY <1>2, <2>1
    <2> QED BY <2>1, <2>2
<1>3. Replied'
    BY <1>2 DEF Replied, Lines
<1> QED BY <1>1, <1>3

\* A line more, which goes on where the last one ends.
LEMMA AnotherLine ==
    ASSUME Streams, RepliesWhole, NEW x \in Writers, NEW n \in Nat, << x, n >> \in Entry,
           Lines' = Append(Lines, << x, n >>),
           (Lines # << >> /\ Lines[Len(Lines)][2] > 0) => Lines[Len(Lines)] = << x, n + 1 >>,
           n > 0 => pc'[x] \in Writing /\ left'[x] = n
    PROVE  RepliesWhole' /\ Replied'
<1> DEFINE L == Lines
           N == Lines'
           e == << x, n >>
<1>1. L \in Seq(Entry) /\ Len(L) \in Nat
    BY LinesType
<1>2. e \in Entry /\ e[1] = x /\ e[2] = n /\ N = Append(L, e)
    OBVIOUS
<1>3. \A i \in 1 .. Len(L) - 1 : L[i][2] > 0 => L[i + 1] = << L[i][1], L[i][2] - 1 >>
    BY DEF RepliesWhole, Lines
<1>4. (L # << >> /\ L[Len(L)][2] > 0) => L[Len(L)] = << x, n + 1 >>
    OBVIOUS
<1> HIDE DEF L, N, e
<1>5. /\ Len(N) = Len(L) + 1 /\ N[Len(N)] = e
      /\ \A i \in 1 .. Len(L) : N[i] = L[i]
    BY <1>1, <1>2
<1>6. ASSUME NEW i \in 1 .. Len(N) - 1, N[i][2] > 0
      PROVE  N[i + 1] = << N[i][1], N[i][2] - 1 >>
    <2>1. N[i] = L[i] /\ i \in 1 .. Len(L)
        BY <1>1, <1>5
    <2>2. CASE i < Len(L)
        <3>1. i + 1 \in 1 .. Len(L) /\ i \in 1 .. Len(L) - 1
            BY <1>1, <2>1, <2>2
        <3> QED BY <1>3, <1>5, <1>6, <2>1, <3>1
    <2>3. CASE i = Len(L)
        <3>1. L # << >> /\ N[i + 1] = e
            BY <1>1, <1>5, <2>1, <2>3
        <3>2. L[i] = << x, n + 1 >>
            BY <1>4, <1>6, <2>1, <2>3, <3>1
        <3>3. << N[i][1], N[i][2] - 1 >> = << x, n >>
            <4>1. N[i][1] = x /\ N[i][2] = n + 1
                BY <2>1, <3>2
            <4> DEFINE m == N[i][2]
            <4> HIDE DEF m
            <4>2. m = n + 1
                BY <4>1, Zenon DEF m
            <4>3. m - 1 = n
                BY <4>2
            <4> QED BY <4>1, <4>3, Zenon DEF m
        <3> QED BY <3>1, <3>3 DEF e
    <2> QED BY <1>1, <2>1, <2>2, <2>3
<1>7. N[Len(N)][2] > 0 =>
         \E y \in Writers : N[Len(N)] = << y, left'[y] >> /\ pc'[y] \in Writing
    BY <1>2, <1>5 DEF e
<1> HIDE DEF N
<1>8. RepliesWhole'
    BY <1>6 DEF RepliesWhole, N, Lines
<1>9. Replied'
    BY <1>7 DEF Replied, N, Lines
<1> QED BY <1>8, <1>9

\* Every step keeps the replies whole.
LEMMA RepliedNext ==
    ASSUME TelnetAssumption, TypeOK, Mutex, Streams, RepliesWhole, Replied, Next
    PROVE  RepliesWhole' /\ Replied'
<1>0. /\ "serve" \in Writers /\ Nobody \notin Writers /\ \A j \in Jobs : j \in Writers
      /\ \A x \in Writers : Over(x) \notin Writing
    BY DEF TelnetAssumption, Writers, Over, Writing
<1>1. CASE UNCHANGED << pc, left, w, out, broken >>
    <2>1. Lines' = Lines
        BY <1>1 DEF Lines
    <2> QED BY <1>1, <2>1, SameLines
<1>2. CASE HandshakeOk
    <2>1. w' = << >> /\ out' = << >>
        BY <1>2 DEF HandshakeOk
    <2>2. Lines' = << >>
        <3>1. << >> \o << >> = << >>
            OBVIOUS
        <3> QED BY <2>1, <3>1, SelectNothing DEF Lines
    <2>3. Len(<< >>) - 1 = -1
        OBVIOUS
    <2> QED BY <2>2, <2>3 DEF RepliesWhole, Replied, Lines
<1>3. ASSUME NEW x \in Writers, NEW n \in 1 .. MaxLines, Reply(x, n)
      PROVE  RepliesWhole' /\ Replied'
    <2>1. Lines' = Lines /\ broken' = broken
        BY <1>3 DEF Reply, Lines
    <2>2. \A y \in Writers : pc[y] \in Writing => pc'[y] = pc[y] /\ left'[y] = left[y]
        BY <1>3 DEF Reply, Goto, TypeOK, Writing
    <2> QED BY <2>1, <2>2, SameLines
<1>4. ASSUME NEW x \in Writers, WriteOption(x) PROVE RepliesWhole' /\ Replied'
    <2>1. CASE broken /\ Answers # << >>
        <3>1. Lines' = Lines /\ broken'
            BY <1>4, <2>1 DEF WriteOption, Lines
        <3> QED BY <3>1, SameLines
    <2>2. CASE ~ (broken /\ Answers # << >>)
        <3>1. /\ pc' = [pc EXCEPT ![x] = IF @ = "write" THEN "reset" ELSE "freset"]
              /\ w' = w \o Answers /\ UNCHANGED << left, out, broken >>
              /\ pc[x] \in {"write", "flush"}
            BY <1>4, <2>2 DEF WriteOption
        <3>2. Answers \in Seq(Entry) /\ Select(Answers, Writers) = << >>
            BY AnswersAre DEF Streams
        <3>3. out \o (w \o Answers) = (out \o w) \o Answers
            <4>1. out \in Seq(Entry) /\ w \in Seq(Entry) /\ Answers \in Seq(Entry)
                BY <3>2 DEF Streams
            <4> QED BY <4>1
        <3>4. Select((out \o w) \o Answers, Writers) = Lines \o << >>
            <4> DEFINE o == out \o w
            <4>1. o \in Seq(Entry)
                BY LinesType
            <4> HIDE DEF o
            <4>2. \A K : Select(o \o Answers, K) = Select(o, K) \o Select(Answers, K)
                BY <3>2, <4>1, SelectConcat, Zenon
            <4> QED BY <3>2, <4>2, Zenon DEF o, Lines
        <3>5. Lines \o << >> = Lines
            BY LinesType
        <3>6. Lines' = Lines
            BY <3>1, <3>3, <3>4, <3>5, Zenon DEF Lines
        <3>7. \A y \in Writers : pc[y] \in Writing => pc'[y] \in Writing /\ left'[y] = left[y]
            BY <3>1 DEF TypeOK, Writing
        <3> QED BY <3>1, <3>6, <3>7, SameLines
    <2> QED BY <2>1, <2>2
<1>5. ASSUME NEW x \in Writers, ResetOption(x) PROVE RepliesWhole' /\ Replied'
    <2>1. Lines' = Lines /\ UNCHANGED << left, broken >>
        BY <1>5 DEF ResetOption, Lines
    <2>2. \A y \in Writers : pc[y] \in Writing => pc'[y] \in Writing
        <3>1. CASE Goto(x, "reset", "put")
            BY <3>1 DEF Goto, TypeOK, Writing
        <3>2. CASE Goto(x, "freset", "send")
            BY <3>2 DEF Goto, TypeOK, Writing
        <3> QED BY <1>5, <3>1, <3>2 DEF ResetOption
    <2> QED BY <2>1, <2>2, SameLines
<1>6. ASSUME NEW x \in Writers, PutLine(x) PROVE RepliesWhole' /\ Replied'
    <2>1. CASE broken
        <3>1. Lines' = Lines /\ broken'
            BY <1>6, <2>1 DEF PutLine, Lines
        <3> QED BY <3>1, SameLines
    <2>2. CASE ~ broken
        <3> DEFINE n == left[x] - 1
                   e == << x, n >>
        <3>1. /\ w' = Append(w, e) /\ out' = out
              /\ left' = [left EXCEPT ![x] = @ - 1]
              /\ pc' = [pc EXCEPT ![x] = IF left[x] = 1 THEN "flush" ELSE "write"]
              /\ pc[x] = "put"
            BY <1>6, <2>2 DEF PutLine
        <3>2. left[x] \in 1 .. MaxLines /\ cmu = x
            BY <3>1 DEF TypeOK, Mutex, Writing
        <3>3. n \in 0 .. MaxLines /\ n \in Nat /\ left[x] = n + 1
            BY <3>2 DEF TelnetAssumption
        <3>4. << e >> \in Seq(Entry) /\ Select(<< e >>, Writers) = << e >> /\ e \in Entry
            BY <3>3, LineIs DEF Entry
        <3> HIDE DEF e
        <3>5. Lines' = Append(Lines, e)
            <4>1. out \o Append(w, e) = (out \o w) \o << e >>
                BY <3>4 DEF Streams
            <4>2. Select((out \o w) \o << e >>, Writers) = Lines \o << e >>
                <5> DEFINE o == out \o w
                <5>1. o \in Seq(Entry)
                    BY LinesType
                <5> HIDE DEF o
                <5>2. \A K : Select(o \o << e >>, K) = Select(o, K) \o Select(<< e >>, K)
                    BY <3>4, <5>1, SelectConcat, Zenon
                <5> QED BY <3>4, <5>2, Zenon DEF o, Lines
            <4>3. Lines \o << e >> = Append(Lines, e)
                BY <3>4, LinesType
            <4> QED BY <3>1, <4>1, <4>2, <4>3, Zenon DEF Lines
        <3>6. (Lines # << >> /\ Lines[Len(Lines)][2] > 0) => Lines[Len(Lines)] = << x, n + 1 >>
            <4>1. \A y \in Writers : pc[y] \in Writing => y = x
                BY <3>2 DEF Mutex, Writing
            <4> QED BY <2>2, <3>3, <4>1 DEF Replied, Lines
        <3>7. n > 0 => pc'[x] \in Writing /\ left'[x] = n
            BY <3>1, <3>2, <3>3 DEF TypeOK, Writing
        <3> QED BY <3>3, <3>4, <3>5, <3>6, <3>7, AnotherLine DEF e
    <2> QED BY <2>1, <2>2
<1>7. ASSUME NEW x \in Writers, Flush(x) PROVE RepliesWhole' /\ Replied'
    <2>1. Lines' = Lines
        <3>1. CASE out' = out \o w /\ w' = << >>
            <4>1. (out \o w) \o << >> = out \o w
                BY LinesType
            <4> QED BY <3>1, <4>1, Zenon DEF Lines
        <3>2. CASE UNCHANGED << out, w >>
            BY <3>2 DEF Lines
        <3> QED BY <1>7, <3>1, <3>2 DEF Flush
    <2>2. CASE broken'
        BY <2>1, <2>2, SameLines
    <2>3. CASE ~ broken'
        <3>1. ~ broken /\ pc[x] = "send"
            BY <1>7, <2>3 DEF Flush
        <3>2. \A y \in Writers : pc[y] \notin Writing
            BY <3>1 DEF Mutex, Writing
        <3> QED BY <2>1, <3>1, <3>2, SameLines
    <2> QED BY <2>2, <2>3
<1>8. CASE \/ \E chunk \in Chunks : Send(chunk)
           \/ HangUp \/ ReadEnd \/ NextLine \/ Handshake \/ HandshakeFails \/ Terminated
           \/ \E b \in Bytes : Read(b)
    <2>1. UNCHANGED << pc, left, w, out, broken >>
        BY <1>8 DEF Send, HangUp, ReadEnd, NextLine, Handshake, HandshakeFails, Terminated,
                    Read, ReadData, ReadCode, ReadOption, ReadRefusal, ReadSubnegotiation,
                    ReadByte, vars, wrVars
    <2> QED BY <1>1, <2>1
<1> QED BY <1>0, <1>2, <1>3, <1>4, <1>5, <1>6, <1>7, <1>8
        DEF Next, Serve, Write, Exec, JobReply

-----------------------------------------------------------------------------
(* What is read *)

\* An item of two or three bytes, byte by byte.
LEMMA Appends ==
    \A x, b : Append(<< Iac >>, b) = << Iac, b >> /\ Append(<< Iac, x >>, b) = << Iac, x, b >>
<1> SUFFICES ASSUME NEW x, NEW b
             PROVE  /\ Append(<< Iac >>, b) = << Iac, b >>
                    /\ Append(<< Iac, x >>, b) = << Iac, x, b >>
    OBVIOUS
<1> DEFINE S == {Iac, x, b}
<1>1. /\ << Iac >> \in Seq(S) /\ << Iac, x >> \in Seq(S) /\ b \in S
      /\ << Iac, b >> \in Seq(S) /\ << Iac, x, b >> \in Seq(S)
    OBVIOUS
<1> HIDE DEF S
<1>2. Append(<< Iac >>, b) = << Iac, b >>
    <2> DEFINE p == Append(<< Iac >>, b)
               q == << Iac, b >>
    <2>1. p \in Seq(S) /\ q \in Seq(S) /\ Len(p) = 2 /\ Len(q) = 2
        BY <1>1
    <2>2. p[1] = q[1] /\ p[2] = q[2]
        OBVIOUS
    <2> HIDE DEF p, q
    <2>3. p = q
        BY <2>1, <2>2
    <2> QED BY <2>3 DEF p, q
<1>3. Append(<< Iac, x >>, b) = << Iac, x, b >>
    <2> DEFINE p == Append(<< Iac, x >>, b)
               q == << Iac, x, b >>
    <2>1. p \in Seq(S) /\ q \in Seq(S) /\ Len(p) = 3 /\ Len(q) = 3
        BY <1>1
    <2>2. p[1] = q[1] /\ p[2] = q[2] /\ p[3] = q[3]
        OBVIOUS
    <2> HIDE DEF p, q
    <2>3. p = q
        BY <2>1, <2>2
    <2> QED BY <2>3 DEF p, q
<1> QED BY <1>2, <1>3

\* A byte that is taken from a sequence was its first.
LEMMA ByteTaken ==
    \A f \in Seq(Byte) : f # << >> =>
        /\ << Head(f) >> \in Seq(Byte) /\ Tail(f) \in Seq(Byte)
        /\ f = << Head(f) >> \o Tail(f)
OBVIOUS

\* It becomes the last of the bytes of an item ...
LEMMA ByteAppended ==
    \A u \in Seq(Byte), b \in Byte : Append(u, b) \in Seq(Byte) /\ Append(u, b) # << >>
<1> SUFFICES ASSUME NEW u \in Seq(Byte), NEW b \in Byte
             PROVE  Append(u, b) \in Seq(Byte) /\ Append(u, b) # << >>
    OBVIOUS
<1>1. Append(u, b) \in Seq(Byte)
    OBVIOUS
<1>2. Len(Append(u, b)) = Len(u) + 1 /\ Len(u) \in Nat /\ Len(<< >>) = 0
    OBVIOUS
<1>3. Len(Append(u, b)) # Len(<< >>)
    BY <1>2
<1> QED BY <1>1, <1>3, Zenon

\* ... and of all that was read.
LEMMA ByteMoved ==
    \A c, u \in Seq(Byte), b \in Byte : (c \o u) \o << b >> = c \o Append(u, b)
<1> SUFFICES ASSUME NEW c \in Seq(Byte), NEW u \in Seq(Byte), NEW b \in Byte
             PROVE  (c \o u) \o << b >> = c \o Append(u, b)
    OBVIOUS
<1>1. << b >> \in Seq(Byte) /\ Append(u, b) = u \o << b >>
    OBVIOUS
<1>2. (c \o u) \o << b >> = c \o (u \o << b >>)
    BY <1>1
<1> QED BY <1>1, <1>2, Zenon

\* ReadByte takes the next byte of the stream, from where it may be.
LEMMA ByteRead ==
    ASSUME TelnetAssumption, Streams, NEW b \in Bytes, ReadByte(b),
           NEW c \in Seq(Byte), NEW u \in Seq(Byte), input = (c \o u) \o (ahead \o wire)
    PROVE  /\ b \in Byte /\ Append(u, b) \in Seq(Byte) /\ Append(u, b) # << >>
           /\ input' = (c \o Append(u, b)) \o (ahead' \o wire')
<1>0. b \in Byte
    BY BytesAre
<1>1. /\ ahead' \in Seq(Byte) /\ wire' \in Seq(Byte)
      /\ ahead \o wire = << b >> \o (ahead' \o wire')
    <2>1. IF ahead # << >> THEN b = Head(ahead) /\ ahead' = Tail(ahead) /\ wire' = wire
                           ELSE wire # << >> /\ b = Head(wire) /\ ahead' = Tail(wire)
                                /\ wire' = << >>
        BY DEF ReadByte
    <2>2. ahead \in Seq(Byte) /\ wire \in Seq(Byte)
        BY DEF Streams
    <2>3. CASE ahead # << >>
        <3> DEFINE y == << b >>
                   f == Tail(ahead)
        <3>1. y \in Seq(Byte) /\ f \in Seq(Byte) /\ ahead = y \o f
            BY <2>1, <2>2, <2>3, ByteTaken, Zenon
        <3> HIDE DEF y, f
        <3>2. (y \o f) \o wire = y \o (f \o wire)
            <4>1. y \in Seq(Byte) /\ f \in Seq(Byte) /\ wire \in Seq(Byte)
                BY <2>2, <3>1
            <4> QED BY <4>1
        <3>3. ahead' = f /\ wire' = wire
            BY <2>1, <2>3, Zenon DEF f
        <3> QED BY <2>2, <3>1, <3>2, <3>3, Zenon DEF y
    <2>4. CASE ahead = << >>
        <3> DEFINE y == << b >>
                   f == Tail(wire)
        <3>1. wire # << >> /\ b = Head(wire) /\ ahead' = f /\ wire' = << >>
            BY <2>1, <2>4, Zenon
        <3>2. f \in Seq(Byte) /\ wire = y \o f
            BY <2>2, <3>1, ByteTaken, Zenon
        <3> HIDE DEF y, f
        <3>3. f \o << >> = f /\ << >> \o wire = wire /\ << >> \in Seq(Byte)
            BY <2>2, <3>2
        <3> QED BY <2>4, <3>1, <3>2, <3>3, Zenon DEF y
    <2> QED BY <2>3, <2>4
<1> DEFINE r == ahead' \o wire'
           x == c \o u
           y == << b >>
<1>2. r \in Seq(Byte) /\ x \in Seq(Byte) /\ y \in Seq(Byte)
    BY <1>0, <1>1
<1>3. x \o y = c \o Append(u, b)
    BY <1>0, ByteMoved, Zenon
<1> HIDE DEF r, x, y
<1>4. input' = input
    BY DEF ReadByte
<1>5. (x \o y) \o r = x \o (y \o r)
    BY <1>2
<1>6. input' = (c \o Append(u, b)) \o (ahead' \o wire')
    <2>1. input = x \o (y \o r)
        BY <1>1, Zenon DEF r, x, y
    <2>2. input = (c \o Append(u, b)) \o r
        BY <1>3, <1>5, <2>1, Zenon
    <2> QED BY <1>4, <2>2, Zenon DEF r
<1>7. Append(u, b) \in Seq(Byte) /\ Append(u, b) # << >>
    BY <1>0, ByteAppended, Zenon
<1> QED BY <1>0, <1>6, <1>7

\* It makes the item longer ...
LEMMA PartRead ==
    ASSUME TelnetAssumption, Streams, NEW b \in Bytes, ReadByte(b),
           NEW c \in Seq(Byte), NEW u \in Seq(Byte), ReadTo(c, u),
           Partial(mode', Append(u, b))
    PROVE  Append(u, b) \in Seq(Byte) /\ ReadTo(c, Append(u, b))'
<1>1. Append(u, b) \in Seq(Byte) /\ input' = (c \o Append(u, b)) \o (ahead' \o wire')
    BY ByteRead DEF ReadTo
<1> QED BY <1>1 DEF ReadTo

\* ... or completes it.
LEMMA ItemRead ==
    ASSUME TelnetAssumption, Streams, NEW b \in Bytes, ReadByte(b),
           NEW c \in Seq(Byte), NEW u \in Seq(Byte), ReadTo(c, u),
           Whole(Append(u, b)), mode' = "data"
    PROVE  LET v == c \o Append(u, b)
           IN  /\ v \in Seq(Byte) /\ ReadTo(v, << >>)'
               /\ \A kind \in Kinds :
                     Items(v, kind) = Items(c, kind) \o Items(Append(u, b), kind)
<1> DEFINE x == Append(u, b)
           v == c \o x
<1>1. x \in Seq(Byte) /\ input' = (c \o x) \o (ahead' \o wire')
    BY ByteRead DEF ReadTo
<1> HIDE DEF x
<1>2. v \in Seq(Byte) /\ v \o << >> = v
    BY <1>1
<1>3. Whole(v) /\ \A kind \in Kinds : Items(v, kind) = Items(c, kind) \o Items(x, kind)
    BY <1>1, WholeConcat DEF ReadTo, x
<1>4. input' = (v \o << >>) \o (ahead' \o wire')
    BY <1>1, <1>2, Zenon
<1> HIDE DEF v
<1>5. Partial(mode', << >>)
    BY DEF Partial
<1>6. ReadTo(v, << >>)'
    BY <1>3, <1>4, <1>5 DEF ReadTo
<1> QED BY <1>2, <1>3, <1>6 DEF v, x

\* An item that asks for nothing, and one that is no text.
LEMMA NothingMore ==
    ASSUME NEW c \in Seq(Byte), NEW v, NEW x, NEW kind \in Kinds,
           Items(v, kind) = Items(c, kind) \o Items(x, kind), Items(x, kind) = << >>
    PROVE  Items(v, kind) = Items(c, kind)
<1>1. Items(c, kind) \in Seq(Byte)
    BY ItemsType
<1>2. Items(c, kind) \o << >> = Items(c, kind)
    BY <1>1
<1> QED BY <1>2, Zenon

\* The requests and their refusals are the same.
LEMMA ToldSame ==
    ASSUME NEW c, NEW v, Told(c), UNCHANGED << willopt, doopt, pc, w, out >>,
           Items(v, Will) = Items(c, Will), Items(v, Do) = Items(c, Do)
    PROVE  Told(v)'
<1>1. Locked' = Locked
    BY DEF Locked
<1>2. Pending(willopt)' = Pending(willopt) /\ Pending(doopt)' = Pending(doopt)
    BY <1>1 DEF Pending
<1>3. /\ Refused(out \o w, "WONT")' = Refused(out \o w, "WONT")
      /\ Refused(out \o w, "DONT")' = Refused(out \o w, "DONT")
    OBVIOUS
<1> QED BY <1>2, <1>3, Zenon DEF Told

\* A byte of a telnet command that is not complete.
LEMMA PartDecoded ==
    ASSUME TelnetAssumption, Streams, NEW b \in Bytes, ReadByte(b),
           NEW c \in Seq(Byte), NEW u \in Seq(Byte), ReadTo(c, u), Kept(c), Told(c),
           Partial(mode', Append(u, b)), UNCHANGED << buf, text, willopt, doopt >>
    PROVE  Decoding'
<1>1. Append(u, b) \in Seq(Byte) /\ ReadTo(c, Append(u, b))'
    BY PartRead
<1>2. Kept(c)'
    BY DEF Kept
<1>3. Told(c)'
    BY ToldSame DEF ReadByte, wrVars
<1> QED BY <1>1, <1>2, <1>3 DEF Decoding

\* The last byte of an item that asks for nothing.
LEMMA ItemDecoded ==
    ASSUME TelnetAssumption, Streams, NEW b \in Bytes, ReadByte(b),
           NEW c \in Seq(Byte), NEW u \in Seq(Byte), ReadTo(c, u), Kept(c), Told(c),
           Whole(Append(u, b)), mode' = "data", UNCHANGED << willopt, doopt >>,
           \A kind \in {Will, Do} : Items(Append(u, b), kind) = << >>,
           text' \o buf' = (text \o buf) \o Items(Append(u, b), "text")
    PROVE  Decoding'
<1> DEFINE x == Append(u, b)
           v == c \o x
<1>1. /\ v \in Seq(Byte) /\ ReadTo(v, << >>)'
      /\ \A kind \in Kinds : Items(v, kind) = Items(c, kind) \o Items(x, kind)
    BY ItemRead
<1>2. \A kind \in {Will, Do} : Items(x, kind) = << >>
    OBVIOUS
<1>3. text' \o buf' = (text \o buf) \o Items(x, "text")
    OBVIOUS
<1> HIDE DEF v, x
<1>4. Kept(v)'
    BY <1>1, <1>3, Zenon DEF Kept, Kinds
<1>5. Items(v, Will) = Items(c, Will) /\ Items(v, Do) = Items(c, Do)
    BY <1>1, <1>2, NothingMore DEF Kinds
<1>6. Told(v)'
    BY <1>5, ToldSame DEF ReadByte, wrVars
<1>7. << >> \in Seq(Byte)
    OBVIOUS
<1> QED BY <1>1, <1>4, <1>6, <1>7 DEF Decoding

\* Read in the text, or at an IAC (telnet.go, Read).
LEMMA DataDecoded ==
    ASSUME TelnetAssumption, Streams, Decoding, NEW b \in Bytes, ReadData(b)
    PROVE  Decoding'
<1>1. PICK c, u \in Seq(Byte) : ReadTo(c, u) /\ Kept(c) /\ Told(c)
    BY DEF Decoding
<1>2. ReadByte(b) /\ UNCHANGED << willopt, doopt >> /\ b \in Byte
    BY BytesAre DEF ReadData, optVars
<1>3. u = << >> /\ Append(u, b) = << b >>
    BY <1>1 DEF ReadData, ReadTo, Partial
<1>4. CASE b = Iac
    <2>1. mode' = "iac" /\ UNCHANGED << buf, text >>
        BY <1>4 DEF ReadData
    <2>2. Partial(mode', Append(u, b))
        BY <1>3, <1>4, <2>1 DEF Partial
    <2> QED BY <1>1, <1>2, <2>1, <2>2, PartDecoded
<1>5. CASE b # Iac
    <2>1. mode' = "data" /\ Keep(b)
        BY <1>5 DEF ReadData
    <2>2. /\ Whole(<< b >>) /\ Items(<< b >>, "text") = << b >>
          /\ \A kind \in {Will, Do} : Items(<< b >>, kind) = << >>
        BY <1>2, <1>5, WholeText DEF Kinds
    <2>3. text' \o buf' = (text \o buf) \o << b >>
        <3>1. text \o Append(buf, b) = (text \o buf) \o << b >>
            <4>1. text \in Seq(Byte) /\ buf \in Seq(Byte) /\ b \in Byte
                BY <1>2 DEF Streams
            <4>2. (text \o buf) \o << b >> = text \o Append(buf, b)
                BY <4>1, ByteMoved, Zenon
            <4> QED BY <4>2, Zenon
        <3>2. CASE b = Newline
            <4>1. text \o Append(buf, b) \in Seq(Byte)
                BY <1>2 DEF Streams
            <4>2. (text \o Append(buf, b)) \o << >> = text \o Append(buf, b)
                BY <4>1
            <4> QED BY <2>1, <3>1, <3>2, <4>2, Zenon DEF Keep
        <3>3. CASE b # Newline
            BY <2>1, <3>1, <3>3, Zenon DEF Keep
        <3> QED BY <3>2, <3>3
    <2>4. text' \o buf' = (text \o buf) \o Items(Append(u, b), "text")
        BY <1>3, <2>2, <2>3, Zenon
    <2>5. Whole(Append(u, b)) /\ \A kind \in {Will, Do} : Items(Append(u, b), kind) = << >>
        BY <1>3, <2>2
    <2> QED BY <1>1, <1>2, <2>1, <2>4, <2>5, ItemDecoded
<1> QED BY <1>4, <1>5

\* Read at the byte behind IAC.
LEMMA CodeDecoded ==
    ASSUME TelnetAssumption, Streams, Decoding, NEW b \in Bytes, ReadCode(b)
    PROVE  Decoding'
<1>1. PICK c, u \in Seq(Byte) : ReadTo(c, u) /\ Kept(c) /\ Told(c)
    BY DEF Decoding
<1>2. ReadByte(b) /\ UNCHANGED << willopt, doopt, text >> /\ b \in Byte
    BY BytesAre DEF ReadCode, optVars
<1>3. u = << Iac >> /\ Append(u, b) = << Iac, b >>
    <2>1. u = << Iac >>
        BY <1>1 DEF ReadCode, ReadTo, Partial
    <2> QED BY <2>1, Appends, Zenon
<1>4. CASE b \in {Sb, Will, Do} \union Refusals
    <2>1. UNCHANGED buf
        BY <1>4 DEF ReadCode
    <2>2. Partial(mode', << Iac, b >>)
        BY <1>4 DEF ReadCode, Partial
    <2> QED BY <1>1, <1>2, <1>3, <2>1, <2>2, PartDecoded
<1>5. CASE b \notin {Sb, Will, Do} \union Refusals
    <2> DEFINE i == << Iac, b >>
    <2>1. mode' = "data"
        BY <1>5 DEF ReadCode
    <2>2. /\ Whole(i) /\ Items(i, "text") = IF b = Iac THEN << b >> ELSE << >>
          /\ \A kind \in {Will, Do} : Items(i, kind) = << >>
        BY <1>2, <1>5, WholeCode DEF Kinds
    <2> HIDE DEF i
    <2>3. text' \o buf' = (text \o buf) \o Items(i, "text")
        <3>1. CASE b = Iac
            <4>1. text \o Append(buf, b) = (text \o buf) \o << b >>
                BY <1>2 DEF Streams
            <4>2. buf' = Append(buf, b) /\ Items(i, "text") = << b >>
                BY <2>2, <3>1 DEF ReadCode
            <4> QED BY <1>2, <4>1, <4>2, Zenon
        <3>2. CASE b # Iac
            <4>1. text \o buf = (text \o buf) \o << >>
                BY DEF Streams
            <4>2. buf' = buf /\ Items(i, "text") = << >>
                BY <2>2, <3>2 DEF ReadCode
            <4> QED BY <1>2, <4>1, <4>2, Zenon
        <3> QED BY <3>1, <3>2
    <2>4. Append(u, b) = i
        BY <1>3 DEF i
    <2>5. /\ text' \o buf' = (text \o buf) \o Items(Append(u, b), "text")
          /\ Whole(Append(u, b)) /\ \A kind \in {Will, Do} : Items(Append(u, b), kind) = << >>
        BY <2>2, <2>3, <2>4, Zenon
    <2> QED BY <1>1, <1>2, <2>1, <2>5, ItemDecoded
<1> QED BY <1>4, <1>5

\* The end of an item without any meaning.
LEMMA NothingDecoded ==
    ASSUME TelnetAssumption, Streams, NEW b \in Bytes, ReadByte(b),
           NEW c \in Seq(Byte), NEW u \in Seq(Byte), ReadTo(c, u), Kept(c), Told(c),
           Whole(Append(u, b)), mode' = "data", UNCHANGED << buf, text, willopt, doopt >>,
           \A kind \in Kinds : Items(Append(u, b), kind) = << >>
    PROVE  Decoding'
<1>1. text \o buf = (text \o buf) \o << >>
    BY DEF Streams
<1>2. text' \o buf' = (text \o buf) \o Items(Append(u, b), "text")
    BY <1>1, Zenon DEF Kinds
<1>3. \A kind \in {Will, Do} : Items(Append(u, b), kind) = << >>
    BY DEF Kinds
<1> QED BY <1>2, <1>3, ItemDecoded

\* Read at the option of WONT or DONT, which is ignored.
LEMMA RefusalDecoded ==
    ASSUME TelnetAssumption, Streams, Decoding, NEW b \in Bytes, ReadRefusal(b)
    PROVE  Decoding'
<1>1. PICK c, u \in Seq(Byte) : ReadTo(c, u) /\ Kept(c) /\ Told(c)
    BY DEF Decoding
<1>2. /\ ReadByte(b) /\ UNCHANGED << buf, text, willopt, doopt >> /\ b \in Byte
      /\ mode' = "data"
    BY BytesAre DEF ReadRefusal, optVars
<1>3. PICK x \in Refusals : u = << Iac, x >>
    BY <1>1 DEF ReadRefusal, ReadTo, Partial
<1>4. Append(u, b) = << Iac, x, b >> /\ x \in Byte /\ x \notin {Will, Do}
    <2>1. Append(u, b) = << Iac, x, b >>
        BY <1>3, Appends, Zenon
    <2>2. x \in Byte /\ x \notin {Will, Do}
        BY DEF Byte
    <2> QED BY <2>1, <2>2, Zenon
<1>5. Whole(Append(u, b)) /\ \A kind \in Kinds : Items(Append(u, b), kind) = << >>
    <2>1. Whole(<< Iac, x, b >>) /\ \A kind \in Kinds : Items(<< Iac, x, b >>, kind) = << >>
        BY <1>2, <1>4, WholeOption
    <2> QED BY <1>4, <2>1, Zenon
<1> QED BY <1>1, <1>2, <1>5, NothingDecoded

\* Read in a subnegotiation (ignoreSubnegotiation).
LEMMA SubnegotiationDecoded ==
    ASSUME TelnetAssumption, Streams, Decoding, NEW b \in Bytes, ReadSubnegotiation(b)
    PROVE  Decoding'
<1>1. PICK c, u \in Seq(Byte) : ReadTo(c, u) /\ Kept(c) /\ Told(c)
    BY DEF Decoding
<1>2. /\ ReadByte(b) /\ UNCHANGED << buf, text, willopt, doopt >> /\ b \in Byte
      /\ mode \in {"sb", "sbdata", "sbiac"} /\ Partial(mode, u)
    BY <1>1, BytesAre DEF ReadSubnegotiation, optVars, ReadTo
<1>3. CASE mode = "sbiac" /\ b = Se
    <2>1. mode' = "data"
        BY <1>3 DEF ReadSubnegotiation
    <2>2. Whole(Append(u, b)) /\ \A kind \in Kinds : Items(Append(u, b), kind) = << >>
        BY <1>2, <1>3, WholeSub
    <2> QED BY <1>1, <1>2, <2>1, <2>2, NothingDecoded
<1>4. CASE ~ (mode = "sbiac" /\ b = Se)
    <2>1. mode' = IF mode = "sbdata" /\ b = Iac THEN "sbiac" ELSE "sbdata"
        BY <1>4 DEF ReadSubnegotiation
    <2>2. Partial(IF mode = "sbdata" /\ b = Iac THEN "sbiac" ELSE "sbdata", Append(u, b))
        BY <1>2, <1>4, PartialSub
    <2>3. Partial(mode', Append(u, b))
        BY <2>1, <2>2
    <2> QED BY <1>1, <1>2, <2>3, PartDecoded
<1> QED BY <1>3, <1>4

\* One option more.
LEMMA AppendHalves ==
    \A r \in Seq(Halves), o \in Seq(Byte), b \in Byte : r \o Append(o, b) = (r \o o) \o << b >>
<1> SUFFICES ASSUME NEW r \in Seq(Halves), NEW o \in Seq(Byte), NEW b \in Byte
             PROVE  r \o Append(o, b) = (r \o o) \o << b >>
    OBVIOUS
<1>1. o \in Seq(Halves) /\ b \in Halves
    BY DEF Halves
<1> QED BY <1>1

\* Read at an option that is asked for: it is noted, and not refused yet.
LEMMA OptionDecoded ==
    ASSUME TelnetAssumption, Streams, Decoding, NEW b \in Bytes, ReadOption(b)
    PROVE  Decoding'
<1>1. PICK c, u \in Seq(Byte) : ReadTo(c, u) /\ Kept(c) /\ Told(c)
    BY DEF Decoding
<1>2. /\ ReadByte(b) /\ UNCHANGED << buf, text, pc, w, out >> /\ b \in Byte
      /\ mode' = "data" /\ ~ Locked /\ ~ Locked'
    BY BytesAre DEF ReadOption, ReadByte, wrVars, Locked
<1> DEFINE R(kind) == Refused(out \o w, kind)
           x == Append(u, b)
           v == c \o x
<1>3. /\ R("WONT") \o willopt = Items(c, Will) /\ R("DONT") \o doopt = Items(c, Do)
      /\ \A kind : R(kind) \in Seq(Halves)
    <2>1. out \o w \in Seq(Entry)
        BY DEF Streams
    <2>2. \A kind : R(kind) \in Seq(Halves)
        BY <2>1, RefusedType
    <2>3. Pending(willopt) = willopt /\ Pending(doopt) = doopt
        BY <1>2 DEF Pending
    <2> QED BY <1>1, <2>2, <2>3, Zenon DEF Told
<1>4. PICK k \in {Will, Do} : u = << Iac, k >> /\ (mode = "will" <=> k = Will)
                              /\ (mode = "do" <=> k = Do)
    BY <1>1 DEF ReadOption, ReadTo, Partial
<1>5. /\ Whole(x)
      /\ \A kind \in Kinds : Items(x, kind) = IF kind = k THEN << b >> ELSE << >>
    <2>1. Append(u, b) = << Iac, k, b >>
        BY <1>4, Appends, Zenon
    <2>2. k \in Byte
        BY DEF Byte
    <2> DEFINE i == << Iac, k, b >>
    <2>3. Whole(i) /\ \A kind \in Kinds : Items(i, kind) = IF kind = k THEN << b >> ELSE << >>
        BY <1>2, <2>2, WholeOption
    <2> HIDE DEF i
    <2>4. x = i
        BY <2>1 DEF i
    <2> HIDE DEF x
    <2> QED BY <2>3, <2>4
<1>6. /\ v \in Seq(Byte) /\ ReadTo(v, << >>)'
      /\ \A kind \in Kinds : Items(v, kind) = Items(c, kind) \o Items(x, kind)
    <2>1. Whole(Append(u, b))
        BY <1>5
    <2> QED BY <1>1, <1>2, <2>1, ItemRead
<1> HIDE DEF x, v
<1>7. Kept(v)'
    <2>1. Items(v, "text") = Items(c, "text")
        BY <1>5, <1>6, NothingMore DEF Kinds
    <2> QED BY <1>1, <1>2, <2>1 DEF Kept
<1>8. /\ R("WONT") \o Append(willopt, b) = Items(c, Will) \o << b >>
      /\ R("DONT") \o Append(doopt, b) = Items(c, Do) \o << b >>
    <2> HIDE DEF R
    <2>1. willopt \in Seq(Byte) /\ doopt \in Seq(Byte)
        BY DEF Streams
    <2>2. /\ R("WONT") \o Append(willopt, b) = (R("WONT") \o willopt) \o << b >>
          /\ R("DONT") \o Append(doopt, b) = (R("DONT") \o doopt) \o << b >>
        <3>1. R("WONT") \in Seq(Halves) /\ R("DONT") \in Seq(Halves)
            BY <1>3, Zenon
        <3>2. R("WONT") \o Append(willopt, b) = (R("WONT") \o willopt) \o << b >>
            BY <1>2, <2>1, <3>1, AppendHalves, Zenon
        <3>3. R("DONT") \o Append(doopt, b) = (R("DONT") \o doopt) \o << b >>
            BY <1>2, <2>1, <3>1, AppendHalves, Zenon
        <3> QED BY <3>2, <3>3
    <2> QED BY <1>3, <2>2, Zenon
<1>9. /\ R("WONT") \o willopt' = Items(v, Will)
      /\ R("DONT") \o doopt' = Items(v, Do)
    <2> HIDE DEF R
    <2>1. CASE k = Will
        <3>1. willopt' = Append(willopt, b) /\ doopt' = doopt
            BY <1>4, <2>1 DEF ReadOption
        <3>2. Items(x, Will) = << b >> /\ Items(x, Do) = << >>
            BY <1>5, <2>1 DEF Kinds
        <3>3. Items(v, Do) = Items(c, Do)
            BY <1>6, <3>2, NothingMore DEF Kinds
        <3>4. Items(v, Will) = Items(c, Will) \o << b >>
            BY <1>6, <3>2, Zenon DEF Kinds
        <3> QED BY <1>3, <1>8, <3>1, <3>3, <3>4, Zenon
    <2>2. CASE k = Do
        <3>1. doopt' = Append(doopt, b) /\ willopt' = willopt
            BY <1>4, <2>2 DEF ReadOption
        <3>2. Items(x, Do) = << b >> /\ Items(x, Will) = << >>
            BY <1>5, <2>2 DEF Kinds
        <3>3. Items(v, Will) = Items(c, Will)
            BY <1>6, <3>2, NothingMore DEF Kinds
        <3>4. Items(v, Do) = Items(c, Do) \o << b >>
            BY <1>6, <3>2, Zenon DEF Kinds
        <3> QED BY <1>3, <1>8, <3>1, <3>3, <3>4, Zenon
    <2> QED BY <2>1, <2>2
<1>10. Told(v)'
    <2>1. Pending(willopt)' = willopt' /\ Pending(doopt)' = doopt'
        BY <1>2 DEF Pending
    <2>2. /\ Refused(out \o w, "WONT")' = R("WONT")
          /\ Refused(out \o w, "DONT")' = R("DONT")
        BY <1>2
    <2> HIDE DEF R
    <2> QED BY <1>9, <2>1, <2>2, Zenon DEF Told
<1>11. << >> \in Seq(Byte)
    OBVIOUS
<1> QED BY <1>6, <1>7, <1>10, <1>11 DEF Decoding

-----------------------------------------------------------------------------
(* The other steps, which read nothing *)

\* The client sends something, which comes behind all the rest.
LEMMA SendDecoded ==
    ASSUME TelnetAssumption, Streams, Decoding, NEW chunk \in Chunks, Send(chunk)
    PROVE  Decoding'
<1>1. PICK c, u \in Seq(Byte) : ReadTo(c, u) /\ Kept(c) /\ Told(c)
    BY DEF Decoding
<1>2. /\ input' = input \o chunk /\ wire' = wire \o chunk
      /\ UNCHANGED << ahead, mode, buf, text, willopt, doopt, pc, w, out >>
    BY DEF Send, rdVars, optVars, wrVars
<1>3. input' = (c \o u) \o (ahead' \o wire')
    <2>1. chunk \in Seq(Byte) /\ ahead \in Seq(Byte) /\ wire \in Seq(Byte)
        BY BytesAre DEF Streams
    <2> DEFINE a == c \o u
    <2>2. a \in Seq(Byte) /\ input = a \o (ahead \o wire)
        BY <1>1 DEF ReadTo
    <2> DEFINE m == ahead \o wire
    <2>3. m \in Seq(Byte)
        BY <2>1
    <2>4. m \o chunk = ahead \o (wire \o chunk)
        BY <2>1
    <2> HIDE DEF a, m
    <2>5. (a \o m) \o chunk = a \o (m \o chunk)
        <3>1. a \in Seq(Byte)
            BY <2>2
        <3> QED BY <2>1, <2>3, <3>1, SMTT(30)
    <2> QED BY <1>2, <2>2, <2>4, <2>5, Zenon DEF a, m
<1>4. ReadTo(c, u)' /\ Kept(c)'
    BY <1>1, <1>2, <1>3 DEF ReadTo, Kept
<1>5. Told(c)'
    BY <1>1, <1>2, ToldSame
<1> QED BY <1>4, <1>5 DEF Decoding

\* The stream ends in the middle of a line.
LEMMA EndDecoded ==
    ASSUME Streams, Decoding, ReadEnd
    PROVE  Decoding'
<1>1. PICK c, u \in Seq(Byte) : ReadTo(c, u) /\ Kept(c) /\ Told(c)
    BY DEF Decoding
<1>2. UNCHANGED << input, wire, ahead, mode, willopt, doopt, pc, w, out >>
    BY DEF ReadEnd, inVars, optVars, wrVars
<1>3. text' \o buf' = text \o buf
    <2>1. CASE text' = text \o buf /\ buf' = << >>
        <3>1. text \o buf \in Seq(Byte)
            BY DEF Streams
        <3>2. (text \o buf) \o << >> = text \o buf
            BY <3>1
        <3> QED BY <2>1, <3>2, Zenon
    <2>2. CASE UNCHANGED << text, buf >>
        BY <2>2
    <2> QED BY <2>1, <2>2 DEF ReadEnd
<1>4. ReadTo(c, u)'
    BY <1>1, <1>2 DEF ReadTo
<1>5. Kept(c)'
    BY <1>1, <1>3, Zenon DEF Kept
<1>6. Told(c)'
    BY <1>1, <1>2, ToldSame
<1> QED BY <1>4, <1>5, <1>6 DEF Decoding

\* After the handshake everything begins again.
LEMMA HandshakeOkDecoded ==
    ASSUME TypeOK, Mutex, HandshakeOk
    PROVE  Decoding'
<1>1. /\ input' = << >> /\ wire' = << >> /\ ahead' = << >> /\ mode' = "data"
      /\ text' = << >> /\ buf' = << >> /\ willopt' = << >> /\ doopt' = << >>
      /\ w' = << >> /\ out' = << >>
    BY DEF HandshakeOk, NewReader
<1>2. << >> \in Seq(Byte) /\ << >> \o << >> = << >>
    OBVIOUS
<1>3. ReadTo(<< >>, << >>)'
    BY <1>1, <1>2, WholeNothing, Zenon DEF ReadTo, Partial
<1>4. Kept(<< >>)'
    BY <1>1, <1>2, ItemsOfNothing, Zenon DEF Kept
<1>5. Told(<< >>)'
    <2>1. \A kind : Refused(<< >>, kind) = << >>
        <3>1. \A f : [i \in 1 .. Len(<< >>) |-> f[i][2]] = << >>
            OBVIOUS
        <3> QED BY <3>1, SelectNothing, Zenon DEF Refused
    <2>2. Pending(willopt)' = << >> /\ Pending(doopt)' = << >>
        BY <1>1 DEF Pending
    <2> QED BY <1>1, <1>2, <2>1, <2>2, ItemsOfNothing, Zenon DEF Told
<1> QED BY <1>2, <1>3, <1>4, <1>5 DEF Decoding

\* A handshake that fails takes from what nobody has received.
LEMMA HandshakeFailsDecoded ==
    ASSUME Streams, Decoding, HandshakeFails
    PROVE  Decoding'
<1>1. PICK c, u \in Seq(Byte) : ReadTo(c, u) /\ Kept(c) /\ Told(c)
    BY DEF Decoding
<1>2. UNCHANGED << ahead, mode, buf, text, willopt, doopt, pc, w, out >>
    BY DEF HandshakeFails, optVars
<1>3. PICK n \in 0 .. Len(wire) :
         /\ wire' = SubSeq(wire, n + 1, Len(wire))
         /\ input' = SubSeq(input, 1, Len(input) - Len(wire)) \o wire'
    BY DEF HandshakeFails
<1>4. input' = (c \o u) \o (ahead' \o wire')
    <2> DEFINE a == c \o u
    <2>1. a \in Seq(Byte) /\ input = a \o (ahead \o wire)
        BY <1>1 DEF ReadTo
    <2>2. ahead \in Seq(Byte) /\ wire \in Seq(Byte) /\ wire' \in Seq(Byte)
        BY <1>3 DEF Streams
    <2> HIDE DEF a
    <2>3. a \in Seq(Byte)
        BY <2>1
    <2>4. SubSeq(a \o (ahead \o wire), 1, Len(a \o (ahead \o wire)) - Len(wire)) = a \o ahead
        <3> DEFINE p == a \o ahead
        <3>1. p \in Seq(Byte)
            BY <2>2, <2>3
        <3>2. a \o (ahead \o wire) = p \o wire
            BY <2>2, <2>3, SMTT(30)
        <3> HIDE DEF p
        <3>3. SubSeq(p \o wire, 1, Len(p)) = p /\ Len(p \o wire) - Len(wire) = Len(p)
            BY <2>2, <3>1
        <3> QED BY <3>2, <3>3 DEF p
    <2>5. (a \o ahead) \o wire' = a \o (ahead \o wire')
        BY <2>2, <2>3
    <2> QED BY <1>2, <1>3, <2>1, <2>4, <2>5, Zenon DEF a
<1>5. ReadTo(c, u)' /\ Kept(c)'
    BY <1>1, <1>2, <1>4 DEF ReadTo, Kept
<1>6. Told(c)'
    BY <1>1, <1>2, ToldSame
<1> QED BY <1>5, <1>6 DEF Decoding

\* Nothing is read, and what is refused or noted stays as it is.
LEMMA OtherDecoded ==
    ASSUME Decoding, UNCHANGED << input, wire, ahead, mode, buf, text >>,
           Refused(out \o w, "WONT")' \o Pending(willopt)'
              = Refused(out \o w, "WONT") \o Pending(willopt),
           Refused(out \o w, "DONT")' \o Pending(doopt)'
              = Refused(out \o w, "DONT") \o Pending(doopt)
    PROVE  Decoding'
<1>1. PICK c, u \in Seq(Byte) : ReadTo(c, u) /\ Kept(c) /\ Told(c)
    BY DEF Decoding
<1>2. ReadTo(c, u)'
    BY <1>1 DEF ReadTo
<1>3. Kept(c)'
    BY <1>1 DEF Kept
<1>4. Told(c)'
    BY <1>1, Zenon DEF Told
<1> QED BY <1>2, <1>3, <1>4 DEF Decoding

\* Nothing is read or noted, and the flushed and the unflushed are what they were.
LEMMA StillDecoded ==
    ASSUME Decoding, UNCHANGED << input, wire, ahead, mode, buf, text, willopt, doopt >>,
           Locked' = Locked, (out \o w)' = out \o w
    PROVE  Decoding'
<1>1. Pending(willopt)' = Pending(willopt) /\ Pending(doopt)' = Pending(doopt)
    BY DEF Pending
<1>2. \A kind : Refused(out \o w, kind)' = Refused(out \o w, kind)
    BY Zenon
<1>3. /\ Refused(out \o w, "WONT")' \o Pending(willopt)'
            = Refused(out \o w, "WONT") \o Pending(willopt)
      /\ Refused(out \o w, "DONT")' \o Pending(doopt)'
            = Refused(out \o w, "DONT") \o Pending(doopt)
    BY <1>1, <1>2, Zenon
<1> QED BY <1>3, OtherDecoded

\* Whoever works on a reply is alone.
LEMMA LockedIs ==
    ASSUME TypeOK, Mutex, NEW x \in Writers, pc[x] \notin {"idle", "end"}
    PROVE  Locked <=> pc[x] \in {"reset", "freset"}
BY DEF Mutex, Locked

\* What was noted is refused, and counts as refused from then on.
LEMMA WriteOptionDecoded ==
    ASSUME TelnetAssumption, TypeOK, Mutex, Streams, Decoding, TypeOK', Mutex',
           NEW x \in Writers, WriteOption(x)
    PROVE  Decoding'
<1>1. pc[x] \in {"write", "flush"} /\ ~ Locked
    BY LockedIs DEF WriteOption
<1>2. CASE broken /\ Answers # << >>
    <2>1. Release(x) /\ UNCHANGED << w, out >>
        BY <1>2 DEF WriteOption
    <2>2. /\ UNCHANGED << input, wire, ahead, mode, buf, text, willopt, doopt >>
          /\ \A y \in Writers : pc'[y] \in {"idle", "end"}
        BY <1>1, <2>1, Released
    <2>3. Locked' = Locked
        BY <1>1, <2>2 DEF Locked
    <2>4. (out \o w)' = out \o w
        BY <2>1
    <2> QED BY <2>2, <2>3, <2>4, StillDecoded
<1>3. CASE ~ (broken /\ Answers # << >>)
    <2>1. /\ pc' = [pc EXCEPT ![x] = IF @ = "write" THEN "reset" ELSE "freset"]
          /\ w' = w \o Answers /\ out' = out
          /\ UNCHANGED << inVars, rdVars, optVars >>
        BY <1>3 DEF WriteOption
    <2>2. UNCHANGED << input, wire, ahead, mode, buf, text, willopt, doopt >>
        BY <2>1 DEF inVars, rdVars, optVars
    <2>3. Locked'
        <3>1. pc'[x] \in {"reset", "freset"}
            BY <2>1 DEF TypeOK
        <3> QED BY <3>1 DEF Locked
    <2>4. /\ Pending(willopt) = willopt /\ Pending(doopt) = doopt
          /\ Pending(willopt)' = << >> /\ Pending(doopt)' = << >>
        BY <1>1, <2>3 DEF Pending
    <2>5. /\ Answers \in Seq(Entry)
          /\ Refused(Answers, "WONT") = willopt /\ Refused(Answers, "DONT") = doopt
        BY AnswersAre DEF Streams
    <2> DEFINE o == out \o w
               r == o \o Answers
    <2>6. o \in Seq(Entry)
        BY DEF Streams
    <2>7. out \o (w \o Answers) = o \o Answers
        <3>1. out \in Seq(Entry) /\ w \in Seq(Entry) /\ Answers \in Seq(Entry)
            BY <2>5 DEF Streams
        <3> QED BY <3>1
    <2>8. (out \o w)' = r
        BY <2>1, <2>7, Zenon
    <2> HIDE DEF o
    <2>9. \A kind : Refused(o \o Answers, kind) = Refused(o, kind) \o Refused(Answers, kind)
        BY <2>5, <2>6, RefusedConcat, Zenon
    <2>10. r \in Seq(Entry)
        BY <2>5, <2>6
    <2> HIDE DEF r
    <2>11. \A kind : Refused(r, kind) \in Seq(Halves)
        BY <2>10, RefusedType
    <2>12. \A s \in Seq(Halves) : s \o << >> = s
        OBVIOUS
    <2>13. /\ Refused(r, "WONT") \o << >> = Refused(o, "WONT") \o willopt
           /\ Refused(r, "DONT") \o << >> = Refused(o, "DONT") \o doopt
        BY <2>5, <2>9, <2>11, <2>12, Zenon DEF r
    <2>14. /\ Refused(out \o w, "WONT")' \o Pending(willopt)'
                = Refused(out \o w, "WONT") \o Pending(willopt)
           /\ Refused(out \o w, "DONT")' \o Pending(doopt)'
                = Refused(out \o w, "DONT") \o Pending(doopt)
        BY <2>4, <2>8, <2>13, Zenon DEF o
    <2> QED BY <2>2, <2>14, OtherDecoded
<1> QED BY <1>2, <1>3

\* It is forgotten, and was counted already.
LEMMA ResetOptionDecoded ==
    ASSUME TypeOK, Mutex, Decoding, TypeOK', Mutex', NEW x \in Writers, ResetOption(x)
    PROVE  Decoding'
<1>1. /\ UNCHANGED << input, wire, ahead, mode, buf, text, w, out >>
      /\ willopt' = << >> /\ doopt' = << >>
    BY DEF ResetOption, inVars, rdVars
<1>2. pc[x] \in {"reset", "freset"} /\ pc'[x] \in {"put", "send"}
    BY DEF ResetOption, Goto, TypeOK
<1>3. Locked
    BY <1>2, LockedIs
<1>4. /\ Pending(willopt) = << >> /\ Pending(doopt) = << >>
      /\ Pending(willopt)' = << >> /\ Pending(doopt)' = << >>
    BY <1>1, <1>3 DEF Pending
<1>5. \A kind : Refused(out \o w, kind)' = Refused(out \o w, kind)
    BY <1>1
<1>6. /\ Refused(out \o w, "WONT")' \o Pending(willopt)'
            = Refused(out \o w, "WONT") \o Pending(willopt)
      /\ Refused(out \o w, "DONT")' \o Pending(doopt)'
            = Refused(out \o w, "DONT") \o Pending(doopt)
    BY <1>4, <1>5, Zenon
<1> QED BY <1>1, <1>6, OtherDecoded

\* A line is no refusal.
LEMMA PutLineDecoded ==
    ASSUME TelnetAssumption, TypeOK, Mutex, Streams, Decoding, TypeOK', Mutex',
           NEW x \in Writers, PutLine(x)
    PROVE  Decoding'
<1>1. pc[x] = "put" /\ ~ Locked
    BY LockedIs DEF PutLine
<1>2. CASE broken
    <2>1. Release(x) /\ UNCHANGED << w, out >>
        BY <1>2 DEF PutLine
    <2>2. /\ UNCHANGED << input, wire, ahead, mode, buf, text, willopt, doopt >>
          /\ \A y \in Writers : pc'[y] \in {"idle", "end"}
        BY <1>1, <2>1, Released
    <2>3. Locked' = Locked
        BY <1>1, <2>2 DEF Locked
    <2>4. (out \o w)' = out \o w
        BY <2>1
    <2> QED BY <2>2, <2>3, <2>4, StillDecoded
<1>3. CASE ~ broken
    <2> DEFINE n == left[x] - 1
               e == << x, n >>
    <2>1. /\ w' = Append(w, e) /\ out' = out
          /\ pc' = [pc EXCEPT ![x] = IF left[x] = 1 THEN "flush" ELSE "write"]
          /\ UNCHANGED << inVars, rdVars, optVars >>
        BY <1>3 DEF PutLine
    <2>2. UNCHANGED << input, wire, ahead, mode, buf, text, willopt, doopt >>
        BY <2>1 DEF inVars, rdVars, optVars
    <2>3. ~ Locked'
        <3>1. pc'[x] \in {"flush", "write"}
            BY <2>1 DEF TypeOK
        <3> QED BY <3>1 DEF Locked, Mutex
    <2>4. Pending(willopt)' = Pending(willopt) /\ Pending(doopt)' = Pending(doopt)
        BY <1>1, <2>2, <2>3 DEF Pending
    <2>5. /\ << e >> \in Seq(Entry) /\ e \in Entry
          /\ \A kind \in Refusals : Refused(<< e >>, kind) = << >>
        <3>1. left[x] \in 1 .. MaxLines
            BY <1>1 DEF TypeOK, Mutex, Writing
        <3>2. n \in 0 .. MaxLines
            BY <3>1 DEF TelnetAssumption
        <3> QED BY <3>2, LineIs DEF Entry
    <2> HIDE DEF e
    <2> DEFINE o == out \o w
    <2>6. o \in Seq(Entry) /\ out \o Append(w, e) = o \o << e >>
        BY <2>5 DEF Streams
    <2> HIDE DEF o
    <2>7. \A kind : Refused(o \o << e >>, kind) = Refused(o, kind) \o Refused(<< e >>, kind)
        BY <2>5, <2>6, RefusedConcat, Zenon
    <2>8. \A kind : Refused(o, kind) \in Seq(Halves)
        BY <2>6, RefusedType
    <2>9. \A s \in Seq(Halves) : s \o << >> = s
        OBVIOUS
    <2>10. \A kind \in Refusals : Refused(o \o << e >>, kind) = Refused(o, kind)
        BY <2>5, <2>7, <2>8, <2>9, Zenon
    <2>11. (out \o w)' = o \o << e >>
        BY <2>1, <2>6, Zenon
    <2>12. \A kind \in Refusals : Refused(out \o w, kind)' = Refused(out \o w, kind)
        BY <2>10, <2>11, Zenon DEF o
    <2>13. /\ Refused(out \o w, "WONT")' \o Pending(willopt)'
                = Refused(out \o w, "WONT") \o Pending(willopt)
           /\ Refused(out \o w, "DONT")' \o Pending(doopt)'
                = Refused(out \o w, "DONT") \o Pending(doopt)
        BY <2>4, <2>12, Zenon
    <2> QED BY <2>2, <2>13, OtherDecoded
<1> QED BY <1>2, <1>3

\* What is flushed was written.
LEMMA FlushDecoded ==
    ASSUME TelnetAssumption, TypeOK, Mutex, Streams, Decoding, NEW x \in Writers, Flush(x)
    PROVE  Decoding'
<1>1. pc[x] = "send" /\ ~ Locked /\ Release(x)
    BY LockedIs DEF Flush
<1>2. /\ UNCHANGED << input, wire, ahead, mode, buf, text, willopt, doopt >>
      /\ \A y \in Writers : pc'[y] \in {"idle", "end"}
    BY <1>1, Released
<1>3. Locked' = Locked
    BY <1>1, <1>2 DEF Locked
<1>4. (out \o w)' = out \o w
    <2>1. CASE out' = out \o w /\ w' = << >>
        <3>1. (out \o w) \o << >> = out \o w
            BY LinesType
        <3> QED BY <2>1, <3>1, Zenon
    <2>2. CASE UNCHANGED << out, w >>
        BY <2>2
    <2> QED BY <2>1, <2>2 DEF Flush
<1> QED BY <1>2, <1>3, <1>4, StillDecoded

\* A reply begins.
LEMMA ReplyDecoded ==
    ASSUME TypeOK, Decoding, NEW x \in Writers, NEW n, Reply(x, n),
           UNCHANGED << ahead, mode, buf, text >>
    PROVE  Decoding'
<1>1. UNCHANGED << input, wire, willopt, doopt, w, out >>
    BY DEF Reply, inVars, optVars
<1>2. Locked' = Locked
    BY DEF Reply, Goto, Locked, TypeOK
<1> QED BY <1>1, <1>2, StillDecoded

\* Every step keeps what was decoded and answered.
LEMMA DecodingNext ==
    ASSUME TelnetAssumption, TypeOK, Mutex, Streams, Decoding, TypeOK', Mutex', Next
    PROVE  Decoding'
<1>0. "serve" \in Writers /\ \A j \in Jobs : j \in Writers
    BY DEF Writers
<1>1. ASSUME NEW chunk \in Chunks, Send(chunk) PROVE Decoding'
    BY <1>1, SendDecoded
<1>2. ASSUME NEW b \in Bytes, Read(b) PROVE Decoding'
    BY <1>2, DataDecoded, CodeDecoded, OptionDecoded, RefusalDecoded,
       SubnegotiationDecoded DEF Read
<1>3. CASE ReadEnd
    BY <1>3, EndDecoded
<1>4. CASE HandshakeOk
    BY <1>4, HandshakeOkDecoded
<1>5. CASE HandshakeFails
    BY <1>5, HandshakeFailsDecoded
<1>6. ASSUME NEW x \in Writers, Write(x) PROVE Decoding'
    BY <1>6, WriteOptionDecoded, ResetOptionDecoded, PutLineDecoded, FlushDecoded
       DEF Write
<1>7. ASSUME NEW n \in 1 .. MaxLines, Exec(n) PROVE Decoding'
    BY <1>0, <1>7, ReplyDecoded DEF Exec
<1>8. ASSUME NEW j \in Jobs, NEW n \in 1 .. MaxLines, JobReply(j, n) PROVE Decoding'
    BY <1>0, <1>8, ReplyDecoded DEF JobReply, rdVars
<1>9. CASE HangUp \/ NextLine \/ Handshake \/ Terminated
    <2>1. UNCHANGED << input, wire, ahead, mode, buf, text, willopt, doopt, pc, w, out >>
        BY <1>9 DEF HangUp, NextLine, Handshake, Terminated, vars, inVars, rdVars, optVars,
                    wrVars
    <2>2. Locked' = Locked
        BY <2>1 DEF Locked
    <2>3. (out \o w)' = out \o w
        BY <2>1
    <2> QED BY <2>1, <2>2, <2>3, StillDecoded
<1> QED BY <1>1, <1>2, <1>3, <1>4, <1>5, <1>6, <1>7, <1>8, <1>9 DEF Next, Serve

-----------------------------------------------------------------------------
\* The invariant holds at the beginning.
LEMMA InitInv ==
    ASSUME TelnetAssumption, Init
    PROVE  IInv
<1>1. TypeOK
    <2>1. Newline \notin {buf[i] : i \in 1 .. Len(buf)}
        BY DEF Init
    <2>2. 0 \in 0 .. MaxChunks /\ 0 \in 0 .. MaxLines
        BY DEF TelnetAssumption
    <2>3. pc \in [Writers -> Pcs]
        BY DEF Init, Pcs
    <2>4. left \in [Writers -> 0 .. MaxLines] /\ \A x \in Writers : ~ (left[x] > 0)
        BY <2>2 DEF Init
    <2> QED BY <2>1, <2>2, <2>3, <2>4 DEF Init, TypeOK, Modes
<1>2. Streams
    BY DEF Init, Streams
<1>3. Mutex
    BY DEF Init, Mutex, Writing, Writers
<1>4. w = << >> /\ out = << >> /\ << >> \o << >> = << >> /\ << >> \in Seq(Byte)
    BY DEF Init
<1>5. RepliesWhole /\ Replied
    <2>1. Lines = << >>
        BY <1>4, SelectNothing, Zenon DEF Lines
    <2>2. Len(<< >>) - 1 = -1
        OBVIOUS
    <2> QED BY <2>1, <2>2 DEF RepliesWhole, Replied, Lines
<1>6. Decoding
    <2>1. ReadTo(<< >>, << >>)
        BY <1>4, WholeNothing, Zenon DEF Init, ReadTo, Partial
    <2>2. Kept(<< >>)
        BY <1>4, ItemsOfNothing, Zenon DEF Init, Kept
    <2>3. Told(<< >>)
        <3>1. ASSUME NEW kind PROVE Refused(<< >>, kind) = << >>
            <4> DEFINE p == Select(<< >>, {kind})
            <4>1. p = << >>
                BY SelectNothing
            <4> HIDE DEF p
            <4>2. [i \in 1 .. Len(p) |-> p[i][2]] = << >>
                BY <4>1
            <4> QED BY <4>2 DEF Refused, p
        <3>2. Pending(willopt) = << >> /\ Pending(doopt) = << >>
            BY DEF Init, Pending
        <3> QED BY <1>4, <3>1, <3>2, ItemsOfNothing, Zenon DEF Told
    <2> QED BY <1>4, <2>1, <2>2, <2>3 DEF Decoding
<1> QED BY <1>1, <1>2, <1>3, <1>5, <1>6 DEF IInv

\* Every step keeps the invariant.
LEMMA NextInv ==
    ASSUME TelnetAssumption, IInv, [Next]_vars
    PROVE  IInv'
<1>1. CASE Next
    <2>1. TypeOK' /\ Mutex' /\ Streams'
        BY <1>1, TypeNext, MutexNext, StreamsNext DEF IInv
    <2>2. RepliesWhole' /\ Replied'
        BY <1>1, RepliedNext DEF IInv
    <2>3. Decoding'
        BY <1>1, <2>1, DecodingNext DEF IInv
    <2> QED BY <2>1, <2>2, <2>3 DEF IInv
<1>2. CASE UNCHANGED vars
    <2> USE <1>2 DEF vars, inVars, rdVars, optVars, wrVars
    <2>1. TypeOK'
        BY DEF IInv, TypeOK
    <2>2. Streams' /\ Mutex'
        BY DEF IInv, Streams, Mutex
    <2>3. RepliesWhole' /\ Replied'
        BY SameLines DEF IInv, Lines
    <2>4. Decoding'
        <3>1. Locked' = Locked /\ (out \o w)' = out \o w
            BY DEF Locked
        <3> QED BY <3>1, StillDecoded DEF IInv
    <2> QED BY <2>1, <2>2, <2>3, <2>4 DEF IInv
<1> QED BY <1>1, <1>2

\* What has been read, by the invariant.
LEMMA SeenIs ==
    ASSUME Streams, NEW c \in Seq(Byte), NEW u \in Seq(Byte), ReadTo(c, u)
    PROVE  /\ Seen = c \o u /\ input = (Seen \o ahead) \o wire
           /\ \A kind \in Kinds : Items(Seen, kind) = Items(c, kind)
<1> DEFINE a == c \o u
<1>1. a \in Seq(Byte) /\ input = a \o (ahead \o wire)
    BY DEF ReadTo
<1>2. ahead \in Seq(Byte) /\ wire \in Seq(Byte)
    BY DEF Streams
<1> HIDE DEF a
<1>3. SubSeq(a \o (ahead \o wire), 1, Len(a \o (ahead \o wire)) - Len(ahead) - Len(wire)) = a
    BY <1>1, <1>2
<1>4. Seen = a
    BY <1>1, <1>3, Zenon DEF Seen
<1>5. input = (Seen \o ahead) \o wire
    <2>1. a \in Seq(Byte)
        BY <1>1
    <2>2. a \o (ahead \o wire) = (a \o ahead) \o wire
        BY <1>2, <2>1, SMTT(30)
    <2> QED BY <1>1, <1>4, <2>2, Zenon
<1>6. ASSUME NEW kind \in Kinds PROVE Items(a, kind) = Items(c, kind)
    <2>1. Items(u, kind) = << >>
        BY PartialNothing DEF ReadTo
    <2>2. Items(c \o u, kind) = Items(c, kind) \o Items(u, kind)
        BY DEF ReadTo, Whole
    <2> QED BY <2>1, <2>2, NothingMore DEF a
<1> QED BY <1>4, <1>5, <1>6 DEF a

\* It says what the properties say.
LEMMA InvImplies ==
    ASSUME IInv
    PROVE  Decoded /\ Answered
<1>1. PICK c, u \in Seq(Byte) : ReadTo(c, u) /\ Kept(c) /\ Told(c)
    BY DEF IInv, Decoding
<1>2. /\ input = (Seen \o ahead) \o wire
      /\ \A kind \in Kinds : Items(Seen, kind) = Items(c, kind)
    BY <1>1, SeenIs DEF IInv
<1>3. /\ Items(Seen, "text") = Items(c, "text") /\ Items(Seen, Will) = Items(c, Will)
      /\ Items(Seen, Do) = Items(c, Do)
    BY <1>2 DEF Kinds
<1> QED BY <1>1, <1>2, <1>3, Zenon DEF Decoded, Answered, Kept, Told

\* The invariant holds in every state of every behaviour.
LEMMA Inductive == Spec => []IInv
<1>1. Init => IInv
    BY TelnetAssumption, InitInv
<1>2. IInv /\ [Next]_vars => IInv'
    BY TelnetAssumption, NextInv
<1> QED BY <1>1, <1>2, PTL DEF Spec

\* The types, and that no line is read beyond its end.
THEOREM TypeCorrect == Spec => []TypeOK
<1>1. IInv => TypeOK
    BY DEF IInv
<1> QED BY <1>1, Inductive, PTL

\* What the scanner gets is the text of what was read, however the stream is cut
\* into reads and wherever it is cut (ftp/telnet.go, Read and readByte).
THEOREM StreamDecoded == Spec => []Decoded
<1>1. IInv => Decoded
    BY InvImplies
<1> QED BY <1>1, Inductive, PTL

\* Each request for an option is refused once, in order, by whichever goroutine
\* writes next (ftp/telnet.go, writeOption with readWillOption and readDoOption).
THEOREM RequestsAnswered == Spec => []Answered
<1>1. IInv => Answered
    BY InvImplies
<1> QED BY <1>1, Inductive, PTL

\* The lines of a reply stay together, whoever writes replies at the same time
\* (ftp/conn.go, WriteReply under c.mu).
THEOREM RepliesUnmixed == Spec => []RepliesWhole
<1>1. IInv => RepliesWhole
    BY DEF IInv
<1> QED BY <1>1, Inductive, PTL
====
