---------------------------- MODULE NamesProofs ----------------------------
(***************************************************************************)
(* Facts about paths, which the other proofs use.                          *)
(***************************************************************************)
EXTENDS Names, SequenceTheorems, TLAPS

\* What a path is made of.
LEMMA PathLemma ==
    ASSUME NEW p \in Paths
    PROVE  /\ p \in Seq(STRING) /\ Len(p) \in Nat \ {0}
           /\ p = [i \in 1 .. Len(p) |-> p[i]]
           /\ \A n \in 1 .. Len(p) : [i \in 1 .. n |-> p[i]] \in Paths
  <1>1. p \in Seq(STRING) /\ p # << >>
    BY NamesAssumption
  <1>2. Len(p) \in Nat \ {0}
    BY <1>1, EmptySeq, LenProperties
  <1>3. \A n \in 1 .. Len(p) : [i \in 1 .. n |-> p[i]] \in Paths
    BY NamesAssumption
  <1>4. QED
    BY <1>1, <1>2, <1>3, LenProperties

\* The directory of a path is a path, unless it is the root.
LEMMA ParentLemma ==
    ASSUME NEW p \in Paths
    PROVE  /\ Parent(p) \in Seq(STRING) /\ Len(Parent(p)) = Len(p) - 1
           /\ \A i \in 1 .. Len(p) - 1 : Parent(p)[i] = p[i]
           /\ Parent(p) # << >> => Parent(p) \in Paths
  <1>1. p \in Seq(STRING) /\ Len(p) \in Nat \ {0}
    BY PathLemma
  <1>2. Len(p) - 1 \in Nat /\ \A i \in 1 .. Len(p) - 1 : p[i] \in STRING
    BY <1>1, ElementOfSeq
  <1>3. Parent(p) \in Seq(STRING) /\ Len(Parent(p)) = Len(p) - 1
    BY <1>2, IsASeq DEF Parent
  <1>4. ASSUME Parent(p) # << >>
        PROVE  Parent(p) \in Paths
    <2>1. Len(p) - 1 \in 1 .. Len(p)
      BY <1>1, <1>3, <1>4, EmptySeq
    <2>2. QED
      BY <2>1, PathLemma DEF Parent
  <1>5. QED
    BY <1>2, <1>3, <1>4 DEF Parent

\* What is above p is above the directory of p, or it is this directory.
LEMMA AboveLemma ==
    ASSUME NEW p \in Paths, NEW q \in Paths, Within(q, p)
    PROVE  Parent(p) # << >> /\ (q = Parent(p) \/ Within(q, Parent(p)))
  <1>1. /\ Len(q) \in Nat \ {0} /\ Len(p) \in Nat /\ Len(q) < Len(p)
        /\ \A i \in 1 .. Len(q) : q[i] = p[i]
    BY PathLemma DEF Within
  <1>2. Len(Parent(p)) = Len(p) - 1 /\ \A i \in 1 .. Len(p) - 1 : Parent(p)[i] = p[i]
    BY ParentLemma
  <1>3. Parent(p) # << >>
    BY <1>1, <1>2, EmptySeq
  <1>4. \A i \in 1 .. Len(q) : q[i] = Parent(p)[i]
    BY <1>1, <1>2
  <1>5. CASE Len(q) = Len(p) - 1
    <2>1. q = [i \in 1 .. Len(q) |-> q[i]] /\ Parent(p) = [i \in 1 .. Len(q) |-> p[i]]
      BY <1>5, PathLemma DEF Parent
    <2>2. QED
      BY <1>1, <1>3, <2>1
  <1>6. CASE Len(q) # Len(p) - 1
    <2>1. Len(q) < Len(Parent(p))
      BY <1>1, <1>2, <1>6
    <2>2. QED
      BY <1>3, <1>4, <2>1 DEF Within
  <1>7. QED
    BY <1>5, <1>6

\* Each path is in its directory.
LEMMA InParent ==
    ASSUME NEW p \in Paths
    PROVE  Within(Parent(p), p)
  <1>1. Len(p) \in Nat \ {0} /\ Len(Parent(p)) = Len(p) - 1
        /\ \A i \in 1 .. Len(p) - 1 : Parent(p)[i] = p[i]
    BY PathLemma, ParentLemma
  <1>2. QED
    BY <1>1 DEF Within

LEMMA WithinTrans ==
    ASSUME NEW p \in Paths, NEW q \in Paths, NEW r \in Paths, Within(p, q), Within(q, r)
    PROVE  Within(p, r)
  <1>1. Len(p) \in Nat /\ Len(q) \in Nat /\ Len(r) \in Nat
    BY PathLemma
  <1>2. QED
    BY <1>1 DEF Within

LEMMA NotWithinItself ==
    ASSUME NEW p \in Paths
    PROVE  ~Within(p, p)
  BY PathLemma DEF Within
=============================================================================
